------------------------------ MODULE KeyPath ------------------------------
(* The path of a key event through the daemon: the keyboard hook decides it   *)
(* with the engine's key table, Windows applies it some time after the hook   *)
(* returned, and the main thread reads the modifiers back between events.     *)
(*                                                                            *)
(* Engine  (src/engine/mod.rs, keys.rs, resync.rs): active, record, maskOwed, *)
(*         and the read-back notes due, fresh, owed, away                     *)
(* Adapter (src/hook/): enabled, noted, draining                              *)
(* Windows: win, rising, falling, hooked                                      *)
(* Actors: the user and other programs (held), the daemon's actions           *)
(*         (injected), each pressing a key by one code at a time              *)
(*                                                                            *)
(* What the bindings ask of an event is a free choice here (`ask`, `done`,    *)
(* `bound`, `maskOnly`): what is shown holds for every configuration.         *)
(*                                                                            *)
(* `fate`, `stale` and `decision` are history variables: they are written and *)
(* never read by the actions.                                                 *)
EXTENDS KeyState

CONSTANTS
    None,     \* no code: the key is not held
    Feature   \* which parts of the environment act, a subset of Features

Features == {"hidden",    \* events the hook never sees (elevated windows, refusals)
             "later",     \* a hook after this one swallows what the daemon passed
             "inject",    \* the daemon's own key events
             "desktop",   \* keyboard input leaves this desktop and comes back
             "switch",    \* swch on, swch off and a config reload
             "unhook",    \* Windows removes the hook, the watchdog reinstalls it
             "maskonly",  \* MaskOnly auto-blockers are configured
             "chord"}     \* chords and sequences are configured

ASSUME PathAssumption ==
    /\ None \notin Code
    /\ Feature \subseteq Features

VARIABLES
    active,    \* KeyState: the codes the engine believes are held
    record,    \* KeyState: what became of each code's latest key-down
    maskOwed,  \* a MaskOnly blocker matched: the next event asks for the mask
    due,       \* Resync: `hiding # resynced`, a read of every modifier is due
    fresh,     \* Resync: touched by an event since the last plan
    owed,      \* Resync: left out of the last read because fresh then
    away,      \* Resync: keyboard input is on another desktop
    enabled,   \* remapping is on (`swch on`)
    noted,     \* hidden input was noted since the last plan
    draining,  \* the main thread served a request or a signal of this drain
    win,       \* the keys Windows has down (asynchronous key state)
    rising,    \* the passed key-down Windows has not applied yet
    falling,   \* the passed key-up Windows has not applied yet
    hooked,    \* Windows calls the keyboard hook
    held,      \* the code by which each key is held, or None
    injected,  \* the keys the daemon's own events hold
    fate,      \* history: what became of the present press of each key
    stale,     \* history: the modifiers whose flag an unseen event made unsure
    decision   \* history: the engine's decision in the latest step

engineVars == <<active, record, maskOwed>>
resyncVars == <<due, fresh, owed, away>>
winVars    == <<win, rising, falling, hooked>>
vars == <<active, record, maskOwed, due, fresh, owed, away, enabled, noted,
          draining, win, rising, falling, hooked, held, injected, fate, stale,
          decision>>

Fates == {"none",       \* no press, or one that is not followed
          "passed",     \* its first key-down reached Windows
          "swallowed",  \* its first key-down was swallowed
          "broken",     \* the engine treated two of its events differently
          "later",      \* a later hook swallows every event of it
          "cut"}        \* the daemon's own key-up ended it in Windows

NoDecision == [event |-> "none", suppress |-> FALSE, mask |-> FALSE]

TypeOK ==
    /\ active \subseteq Code
    /\ record \in [Code -> LastDown]
    /\ maskOwed \in BOOLEAN
    /\ due \in BOOLEAN /\ away \in BOOLEAN
    /\ fresh \subseteq Modifier /\ owed \subseteq Modifier
    /\ enabled \in BOOLEAN /\ noted \in BOOLEAN /\ draining \in BOOLEAN
    /\ win \subseteq Key /\ rising \subseteq Key /\ falling \subseteq Key
    /\ hooked \in BOOLEAN
    /\ held \in [Key -> Code \cup {None}]
    /\ injected \subseteq Key
    /\ fate \in [Key -> Fates]
    /\ stale \subseteq Sided
    /\ decision \in [event : {"none", "down", "up"},
                     suppress : BOOLEAN, mask : BOOLEAN]

(* The daemon starts with no key held by it and remapping on; the engine's    *)
(* first read of the modifiers is due.                                        *)
Init ==
    /\ active = {} /\ record = [c \in Code |-> "Unknown"] /\ maskOwed = FALSE
    /\ due = TRUE /\ fresh = {} /\ owed = {} /\ away = FALSE
    /\ enabled = TRUE /\ noted = FALSE /\ draining = FALSE
    /\ win = {} /\ rising = {} /\ falling = {} /\ hooked = TRUE
    /\ held = [k \in Key |-> None] /\ injected = {}
    /\ fate = [k \in Key |-> "none"] /\ stale = {} /\ decision = NoDecision

-----------------------------------------------------------------------------
Down     == ReadsDown(win)
Inflight == rising \cup falling
WinSoon  == (win \cup rising) \ falling

(* A key event can be delivered: Windows has applied every earlier one, and   *)
(* the main thread waits for messages, as the hook is called on it.           *)
Deliverable == Inflight = {} /\ ~draining

(* An actor presses or holds key k by the code c.  An injector that holds a   *)
(* generic code does not press it a second time.                              *)
CanPress(c, k) ==
    /\ k = c \/ (c \in Generic /\ k \in Pair[c])
    /\ \/ held[k] = c
       \/ held[k] = None /\ \A j \in Key : held[j] # c

(* What the hook passed goes on to the hooks after it, and then to Windows.   *)
PassDown(k, swallowedLater) ==
    /\ rising' = (IF swallowedLater THEN {} ELSE {k})
    /\ UNCHANGED <<win, falling, hooked>>
PassUp(k) ==
    /\ falling' = (IF fate[k] = "later" THEN {} ELSE {k})
    /\ UNCHANGED <<win, rising, hooked>>

(* A press stops being followed where the engine cannot know it any more.     *)
Untracked(keys) ==
    [k \in Key |-> IF k \in keys /\ fate[k] \in {"passed", "swallowed"}
                   THEN "none" ELSE fate[k]]

Stale(keys) == stale \cup (keys \cap Sided)
-----------------------------------------------------------------------------
(* A press is followed if the engine sees its first key-down as one, Windows  *)
(* has the key up then, and a swallowed one is of a code of its own.          *)
FateOfDown(c, k, repeat, swallow, swallowedLater) ==
    CASE held[k] = None /\ ~swallow /\ swallowedLater        -> "later"
      [] held[k] = None /\ (swallow \/ ~swallowedLater)      ->
            IF repeat \/ k \in win \/ (swallow /\ c \in Generic) THEN "none"
            ELSE IF swallow THEN "swallowed" ELSE "passed"
      [] held[k] # None /\ fate[k] = "passed" /\ swallow     -> "broken"
      [] held[k] # None /\ fate[k] = "swallowed" /\ ~swallow -> "broken"
      [] OTHER                                               -> fate[k]

(* After the event the flag of its own key is exact, unless a later hook      *)
(* swallowed it or a generic code pressed it, and unless a repeat of a press  *)
(* the engine never saw was swallowed.                                        *)
StaleAfterDown(c, k, repeat, swallow, swallowedLater) ==
    CASE ~swallow /\ (swallowedLater \/ c # k) -> Stale({k})
      [] ~swallow /\ ~swallowedLater /\ c = k  -> stale \ {k}
      [] swallow /\ ~repeat /\ c = k           -> stale \ {k}
      [] OTHER                                 -> stale

(* Engine::on_key for a key-down, with what the bindings make of it: `ask` to *)
(* swallow it, `done` the keys of a chord or sequence it completes, `maskOnly`*)
(* a MaskOnly auto-blocker matching.                                          *)
Decide(c, k, ask, done, maskOnly, swallowedLater) ==
    LET kept    == ClearReleased(active, record, c, Modifier, Down)
        repeat  == c \in kept
        pressed == kept \cup {c}
        before  == Completed(pressed, record, done)
        after   == [before EXCEPT ![c] = RecordOfDown(repeat, before[c], ask)]
        swallow == DownSwallowed(repeat, before[c], ask)
        hotkey  == maskOnly /\ ~repeat
    IN  /\ done # {} => ask /\ ~repeat
        /\ active' = pressed
        /\ record' = after
        /\ maskOwed' = hotkey
        /\ decision' = [event |-> "down", suppress |-> swallow,
                        mask |-> \/ maskOwed \/ hotkey
                                 \/ swallow /\ MenuDown(pressed, after)]
        /\ fate' = [fate EXCEPT ![k] =
                        FateOfDown(c, k, repeat, swallow, swallowedLater)]
        /\ stale' = StaleAfterDown(c, k, repeat, swallow, swallowedLater)
        /\ IF swallow THEN UNCHANGED winVars ELSE PassDown(k, swallowedLater)

SwallowedLater(k) ==
    IF held[k] # None THEN {fate[k] = "later"}
    ELSE IF "later" \in Feature THEN BOOLEAN ELSE {FALSE}

KeyDown(c, k) ==
    /\ enabled /\ hooked /\ Deliverable /\ CanPress(c, k)
    /\ \E ask \in BOOLEAN, swallowedLater \in SwallowedLater(k),
          done \in (IF "chord" \in Feature THEN SUBSET (active \cup {c}) ELSE {{}}),
          maskOnly \in (IF "maskonly" \in Feature THEN BOOLEAN ELSE {FALSE}) :
             Decide(c, k, ask, done, maskOnly, swallowedLater)
    /\ held' = [held EXCEPT ![k] = c]
    /\ fresh' = fresh \cup TouchedBy(c) /\ away' = FALSE
    /\ UNCHANGED <<due, owed, enabled, noted, draining, injected>>

UpSwallowed_NoWitness(c, bound) ==
    record[c] \in Kept \/ (bound /\ record[c] # "Passed")

(* A key-up is swallowed if its key-down was, or if a gesture of the press is *)
(* pending (`bound`), unless Windows has the key down all the same.           *)
UpSwallowed(c, bound) ==
    /\ record[c] \in Kept \/ (bound /\ record[c] # "Passed")
    /\ c \notin Down

(* Engine::on_key for a key-up.                                               *)
KeyUp(c, k) ==
    /\ enabled /\ hooked /\ Deliverable /\ held[k] = c
    /\ \E bound \in BOOLEAN :
        LET released == active \ {c}
            after    == [record EXCEPT ![c] = "Unknown"]
            swallow  == UpSwallowed(c, bound)
            checked  == IF swallow
                        THEN ClearReleased(released, after, c, Menu, Down)
                        ELSE released
        IN  /\ active' = checked
            /\ record' = after
            /\ maskOwed' = FALSE
            /\ decision' = [event |-> "up", suppress |-> swallow,
                            mask |-> \/ maskOwed
                                     \/ swallow /\ MenuDown(checked, after)]
            /\ fate' = [fate EXCEPT ![k] =
                            CASE fate[k] = "passed" /\ swallow     -> "broken"
                              [] fate[k] = "swallowed" /\ ~swallow -> "broken"
                              [] OTHER                             -> "none"]
            /\ stale' = (IF ~swallow /\ (c # k \/ fate[k] = "later")
                         THEN Stale({k}) ELSE stale \ ({c} \cap {k}))
            /\ IF swallow THEN UNCHANGED winVars ELSE PassUp(k)
    /\ held' = [held EXCEPT ![k] = None]
    /\ fresh' = fresh \cup TouchedBy(c) /\ away' = FALSE
    /\ UNCHANGED <<due, owed, enabled, noted, draining, injected>>

(* While remapping is off the callback passes the event without reading it.   *)
OffDown(c, k) ==
    /\ ~enabled /\ hooked /\ Deliverable /\ CanPress(c, k)
    /\ fate' = [fate EXCEPT ![k] = IF held[k] = None THEN "passed" ELSE @]
    /\ PassDown(k, fate[k] = "later" /\ held[k] # None)
    /\ held' = [held EXCEPT ![k] = c]
    /\ decision' = NoDecision
    /\ UNCHANGED <<engineVars, resyncVars, enabled, noted, draining, injected, stale>>

OffUp(c, k) ==
    /\ ~enabled /\ hooked /\ Deliverable /\ held[k] = c
    /\ PassUp(k)
    /\ fate' = [fate EXCEPT ![k] = "none"]
    /\ held' = [held EXCEPT ![k] = None]
    /\ decision' = NoDecision
    /\ UNCHANGED <<engineVars, resyncVars, enabled, noted, draining, injected, stale>>
-----------------------------------------------------------------------------
(* A key event that Windows applies without calling this hook: while a        *)
(* higher-integrity window has the focus, after a hook call timed out, or     *)
(* while the hook is gone.                                                    *)
Unseen == "hidden" \in Feature \/ ~hooked

UnseenDown(k) ==
    /\ Unseen /\ Inflight = {}
    /\ win' = win \cup {k}
    /\ held' = [held EXCEPT ![k] = IF @ = None THEN k ELSE @]
    /\ fate' = [fate EXCEPT ![k] = IF held[k] = None /\ ~hooked THEN "passed"
                                   ELSE IF @ = "passed" THEN "passed" ELSE "none"]
    /\ stale' = Stale({k})
    /\ decision' = NoDecision
    /\ UNCHANGED <<engineVars, resyncVars, enabled, noted, draining, rising,
                   falling, hooked, injected>>

UnseenUp(k) ==
    /\ Unseen /\ Inflight = {} /\ held[k] # None
    /\ win' = win \ {k}
    /\ held' = [held EXCEPT ![k] = None]
    /\ fate' = [fate EXCEPT ![k] = "none"]
    /\ stale' = Stale({k})
    /\ decision' = NoDecision
    /\ UNCHANGED <<engineVars, resyncVars, enabled, noted, draining, rising,
                   falling, hooked, injected>>

(* Windows takes the passed event into the asynchronous key state.            *)
Apply ==
    /\ Inflight # {}
    /\ win' = WinSoon /\ rising' = {} /\ falling' = {}
    /\ decision' = NoDecision
    /\ UNCHANGED <<engineVars, resyncVars, enabled, noted, draining, hooked,
                   held, injected, fate, stale>>

(* One of the daemon's own key events: the hook passes it, following only the *)
(* flag of a modifier, and nothing at all while remapping is off.             *)
Inject(k, isDown) ==
    /\ "inject" \in Feature /\ Deliverable
    /\ isDown <=> k \notin injected
    /\ injected' = (IF isDown THEN injected \cup {k} ELSE injected \ {k})
    /\ IF isDown THEN PassDown(k, FALSE)
       ELSE falling' = {k} /\ UNCHANGED <<win, rising, hooked>>
    /\ IF enabled /\ hooked
       THEN /\ active' = Tracked(active, record, k, isDown)
            /\ fresh' = fresh \cup TouchedBy(k)
            /\ stale' = stale \ {k}
       ELSE stale' = Stale({k}) /\ UNCHANGED <<active, fresh>>
    /\ fate' = (IF held[k] = None \/ fate[k] = "later" THEN fate
                ELSE [fate EXCEPT ![k] = IF isDown THEN "none" ELSE "cut"])
    /\ decision' = NoDecision
    /\ UNCHANGED <<record, maskOwed, due, owed, away, enabled, noted, draining, held>>
-----------------------------------------------------------------------------
(* Engine::reset for `swch on`, `swch off` and a hook reinstall: every key is *)
(* read from Windows.  A press the read cannot place is not followed on: one  *)
(* that was swallowed, one whose key-down is not applied yet, one held by a   *)
(* generic code.                                                              *)
ResetFromOs ==
    /\ active' = ActiveFromOs(Down) /\ record' = RecordFromOs(record, Down)
    /\ maskOwed' = FALSE
    /\ due' = FALSE /\ fresh' = {} /\ owed' = {} /\ UNCHANGED away
    /\ fate' = Untracked({k \in Key : fate[k] = "swallowed" \/ k \in Inflight
                                        \/ held[k] \in Generic})
    /\ stale' = Inflight \cap Sided

(* A request or a signal served in the drain, with no event between it and    *)
(* the drain's trailing read.                                                 *)
Served ==
    /\ draining' = TRUE /\ decision' = NoDecision
    /\ UNCHANGED <<win, rising, falling, held, injected, noted>>

(* `swch on` and `swch off`; a switch that is no change resets nothing.       *)
Switch ==
    /\ "switch" \in Feature
    /\ enabled' = ~enabled
    /\ ResetFromOs /\ Served
    /\ UNCHANGED hooked

(* A reload keeps the keys: only the pending gestures, chords, sequences and  *)
(* the owed mask go.                                                          *)
Reload ==
    /\ "switch" \in Feature
    /\ maskOwed' = FALSE
    /\ Served
    /\ UNCHANGED <<active, record, resyncVars, enabled, hooked, fate, stale>>

Reinstall ==
    /\ "unhook" \in Feature
    /\ hooked' = TRUE
    /\ ResetFromOs /\ Served
    /\ UNCHANGED enabled

(* Keyboard input leaves this desktop: every key is released, every record    *)
(* stays, and nothing is read until input is known to be back.                *)
InputLeft ==
    /\ "desktop" \in Feature /\ enabled
    /\ active' = {} /\ maskOwed' = FALSE
    /\ away' = TRUE /\ due' = TRUE
    /\ fate' = Untracked(Key) /\ stale' = Sided
    /\ Served
    /\ UNCHANGED <<record, fresh, owed, enabled, hooked>>

InputReturned ==
    /\ "desktop" \in Feature /\ enabled
    /\ away' = FALSE /\ due' = TRUE
    /\ Served
    /\ UNCHANGED <<engineVars, fresh, owed, enabled, hooked, fate, stale>>

(* The foreground window changed, reported on the main thread.                *)
ForegroundChanged ==
    /\ enabled /\ ~draining
    /\ due' = TRUE /\ decision' = NoDecision
    /\ UNCHANGED <<engineVars, fresh, owed, away, enabled, noted, draining,
                   winVars, held, injected, fate, stale>>

(* A refused or late callback, a long stretch away from the messages, or the  *)
(* hook watchdog, from its own thread, noted hidden input.                    *)
NoteHidden ==
    /\ noted' = TRUE /\ decision' = NoDecision
    /\ UNCHANGED <<engineVars, resyncVars, enabled, draining, winVars, held,
                   injected, fate, stale>>

(* Windows silently removes a hook that timed out too often.                  *)
Unhook ==
    /\ "unhook" \in Feature /\ hooked
    /\ hooked' = FALSE /\ decision' = NoDecision
    /\ UNCHANGED <<engineVars, resyncVars, enabled, noted, draining, win, rising,
                   falling, held, injected, fate, stale>>

(* The drain's trailing read of the modifiers (Resync::plan, then             *)
(* KeyState::resync_modifiers).  Environment assumption: Windows has applied  *)
(* an event by the second drain after it, so that one in flight is fresh.     *)
Planned_NotesIgnored == IF due THEN Modifier ELSE owed
Planned == IF due \/ noted THEN Modifier ELSE owed

ToRead_WithFresh == Planned
ToRead == Planned \ fresh

ReadModifiers ==
    /\ noted' = FALSE
    /\ IF away
       THEN due' = (due \/ noted) /\ UNCHANGED <<fresh, owed, active, stale>>
       ELSE /\ \A k \in Inflight : TouchedBy(k) \cap Planned \subseteq fresh
            /\ due' = FALSE
            /\ fresh' = {}
            /\ owed' = Planned \ ToRead
            /\ active' = Reread(active, record, ToRead, Down)
            /\ stale' = stale \ ToRead

(* The end of a drain; nothing is read while remapping is off.                *)
Drain ==
    /\ draining' = FALSE
    /\ IF enabled THEN ReadModifiers
       ELSE UNCHANGED <<noted, due, fresh, owed, active, stale>>
    /\ decision' = NoDecision
    /\ UNCHANGED <<record, maskOwed, away, enabled, winVars, held, injected, fate>>
-----------------------------------------------------------------------------
Next ==
    \/ \E c \in Code, k \in Key :
          KeyDown(c, k) \/ KeyUp(c, k) \/ OffDown(c, k) \/ OffUp(c, k)
    \/ \E k \in Key : UnseenDown(k) \/ UnseenUp(k)
    \/ \E k \in Key, isDown \in BOOLEAN : Inject(k, isDown)
    \/ Apply
    \/ Switch \/ Reload \/ Reinstall
    \/ InputLeft \/ InputReturned
    \/ ForegroundChanged \/ NoteHidden \/ Unhook
    \/ Drain

Spec == Init /\ [][Next]_vars

(* The main loop drains after every message it dispatches and every wake, and *)
(* Windows applies what it was passed.                                        *)
FairSpec == Spec /\ WF_vars(Apply) /\ WF_vars(Drain)
-----------------------------------------------------------------------------
(* A key that is down in Windows, with no key-up on its way, is really held:  *)
(* by the user, by another program or by the daemon.  The witness of          *)
(* Engine::on_key_up is what keeps a swallowed key-up from breaking it, after *)
(* Windows saw a key-down that the hook did not.                              *)
NothingStuck ==
    \A k \in win \ falling : held[k] # None \/ k \in injected

(* A key-up that the engine passes finds its key down in Windows, so that no  *)
(* application gets a release without a press - but for a press that a later  *)
(* hook swallowed or that the daemon's own key-up ended, and with a generic   *)
(* code counted down while either of its keys is.                             *)
KeyUpOfDown ==
    decision'.event = "up" /\ ~decision'.suppress =>
        \A k \in falling' : fate[k] \notin {"cut", "later"} => held[k] \in Down

NoLoneKeyUp == [][KeyUpOfDown]_vars

(* A press is whole: once its first key-down was passed (or swallowed), so    *)
(* are its repeats and its key-up - across foreground changes, reads of the   *)
(* modifiers, `swch off` and `swch on`, a reload, a hook that was gone and    *)
(* came back, and the daemon's own key events.                                *)
PressWhole == \A k \in Key : fate[k] # "broken"

(* The strengthening that makes the three properties above inductive.         *)
(* A code is held through one key at most, which is its own or in its pair.   *)
HeldByOne ==
    \A k \in Key : held[k] # None =>
        /\ k = held[k] \/ (held[k] \in Generic /\ k \in Pair[held[k]])
        /\ \A j \in Key : held[j] = held[k] => j = k

(* One event is in flight at most, and a key-up ends the press.               *)
OneInflight ==
    /\ rising = {} \/ falling = {}
    /\ \A j, k \in Inflight : j = k
    /\ \A k \in falling : held[k] = None \/ fate[k] \in {"cut", "later"}

(* A key that Windows has down, or will have, is held or injected.            *)
SoonHeld ==
    \A k \in WinSoon : k \in injected \/ (held[k] # None /\ fate[k] # "later")

(* Windows has a held key down, or its record swallows its key-up.            *)
RecordsMatch ==
    \A k \in Key :
        held[k] # None /\ fate[k] \notin {"cut", "later"} /\ k \notin Inflight
            => k \in win \/ record[held[k]] \in Kept

(* A passed press is down in Windows and on record as passed.                 *)
PassedOnRecord ==
    \A k \in Key : fate[k] = "passed" =>
        /\ held[k] # None /\ k \in WinSoon
        /\ enabled /\ hooked => record[held[k]] = "Passed" /\ held[k] \in active

(* A swallowed press is up in Windows and on record as swallowed.             *)
SwallowedOnRecord ==
    \A k \in Key : fate[k] = "swallowed" =>
        /\ enabled /\ held[k] = k /\ k \notin WinSoon
        /\ record[k] = "Suppressed" /\ k \in active

PathInv ==
    /\ HeldByOne /\ OneInflight /\ SoonHeld /\ RecordsMatch
    /\ PassedOnRecord /\ SwallowedOnRecord /\ PressWhole

(* The flag of a modifier whose events the engine saw agrees with Windows, as *)
(* Windows will be once the event in flight is applied, or its key-down was   *)
(* swallowed: a read of the modifiers between events never undoes an event    *)
(* that Windows has not applied yet.                                          *)
FlagsMatch ==
    enabled => \A m \in Sided \ stale :
                  record[m] = "Suppressed" \/ (m \in active <=> m \in WinSoon)

(* The engine knows of every Alt and Win key that Windows has down, by its    *)
(* own code or by the generic one that holds it, and by no unseen event.      *)
MenuKnown ==
    \A k \in Menu \cap Key :
        \/ k \notin stale /\ (k \in win => record[k] # "Suppressed")
        \/ k \in win /\ held[k] \in Generic \cap active /\ record[held[k]] # "Suppressed"

(* The menu mask key goes with a swallowed event exactly when Windows has an  *)
(* Alt or Win key down: too few, and its release opens the menu bar or Start; *)
(* too many, and Windows gets a key nobody pressed.  Any event also carries   *)
(* the mask of its own MaskOnly hotkey and the one owed by the event before.  *)
MaskIfNeeded ==
    decision'.event # "none" /\ MenuKnown' =>
        (decision'.mask <=> \/ maskOwed \/ maskOwed'
                            \/ decision'.suppress /\ Menu \cap win # {})

MaskRule == [][MaskIfNeeded]_vars

(* A modifier that an unseen event made unsure is read again once the hidden  *)
(* input is noted, unless remapping goes off, input leaves the desktop, or    *)
(* the engine swallows the key itself: a key-down that was swallowed is never *)
(* read, and a swallowed repeat per drain puts the read off each time.        *)
Unsure(m) == m \in stale /\ (due \/ noted)
Settled(m) == m \notin stale \/ record[m] \in Kept \/ ~enabled \/ away

Healed == \A m \in Sided : Unsure(m) ~> Settled(m)
=============================================================================
