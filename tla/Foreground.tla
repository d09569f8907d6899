----------------------------- MODULE Foreground -----------------------------
(* The foreground window as a `when:` sees it (src/platform/foreground.rs):   *)
(* the name of its executable is read once, when it takes the foreground, and *)
(* a key-down reads the cache.  What fills it are events that wait in the main*)
(* thread's queue, the drain's answer to an input signal, and `swch on` and   *)
(* `off` (hook/main_thread.rs, hook/keyboard_hook_callback.rs).  Mutants of   *)
(* the definitions that follow them are written as <name>_<bug>.              *)
EXTENDS Sequences, Naturals, FiniteSets

CONSTANTS
    None,
    Handle,    \* the window handles, which Windows uses again
    Process,   \* the processes with windows, each with its own executable
    Own,       \* the daemon's
    MaxMoves   \* bound: what windows, desktops and the user do

VARIABLES
    phase,     \* "installed", and "running" once the cache was filled
    enabled,   \* the switch
    here,      \* keyboard input is on this desktop
    front,     \* the foreground window, or None
    owner,     \* the process of each handle, or None for no window
    events,    \* the WinEvents posted to the main thread
    signals,   \* PendingSignals: "away", "back"
    cache,     \* ForegroundCache: window, pid and app
    moves,
    unnamed,   \* history: Windows refused the name of the cached window
    untold     \* history: Windows did not say where input went, with nothing since

vars == <<phase, enabled, here, front, owner, events, signals, cache, moves, unnamed, untold>>
outside == <<here, front, owner, moves>>
kept == <<cache, unnamed, untold>>

ForegroundAssumption ==
    /\ Own \in Process /\ None \notin Handle \cup Process
    /\ "switch" \notin Handle /\ MaxMoves \in Nat

Init ==
    /\ phase = "installed" /\ enabled = TRUE /\ here = TRUE
    /\ owner \in [Handle -> Process \cup {None}]
    /\ front \in {None} \cup {w \in Handle : owner[w] # None}
    /\ events = <<>> /\ signals = {} /\ moves = 0
    /\ cache = [window |-> None, pid |-> None, app |-> None]
    /\ unnamed = FALSE /\ untold = FALSE
-----------------------------------------------------------------------------
(* ForegroundCache::window_changed.  No window keeps the cache, and the window*)
(* it is for asks nothing.                                                    *)
Same_Handle(w) == w = cache.window
Same(w) == w = cache.window /\ owner[w] = cache.pid

WindowChanged(w) ==
    IF w = None \/ owner[w] = None \/ Same(w)
    THEN UNCHANGED <<cache, unnamed>>
    ELSE \E named \in {TRUE, FALSE} :
            /\ cache' = [window |-> w, pid |-> owner[w],
                         app |-> IF named /\ owner[w] # Own THEN owner[w] ELSE None]
            /\ unnamed' = ~named

(* resync; from another desktop Windows may name no window.                   *)
Resync ==
    /\ WindowChanged(front) \/ (~here /\ WindowChanged(None))
    /\ untold' = FALSE

(* App::run, once the hooks are installed: what changes since is an event.    *)
RefreshForeground ==
    /\ phase = "installed" /\ phase' = "running"
    /\ Resync
    /\ UNCHANGED <<enabled, outside, events, signals>>

(* The callbacks of the two WinEvents, which the pump runs.  A desktop switch *)
(* is told by where input is now; where Windows does not say, nothing is read.*)
ForegroundChanged ==
    /\ phase = "running" /\ events # <<>> /\ Head(events) # "switch"
    /\ events' = Tail(events)
    /\ IF enabled THEN WindowChanged(Head(events)) /\ untold' = FALSE ELSE UNCHANGED kept
    /\ UNCHANGED <<phase, enabled, outside, signals>>

DesktopSwitched ==
    /\ phase = "running" /\ events # <<>> /\ Head(events) = "switch"
    /\ events' = Tail(events)
    /\ \/ ~enabled /\ UNCHANGED <<signals, untold>>
       \/ enabled /\ signals' = signals \cup {IF here THEN "back" ELSE "away"} /\ UNCHANGED untold
       \/ enabled /\ untold' = TRUE /\ UNCHANGED signals
    /\ UNCHANGED <<phase, enabled, outside, cache, unnamed>>

(* answer_input_signals, in the drain: input that came back reads the window  *)
(* again, input that left resets the engine alone; while off they are dropped.*)
AnswerSignals ==
    /\ signals # {} /\ signals' = {}
    /\ IF enabled /\ "back" \in signals THEN Resync ELSE UNCHANGED kept
    /\ UNCHANGED <<phase, enabled, outside, events>>

(* set_enabled, of a real change: reset_engine reads the window again.        *)
SetEnabled ==
    /\ phase = "running" /\ moves < MaxMoves /\ moves' = moves + 1
    /\ enabled' = ~enabled
    /\ Resync
    /\ UNCHANGED <<phase, here, front, owner, events, signals>>
-----------------------------------------------------------------------------
(* Windows.  A change of the foreground is an event for the daemon unless its *)
(* own window took it (WINEVENT_SKIPOWNPROCESS), or input is elsewhere.       *)
Take(w) ==
    /\ front' = w
    /\ events' = IF w # None /\ owner'[w] # Own /\ here THEN Append(events, w) ELSE events

TakesForeground ==
    /\ UNCHANGED <<here, owner>>
    /\ \E w \in Handle \cup {None} :
         w # front /\ (w # None => owner[w] # None) /\ Take(w)

(* A window goes away, and with it the foreground; a new one has its handle,  *)
(* in the background or in front.                                             *)
Destroyed ==
    /\ \E w \in Handle :
         /\ owner[w] # None /\ owner' = [owner EXCEPT ![w] = None]
         /\ front' = IF front = w THEN None ELSE front
    /\ UNCHANGED <<here, events>>

Created ==
    /\ \E w \in Handle, p \in Process :
         /\ owner[w] = None /\ owner' = [owner EXCEPT ![w] = p]
         /\ Take(w) \/ UNCHANGED <<front, events>>
    /\ UNCHANGED here

SwitchDesktop ==
    /\ here' = ~here /\ events' = Append(events, "switch")
    /\ UNCHANGED <<front, owner>>

Windows ==
    /\ moves < MaxMoves /\ moves' = moves + 1
    /\ TakesForeground \/ Destroyed \/ Created \/ SwitchDesktop
    /\ UNCHANGED <<phase, enabled, signals, kept>>

Next ==
    \/ RefreshForeground \/ ForegroundChanged \/ DesktopSwitched \/ AnswerSignals
    \/ SetEnabled \/ Windows

Spec == Init /\ [][Next]_vars
-----------------------------------------------------------------------------
(* The cache names a window with its process, or nothing yet.                 *)
TypeOK ==
    /\ phase \in {"installed", "running"} /\ enabled \in BOOLEAN /\ here \in BOOLEAN
    /\ front \in Handle \cup {None} /\ (front # None => owner[front] # None)
    /\ owner \in [Handle -> Process \cup {None}]
    /\ events \in Seq(Handle \cup {"switch"}) /\ signals \subseteq {"away", "back"}
    /\ cache \in [window : Handle \cup {None}, pid : Process \cup {None},
                  app : (Process \ {Own}) \cup {None}]
    /\ (cache.window = None) = (cache.pid = None)
    /\ moves \in 0 .. MaxMoves /\ unnamed \in BOOLEAN /\ untold \in BOOLEAN

(* Once the main thread has handled what was posted, and while remapping is   *)
(* on and input is here, a `when:` sees the window in front and its process,  *)
(* whatever was missed before: also a handle that another process uses now.   *)
(* The daemon's own windows are not told of, Windows may not say that input   *)
(* came back, and it may refuse the name (window_changed, reset_engine,       *)
(* input_returned).                                                           *)
Settled ==
    /\ phase = "running" /\ enabled /\ here /\ events = <<>> /\ signals = {}
    /\ ~untold /\ front # None /\ owner[front] # Own

AppTrue ==
    Settled =>
        /\ cache.window = front /\ cache.pid = owner[front]
        /\ ~unnamed => cache.app = owner[front]
=============================================================================
