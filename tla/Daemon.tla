------------------------------- MODULE Daemon -------------------------------
(* The life of the daemon's process: the start and the end of App::run        *)
(* (src/core/app.rs, src/main.rs), the main thread's loop and its requests    *)
(* (src/hook/main_thread.rs), and who uses them: the IPC workers              *)
(* (src/hook/ipc_server.rs), the configuration's watcher                      *)
(* (src/hook/config_watcher.rs), the hook watchdog, and the control window    *)
(* (src/hook/control_window.rs).  What a request does to the engine is        *)
(* KeyPath's and Gestures', when the watchdog asks is Watchdog's, and what    *)
(* the executor does with its jobs is Executor's.                             *)
(*                                                                            *)
(* A list of bindings is the number of the save that has it.  `n` and         *)
(* `carried` of a call, `leftover` and `overlooked` are history.              *)
EXTENDS Integers, SequencesExt

CONSTANTS
    None,
    Client,         \* the users of swch
    Capacity,       \* REQUEST_CAPACITY
    MaxAsks,        \* bound: the requests of each client and of the watchdog
    MaxSaves,       \* bound: the saves of the configuration
    Environments    \* the sets of troubles that occur together

Troubles == {"refuse",   \* a step of the start, or the loop's wait, fails
             "lost",     \* a MAIN_WAKE that is posted does not arrive
             "slow",     \* a caller waits for REPLY_TIMEOUT
             "removed",  \* Windows removes the keyboard hook, or refuses another
             "stays",    \* Windows does not remove a hook that it is asked to remove
             "stuck",    \* a thread that is to stop does not in time
             "swch",     \* clients turn remapping on and off, or end the daemon
             "save",     \* the configuration is saved
             "session",  \* the session is locked, unlocked, or ends
             "quit",     \* Ctrl+C
             "again"}    \* the daemon is started once more

Watcher  == "watcher"
Watchdog == "watchdog"
Caller   == Client \cup {Watcher, Watchdog}

ASSUME DaemonAssumption ==
    /\ Client \cap {Watcher, Watchdog} = {}
    /\ Capacity \in Nat \ {0} /\ MaxAsks \in Nat /\ MaxSaves \in Nat
    /\ Environments \subseteq SUBSET Troubles
    /\ None \notin Nat \cup {"runs"}

VARIABLES
    env,         \* the troubles of this behaviour
    at,          \* what the main thread does next
    guards,      \* what App::run holds: "main", "executor" and so on
    order,       \* its end: the order in which what it holds is undone
    failed,      \* it returns an error
    hook,        \* KeyboardHook: the handle of the keyboard hook, or None
    installed,   \* Windows: the keyboard hooks of the daemon
    leftover,    \* history: those of them that stayed when they were to be removed
    enabled,     \* KeyboardHook: the remapping switch
    live,        \* KeyboardHook: the list of bindings
    requests,    \* the request queue
    busy,        \* drain: this pass found something
    posted,      \* the main thread's messages: "wake" and "quit"
    signals,     \* PENDING_SIGNALS
    call,        \* what each caller waits for, or heard
    instance,    \* the process holds the instance mutex
    pipe,        \* IpcListener: "none", "bound", or "served" to the process's end
    second,      \* what became of another start of the daemon
    disk,        \* the configuration: its list, or None for one that does not load
    saves,       \* how many saves were made
    unseen,      \* a save that notify has not reported
    events,      \* the watcher's channel holds an event
    watcher,     \* debounce_loop: what it does, and the list it loaded
    overlooked   \* history: no reload of the last save was accepted, nor will be

thread  == <<at, guards, order, failed>>
hooks   == <<hook, installed, leftover>>
bound   == <<enabled, live>>
process == <<instance, pipe, second>>
file    == <<disk, saves, unseen>>
watch   == <<events, watcher, overlooked>>
vars == <<env, thread, hooks, bound, requests, busy, posted, signals, call, process, file,
          watch>>

Refused == {FALSE} \cup {TRUE : trouble \in {"refuse"} \cap env}
-----------------------------------------------------------------------------
(* The start (App::run): each step makes a guard.  A step that fails returns  *)
(* an error, and Rust drops the guards, the latest first; a watchdog or a     *)
(* watcher that cannot be started is done without.                            *)
Guard == {"executor", "main", "watchdog", "window", "watcher", "hook"}
DropOrder == <<"watcher", "window", "watchdog", "executor", "main">>
Return ==
    /\ at' = "end" /\ failed' = TRUE
    /\ order' = DropOrder
    /\ UNCHANGED guards
Goes(step) == at' = step /\ UNCHANGED <<guards, order, failed>>

Bind ==
    /\ at = "bind"
    /\ \E refused \in Refused :
         IF refused THEN Return /\ UNCHANGED pipe ELSE Goes("executor") /\ pipe' = "bound"
    /\ UNCHANGED hooks

StartGuard(guard, next) ==
    /\ at = guard
    /\ \E refused \in Refused :
         IF refused THEN Return
         ELSE at' = next /\ guards' = guards \cup {guard} /\ UNCHANGED <<order, failed>>
    /\ UNCHANGED <<hooks, pipe>>
StartOptional(guard, next) ==
    /\ at = guard /\ at' = next
    /\ \E refused \in Refused : guards' = IF refused THEN guards ELSE guards \cup {guard}
    /\ UNCHANGED <<order, failed, hooks, pipe>>

StartExecutor == StartGuard("executor", "main")
StartMain     == StartGuard("main", "watchdog")
StartWatchdog == StartOptional("watchdog", "window")
StartWindow   == StartGuard("window", "install")
StartWatcher  == StartOptional("watcher", "drain")

(* The keyboard hook and two WinEvent hooks; where Windows refuses one of     *)
(* these, the keyboard hook is removed again.                                 *)
Install ==
    /\ at = "install"
    /\ \E refused \in Refused :
         IF refused THEN Return /\ UNCHANGED hooks
         ELSE Goes("serve") /\ hook' = 1 /\ installed' = {1} /\ UNCHANGED leftover
    /\ UNCHANGED pipe

(* unhook_keyboard, of the hook among all there are: it goes, or stays.       *)
Unhook(all) ==
    \/ installed' = all \ {hook} /\ UNCHANGED leftover
    \/ /\ "stays" \in env /\ hook \in all
       /\ installed' = all /\ leftover' = leftover \cup {hook}

(* uninstall: the handle is taken, and Windows asked to remove the hook,      *)
(* which fails if it had removed it, or if it stays.                          *)
Uninstall == hook' = None /\ Unhook(installed)
UninstallFails == hook # None /\ (hook \notin installed \/ hook \in installed')

Serve ==
    /\ at = "serve"
    /\ \E refused \in Refused :
         IF refused THEN Return /\ Uninstall /\ pipe' = "none"
         ELSE Goes("watcher") /\ pipe' = "served" /\ UNCHANGED hooks

Start ==
    /\ \/ Bind \/ StartExecutor \/ StartMain \/ StartWatchdog \/ StartWindow \/ Install
       \/ Serve \/ StartWatcher
    /\ UNCHANGED <<env, bound, requests, busy, posted, signals, call, instance, second, file,
                   watch>>
-----------------------------------------------------------------------------
(* The loop (MainThread::run).  The drain serves the requests, then answers   *)
(* the signals, until a whole pass finds none.                                *)

(* A reinstall puts the new hook in before the old one comes off, and takes   *)
(* it that an old one that cannot be removed is gone; it does nothing without *)
(* a hook, or for one that answered meanwhile.                                *)
Hooks == 1 .. MaxAsks + 1
Replaced(new) == hook' = new /\ Unhook(installed \cup {new})
Reinstall ==
    \/ UNCHANGED hooks
    \/ hook # None /\ \E new \in Hooks \ (installed \cup {hook}) : Replaced(new)

Carried(r) ==
    call' = [call EXCEPT ![r.from].replied = @ \/ r.heard,
                         ![r.from].carried = @ \/ call[r.from].n = r.n]

ServeRequest ==
    /\ at = "drain" /\ requests # <<>>
    /\ LET r == Head(requests) IN
       /\ Carried(r)
       /\ CASE r.kind = "switch" -> enabled' = r.value /\ UNCHANGED <<live, hooks>>
            [] r.kind = "reload" -> live' = r.value /\ UNCHANGED <<enabled, hooks>>
            [] OTHER -> Reinstall /\ UNCHANGED bound
    /\ requests' = Tail(requests) /\ busy' = TRUE
    /\ UNCHANGED <<at, signals, posted>>
NoRequest ==
    /\ at = "drain" /\ requests = <<>> /\ at' = "signals"
    /\ UNCHANGED <<hooks, bound, requests, busy, posted, signals, call>>

AfterPass(found) == IF found THEN "drain" ELSE "wait"
AnswerSignals ==
    /\ at = "signals"
    /\ at' = AfterPass(busy \/ signals # {})
    /\ signals' = {} /\ busy' = FALSE
    /\ UNCHANGED <<hooks, bound, requests, posted, call>>

(* The wait ends for a message; pump takes the messages, until the queue is   *)
(* empty or a MAIN_WAKE goes back to the drain.                               *)
Woken ==
    /\ at = "wait" /\ posted # {} /\ at' = "pump"
    /\ UNCHANGED <<hooks, bound, requests, busy, posted, signals, call>>
AfterWake_Waits == "wait"
AfterWake == "drain"
PumpWake ==
    /\ at = "pump" /\ "wake" \in posted
    /\ posted' = posted \ {"wake"} /\ at' = AfterWake
    /\ UNCHANGED <<hooks, bound, requests, busy, signals, call>>
PumpEmpty ==
    /\ at = "pump" /\ posted = {} /\ at' = "drain"
    /\ UNCHANGED <<hooks, bound, requests, busy, posted, signals, call>>
Loop ==
    /\ ServeRequest \/ NoRequest \/ AnswerSignals \/ Woken \/ PumpWake \/ PumpEmpty
    /\ UNCHANGED <<env, guards, order, failed, process, file, watch>>

(* WM_QUIT ends the loop, and so does a wait that fails.                      *)
NormalOrder_ThreadsFirst ==
    <<"main", "watchdog", "executor", "hook", "window", "watcher">>
NormalOrder == <<"main", "hook", "window", "watchdog", "executor", "watcher">>
EndsLoop ==
    /\ at' = "end"
    /\ order' = NormalOrder /\ guards' = guards \cup {"hook"}
    /\ UNCHANGED <<env, hooks, bound, requests, busy, signals, call, process, file,
                   watch>>
Quit ==
    /\ at = "pump" /\ "quit" \in posted
    /\ posted' = posted \ {"quit"}
    /\ EndsLoop /\ UNCHANGED failed
WaitFails ==
    /\ at = "wait" /\ "refuse" \in env
    /\ failed' = TRUE
    /\ EndsLoop /\ UNCHANGED posted
-----------------------------------------------------------------------------
(* The end of App::run, a guard at a time.  Without the main state the queue  *)
(* is closed, and who waits in it hears so.                                   *)
UndoMain == requests' = <<>> /\ signals' = {} /\ UNCHANGED <<hooks, failed>>

(* `hook.uninstall()?`: an error returns early.                               *)
UndoHook ==
    /\ Uninstall
    /\ failed' = (failed \/ UninstallFails)
    /\ UNCHANGED <<requests, signals>>
Rest(g) == order' = IF g = "hook" /\ UninstallFails THEN DropOrder ELSE order

(* A thread that does not stop within its limit is left to the process's end. *)
StopsWaiting_Never == "stuck" \notin env
StopsWaiting == TRUE
Turn(g) ==
    /\ at = "end" /\ g \in guards
    /\ \E i \in DOMAIN order : order[i] = g /\ \A j \in 1 .. i - 1 : order[j] \notin guards
Undo ==
    /\ \E g \in guards :
         /\ Turn(g)
         /\ CASE g = "main" -> UndoMain
              [] g = "hook" -> UndoHook
              [] g \in {"watchdog", "executor"} ->
                   StopsWaiting /\ UNCHANGED <<requests, signals, hooks, failed>>
              [] OTHER -> UNCHANGED <<requests, signals, hooks, failed>>
         /\ guards' = guards \ {g}
         /\ Rest(g)
    /\ UNCHANGED <<env, at, bound, busy, posted, call, process, file, watch>>

(* main: the instance guard drops as run returns; an error waits for Enter.   *)
Returned ==
    /\ at = "end" /\ guards = {}
    /\ at' = IF failed THEN "prompt" ELSE "returned"
    /\ instance' = FALSE
    /\ pipe' = IF pipe = "bound" THEN "none" ELSE pipe
    /\ UNCHANGED <<env, guards, order, failed, hooks, bound, requests, busy, posted, signals,
                   call, second, file, watch>>
Exit ==
    /\ at \in {"returned", "prompt"} /\ at' = "gone" /\ pipe' = "none"
    /\ UNCHANGED <<env, guards, order, failed, hooks, bound, requests, busy, posted, signals,
                   call, instance, second, file, watch>>

MainThread == Start \/ Loop \/ Quit \/ WaitFails \/ Undo \/ Returned
-----------------------------------------------------------------------------
(* What reaches the main thread from Windows and the user.                    *)

(* A hook call or a timer, which no request causes, ends the wait too.        *)
Called ==
    /\ at = "wait" /\ at' = "pump"
    /\ UNCHANGED <<guards, order, failed, hooks, posted, signals>>

Removed ==
    /\ "removed" \in env /\ at \in {"drain", "signals", "wait", "pump"}
    /\ \E h \in installed : installed' = installed \ {h} /\ leftover' = leftover \ {h}
    /\ UNCHANGED <<thread, hook, posted, signals>>

(* What is sent to the control window runs in pump, or in the dispatch ahead  *)
(* of a reinstall: a lock or an unlock is noted while remapping is on, and at *)
(* the end of the session the hooks go at once and the loop is asked to end.  *)
Dispatches ==
    \/ at = "pump"
    \/ at = "drain" /\ requests # <<>> /\ Head(requests).kind = "reinstall"
SessionSwitch ==
    /\ "session" \in env /\ Dispatches /\ enabled
    /\ \E signal \in {"left", "returned"} \ signals :
         /\ signals' = signals \cup {signal}
         /\ \/ posted' = posted \cup {"wake"}
            \/ "lost" \in env /\ UNCHANGED posted
    /\ UNCHANGED <<thread, hooks>>
SessionEnd ==
    /\ "session" \in env /\ Dispatches /\ hook # None
    /\ Uninstall /\ posted' = posted \cup {"quit"}
    /\ UNCHANGED <<thread, signals>>

(* Ctrl+C: the main thread has its message queue once it has its main state.  *)
CtrlC ==
    /\ "quit" \in env /\ at \notin {"bind", "executor", "main", "gone"}
    /\ posted' = posted \cup {"quit"}
    /\ UNCHANGED <<thread, hooks, signals>>

System ==
    /\ Called \/ Removed \/ SessionSwitch \/ SessionEnd \/ CtrlC
    /\ UNCHANGED <<env, bound, requests, busy, call, process, file, watch>>

(* Another start of the daemon: it needs the mutex, then the pipe.            *)
StartAgain ==
    /\ "again" \in env /\ second = None
    /\ second' = IF instance THEN "already running"
                 ELSE IF pipe # "none" THEN "no pipe" ELSE "runs"
    /\ UNCHANGED <<env, thread, hooks, bound, requests, busy, posted, signals, call, instance,
                   pipe, file, watch>>
-----------------------------------------------------------------------------
(* A request (MainThreadHandle): it is queued, if there is a queue with room  *)
(* for it, then the wake is posted, then the caller waits for the answer.     *)
Room == Len(requests) < Capacity
Calls(c) == call[c].at \in {"sent", "waiting"}
Heard(c, answer) == call' = [call EXCEPT ![c].at = answer]

Ask(c, kind, value) ==
    LET n == call[c].n + (IF c = Watcher THEN 0 ELSE 1)
        asked(state) == call' = [call EXCEPT ![c] = [at |-> state, n |-> n, replied |-> FALSE,
                                                     carried |-> FALSE]]
    IN  \/ /\ "main" \notin guards /\ asked("shutting down") /\ UNCHANGED requests
        \/ /\ "main" \in guards /\ ~Room /\ asked("busy") /\ UNCHANGED requests
        \/ /\ "main" \in guards /\ Room /\ asked("sent")
           /\ requests' = Append(requests, [from |-> c, kind |-> kind, value |-> value,
                                            n |-> n, heard |-> TRUE])

Wake(c) ==
    /\ call[c].at = "sent" /\ Heard(c, "waiting")
    /\ \/ posted' = posted \cup {"wake"}
       \/ "lost" \in env /\ UNCHANGED posted
    /\ UNCHANGED <<requests, watch>>

(* recv_timeout: the reply, the end of the queue, or no answer in time, after *)
(* which nobody hears the reply.  The watchdog only polls.                    *)
InQueue(c) == \E r \in ToSet(requests) : r.from = c /\ r.heard
GaveUp_Closed == "shutting down"
GaveUp == "no answer"
Answer(c) ==
    /\ call[c].at = "waiting"
    /\ \/ call[c].replied /\ Heard(c, "ok") /\ UNCHANGED requests
       \/ ~call[c].replied /\ ~InQueue(c) /\ Heard(c, "shutting down") /\ UNCHANGED requests
       \/ /\ "slow" \in env /\ c # Watchdog /\ InQueue(c) /\ Heard(c, GaveUp)
          /\ requests' = [i \in DOMAIN requests |->
                            IF requests[i].from = c THEN [requests[i] EXCEPT !.heard = FALSE]
                            ELSE requests[i]]
    /\ watcher' = IF c = Watcher THEN [watcher EXCEPT !.at = "idle"] ELSE watcher
    /\ UNCHANGED <<posted, events, overlooked>>

(* swch on, off and exit, on a worker of its own; and the watchdog's request. *)
Switch(c) ==
    /\ "swch" \in env /\ pipe = "served" /\ ~Calls(c) /\ call[c].n < MaxAsks
    /\ \E value \in BOOLEAN : Ask(c, "switch", value)
    /\ UNCHANGED <<posted, watch>>
AskExit(c) ==
    /\ "swch" \in env /\ pipe = "served" /\ ~Calls(c)
    /\ posted' = posted \cup {"quit"}
    /\ UNCHANGED <<call, requests, watch>>
AskReinstall ==
    /\ "removed" \in env /\ "watchdog" \in guards /\ ~Calls(Watchdog)
    /\ call[Watchdog].n < MaxAsks
    /\ Ask(Watchdog, "reinstall", None)
    /\ UNCHANGED <<posted, watch>>

(* The watcher (debounce_loop, reload_into): the first event, the last event  *)
(* of the burst, the load, and the request with what was loaded.              *)
FirstEvent ==
    /\ watcher.at = "idle" /\ events /\ events' = FALSE
    /\ watcher' = [watcher EXCEPT !.at = "debounce"]
    /\ UNCHANGED <<posted, requests, call, overlooked>>
Load ==
    /\ watcher.at = "debounce" /\ ~events
    /\ watcher' = IF disk = None THEN [watcher EXCEPT !.at = "idle"]
                  ELSE [at |-> "loaded", list |-> disk]
    /\ UNCHANGED <<posted, events, requests, call, overlooked>>
NextEvent ==
    /\ watcher.at = "debounce" /\ events /\ events' = FALSE
    /\ UNCHANGED <<posted, requests, call, watcher, overlooked>>
EventsKept_Dropped == events' = FALSE
EventsKept == UNCHANGED events
AskReload ==
    /\ watcher.at = "loaded"
    /\ Ask(Watcher, "reload", watcher.list)
    /\ LET queued == call'[Watcher].at = "sent"
       IN  /\ watcher' = [watcher EXCEPT !.at = IF queued THEN "waiting" ELSE "idle"]
           /\ overlooked' = ~queued
    /\ EventsKept /\ UNCHANGED posted

Others ==
    /\ \/ \E c \in Caller : Wake(c) \/ Answer(c)
       \/ \E c \in Client : Switch(c) \/ AskExit(c)
       \/ AskReinstall
       \/ FirstEvent \/ Load \/ NextEvent \/ AskReload
    /\ UNCHANGED <<env, thread, hooks, bound, busy, signals, process, file>>

(* A save, which may be one that does not load; notify reports it if the      *)
(* folder is watched.                                                         *)
Save ==
    /\ "save" \in env /\ saves < MaxSaves /\ at # "gone"
    /\ saves' = saves + 1 /\ disk' \in {saves + 1, None}
    /\ IF "watcher" \in guards THEN unseen' = TRUE /\ UNCHANGED overlooked
       ELSE overlooked' = TRUE /\ UNCHANGED unseen
    /\ UNCHANGED <<events, watcher>>
Report ==
    /\ unseen /\ unseen' = FALSE /\ events' = ("watcher" \in guards)
    /\ UNCHANGED <<disk, saves, watcher, overlooked>>
File ==
    /\ Save \/ Report
    /\ UNCHANGED <<env, thread, hooks, bound, requests, busy, posted, signals, call, process>>

Init ==
    /\ env \in Environments
    /\ at = "bind" /\ guards = {} /\ order = <<>> /\ failed = FALSE
    /\ hook = None /\ installed = {} /\ leftover = {} /\ enabled = TRUE /\ live = 0
    /\ requests = <<>> /\ busy = FALSE /\ posted = {} /\ signals = {}
    /\ call = [c \in Caller |-> [at |-> "idle", n |-> 0, replied |-> FALSE, carried |-> FALSE]]
    /\ instance = TRUE /\ pipe = "none" /\ second = None
    /\ disk = 0 /\ saves = 0 /\ unseen = FALSE /\ events = FALSE
    /\ watcher = [at |-> "idle", list |-> None] /\ overlooked = FALSE

Next == MainThread \/ Exit \/ System \/ StartAgain \/ Others \/ File

(* The main thread runs, and as it takes its messages in the order in which   *)
(* they were posted, no WM_QUIT is passed over for ever; nobody need call it, *)
(* use it or press Enter.                                                     *)
Spec == Init /\ [][Next]_vars /\ WF_vars(MainThread) /\ SF_vars(Quit)
-----------------------------------------------------------------------------
(* The daemon's state has its types.                                          *)
TypeOK ==
    /\ env \in Environments
    /\ at \in {"bind", "executor", "main", "watchdog", "window", "install", "serve", "watcher",
               "drain", "signals", "wait", "pump", "end", "returned", "prompt", "gone"}
    /\ guards \subseteq Guard /\ failed \in BOOLEAN /\ enabled \in BOOLEAN /\ busy \in BOOLEAN
    /\ instance \in BOOLEAN /\ unseen \in BOOLEAN /\ events \in BOOLEAN
    /\ overlooked \in BOOLEAN
    /\ order \in {<<>>, DropOrder, NormalOrder}
    /\ hook \in Hooks \cup {None} /\ installed \subseteq Hooks /\ leftover \subseteq Hooks
    /\ Len(requests) <= Capacity
    /\ \A i \in DOMAIN requests : requests[i].from \in Caller
    /\ posted \subseteq {"wake", "quit"} /\ signals \subseteq {"left", "returned"}
    /\ pipe \in {"none", "bound", "served"}
    /\ disk \in 0 .. MaxSaves \cup {None} /\ live \in 0 .. saves

(* What swch hears is true, also where the answer, the deadline and the end   *)
(* of the daemon race: OK of a request that was carried out, "busy" and       *)
(* "shutting down" of one that never will be (set_enabled, drop).             *)
AnswersTrue ==
    \A c \in Client :
       /\ call[c].at = "ok" => call[c].carried
       /\ call[c].at \in {"busy", "shutting down"} =>
             /\ ~call[c].carried
             /\ \A r \in ToSet(requests) : r.from = c => r.n # call[c].n

(* Once the watcher is at rest and its reloads are served, the bindings are   *)
(* those of the last save, if that one loads and no full queue refused it     *)
(* (debounce_loop, reload_into).                                              *)
AtRest ==
    /\ at \in {"drain", "signals", "wait", "pump"}
    /\ watcher.at = "idle" /\ ~unseen /\ ~events
    /\ \A r \in ToSet(requests) : r.kind # "reload"
SavedIsLive == AtRest /\ disk # None /\ ~overlooked => live = disk

(* The main thread waits for another thread, or for the user, only without a  *)
(* keyboard hook, which would hold up every key; there is at most one, which  *)
(* it can remove; and none beside another daemon of the session: but for a    *)
(* hook that Windows was asked to remove and did not, and for none that the   *)
(* daemon never asked for (run, install, reinstall_keyboard_hook).            *)
WaitsForOthers ==
    \/ Turn("watchdog") \/ Turn("executor")
    \/ at \in {"returned", "prompt"}
KeysNotHeld ==
    /\ WaitsForOthers \/ second = "runs" => installed \subseteq leftover
    /\ installed \subseteq {hook} \cup leftover

(* Nothing waits that the loop was not woken for: at the wait no signal is    *)
(* noted, and the wake of a request is there or about to be posted, unless it *)
(* was lost (drain, wake).                                                    *)
NoLostWakeup ==
    at = "wait" =>
       /\ signals = {}
       /\ requests # <<>> /\ "lost" \notin env =>
             "wake" \in posted \/ \E c \in Caller : call[c].at = "sent"

(* The daemon's state has its types, and the main thread never waits with a   *)
(* request in its queue and no wake to come (MainThread::run, pump).          *)
WakesKept == TypeOK /\ NoLostWakeup

(* The daemon that was asked to end ends: its hooks are removed, and the      *)
(* instance guard is released, whatever its threads do (run, stop_thread).    *)
Ends == "quit" \in posted ~> ~instance

(* "before a fatal error waits for Enter, so that a corrected restart is not  *)
(* refused" (main.rs).                                                        *)
RestartNotRefused == at = "prompt" => second # "no pipe"
=============================================================================
