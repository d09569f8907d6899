# key-switch-rs in TLA+

This project models key-switch-rs, a keyboard remapping daemon for Windows, from
the key event to the end of the process, checks the models with TLC on small
instances, and proves the most important results for every instance with TLAPS.

The daemon sits in the path of every key event. It may swallow an event, fire an
action, follow a modifier, or ask for a timer, while Windows applies what it
passed some time later and hides some events from it. The properties here are
about what that can do wrong over many events: a key that stays down, an
application that gets half a press, a Hold that turns into a Tap because a timer
ran late, a chord whose timer nobody waits for; and about what its threads can do
wrong to one another: a live hook replaced, a cancelled macro that runs, a
clipboard that is never put back, a request that is answered but not carried out,
a process that does not end.

## The system

One process; its threads talk over bounded channels, posted messages and atomics.

| Part | State | Operations | Talks to | Hard behaviour |
|---|---|---|---|---|
| Keyboard hook callback (`hook/keyboard_hook_callback.rs`) | none of its own; borrows the main thread's state | decide an event, pass or swallow it, carry out the decision, follow an own event | Windows calls it on the main thread; calls the engine; submits jobs to the executor | refused re-entry; late calls that Windows gives up on; own events between the user's |
| Engine (`engine/mod.rs`) | key table, gestures, chords, sequences, owed mask, resync notes, ids | `on_key`, `track_injected`, `on_timer`, `reset`, `resync` | reads the clock and key state of Windows through `Env`; its decision names actions and timers | the key state lags behind the events; presses cut in half by switches, reloads and desktops |
| Key table (`engine/keys.rs`, `modifiers.rs`) | held flags, record of each latest key-down | press, release, clear, reread, read everything | engine | one flag for a generic code that stands for two keys |
| Resync (`engine/resync.rs`) | hiding count, fresh and owed modifiers, input away | `plan`, notes | main thread's drain | a note between plan and read; a key in flight |
| Gestures (`engine/gestures.rs`) | pending presses, due Holds | press, release, other key, timer, forget | engine, timer queue | late and stale timers; refused timers; ends at the very tick |
| Chords, Sequences (`engine/chords.rs`, `sequences.rs`) | pending chord, sequence progress | key-down, expire | engine, timer queue | a deadline racing the next key |
| Matching, winner (`engine/matching.rs`, `winner.rs`) | none | which bindings match, which one wins | engine | a total choice of one winner |
| Timers and main loop (`engine/schedule.rs`, `hook/main_thread.rs`) | timer queue, what the waitable timer is set for, requests, input signals | drain, plan the wake, wait, pump | everyone | lost wakes, refused timers, a full request queue |
| Hook watchdog (`hook/watchdog/`, `health.rs`) | counts of raw input and callbacks, evidence, backoff | count, tick, ask, take the answer | raw input; main thread's requests; heartbeat | event and callback in different intervals; a live hook replaced |
| Hook installation (`hook/keyboard_hook.rs`) | three hook handles, the live bindings | install, uninstall, replace | Windows | one of several calls failing |
| Action executor (`core/executor/`) | job queue, epoch, runs, held jobs, Delay timer | submit, cancel, run steps, stop | hook thread submits; own thread runs | order across waits; cancelled work that still starts |
| Paste session (`core/executor/paste.rs`) | the saved clipboard, the pending restore | save, set, keystroke, restore | clipboard of Windows | another program writes in between; a stop before the restore |
| Requests (`hook/main_thread.rs`, `ipc_server.rs`, `config_watcher.rs`) | the bounded queue, one-slot answers, the watcher's events and what it loaded | switch, reload, reinstall, exit; debounce, load | main thread's drain | answer, deadline and the end of the daemon race; a lost wake; saves during a reload |
| Start and end (`core/app.rs`, `main.rs`, `system/single_instance.rs`, `hook/control_window.rs`) | the guards of `App::run`, the mutex, the pipe, WM_QUIT | each step of the start, the shutdown in its order, Ctrl+C, the session's end | everyone | a step that fails half way; a thread that does not stop; a restart |
| Logging (`logging/`) | a bounded queue of lines, counters, the rotated files | log, flush, attach, panic report; write, rotate | every thread logs; the writer's thread writes | a full queue, a blocked console, files that others hold or delete, panics one after another |
| Config loader (`config/loader.rs`) | the config file; the bindings of one load | load, reload, write the template; check and convert the entries, add auto-blockers | the start, the config watcher; the user edits the file | a file that appears while the template is written; who asks for a blocker, where, and who takes its hotkey over |
| Foreground cache (`platform/foreground.rs`) | the window, process and executable a `when:` sees | window changed, read again | WinEvent callbacks, signals, `swch`; engine reads it | window changes that nobody tells of; a handle used again |

`PROJECT.json` lists every part with its status, and every hazard of the code at
its line with the properties that guard it.

### What makes each part correct

- Key path: no key stays down in Windows that nobody holds; an application gets a
  press whole or not at all; a passed key-up finds its key down; the flags follow
  Windows; the menu mask goes exactly with the events that need it; after hidden
  input the flags recover.
- Gestures and timers: each press ends once, with the gesture its key-event times
  name; the timer an entry waits for is queued and taken; the loop never sleeps
  past it; a Hold never overtakes what was due before it.
- Chords, sequences, winner: one winner per key-down, the same for every order of
  bindings of one rank; a pending chord or sequence always ends; its keys are
  passed or swallowed whole.
- Loader: a blocker acts where the file asks for it, and nowhere else; a duplicate
  that is warned of never acts; the user's file is never overwritten.
- Foreground cache: a `when:` sees the window in front, whatever was missed before.
- Requests: what `swch` hears of a request is true, whenever the answer, the
  deadline and the end of the daemon meet; the last save that loads becomes live;
  the loop never waits with work it was not woken for.
- Start and end: the main thread never waits for another thread, or for the user,
  while its hook holds up the keyboard; a daemon that was asked to end does.
- Watchdog: a hook that answers is not replaced; a dead hook is, while the user
  types; at most one request is outstanding.
- Executor: jobs run in firing order; no step of a cancelled macro starts; every
  job is run, dropped and counted, or cancelled.
- Paste: the clipboard is put back, nothing that another program puts on it is
  lost, and the window that gets the keystroke reads the phrase.
- Logging: a flush tells the truth, no dropped line goes uncounted, the files keep
  their lines, and panics do not hold up the thread of the hook.

## Modules

| Module | Stands for | Kind |
|---|---|---|
| `KeyState` | `engine/keys.rs`, `engine/modifiers.rs`: the key table as operators on its two columns | operators |
| `KeyPath` | the path of a key event: hook callback, engine's handling of its record, resync, the main thread's switches, reload, reinstall and drain, with Windows and its users | specification |
| `KeyPath_proofs` | theorems about `KeyPath` | proofs |
| `MCKeyPath`, `MCKeyPathGeneric` | an instance, and three small ones in one run | model checking |
| `Matching` | `engine/matching.rs`, `data/key_spec.rs`, `data/key_combination.rs`: which combos the held keys match | operators |
| `Winner` | `engine/winner.rs`, `data/binding.rs`: the order, the election and the gesture group | operators |
| `Bindings` | `on_key_down`'s scan, `engine/chords.rs`, `engine/sequences.rs`, auto-blockers, expiry timers | specification |
| `Bindings_proofs` | theorems about `Bindings`: the order of the list, the election, the scan, the tables, the blockers; chords and sequences by the clock; and about `Loader`, that the bindings come from | proofs |
| `Loader` | `config/loader.rs` with the rules of `data/binding.rs` and `config/parsing.rs` it applies: the config file and what is loaded from it | specification |
| `Foreground` | `platform/foreground.rs` and the callbacks, signals and switches that fill it | specification |
| `MCBindings` | four configurations of `Bindings`, and instances of `Loader` and `Foreground`, in one run | model checking |
| `Gestures` | `engine/gestures.rs`, `engine/schedule.rs`, `GestureTimers` and the main loop | specification |
| `Gestures_proofs` | theorems about `Gestures` | proofs |
| `MCGestures` | two instances in one run | model checking |
| `Watchdog` | `hook/watchdog/`, `hook/health.rs`, and the main thread's `reinstall_if_silent` | specification |
| `Watchdog_proofs` | theorems about `Watchdog` | proofs |
| `MCWatchdog` | a live and a dead hook in one run; two more instances are in .cfg files | model checking |
| `JobQueue` | what the executor promises of the fired jobs: a line whose jobs begin in order, each once, or are dropped | abstract specification |
| `Executor` | `core/executor/mod.rs`, `runs.rs`, and what a paste (`paste.rs`) does to the loop | specification, implements `JobQueue` |
| `Executor_proofs` | theorems about `Executor`, and that it implements `JobQueue` | proofs |
| `MCExecutor` | instances | model checking |
| `Paste` | `core/executor/paste.rs`, `platform/clipboard.rs`: the tries of a paste and of its restore against other programs | specification |
| `Outside_proofs` | theorems about what the daemon shares with other programs: `Paste` and `Foreground` | proofs |
| `LogFiles` | `logging/sink.rs`: `daemon.log`, its limit and its rotation | operators |
| `Logging` | `logging/mod.rs`, `writer.rs`, `panic.rs`, and `fatal` and `attach_log_file` of `main.rs` | specification |
| `Logging_proofs` | theorems about `Logging` and `LogFiles` | proofs |
| `MCPasteAndLog` | an instance of `Paste` and one of `Logging` in one run | model checking |
| `Daemon` | `core/app.rs`, `main.rs`, the loop and requests of `hook/main_thread.rs`, `ipc_server.rs`, `config_watcher.rs`, `control_window.rs`, `single_instance.rs` | specification |
| `Daemon_proofs` | theorems about `Daemon` | proofs |
| `MCDaemon` | instance and its environments | model checking |

How they fit together. `KeyPath` leaves to a free choice what the bindings ask of
an event; `Bindings` says what they ask, over a key table that is right.
Its configurations are what `Loader` makes of a file, and a condition that holds
there is one that `Foreground` let in. `Bindings` ends where a gesture group is
armed, `Gestures` begins there. A job
that fires is `Executor`'s; a paste in it is a free choice there and `Paste` here.
`Daemon` has what the requests of a `swch`, a watcher and a watchdog go through;
what they do to keys is `KeyPath`'s and `Gestures`', when the watchdog asks is
`Watchdog`'s. An instance with several worlds picks one of them at the start and
stays in it; a property of the run names the world that puts it to the test.

### KeyPath

`active` and `record` are `KeyState::active` and `last_down`; a record is
`Unknown`, `Passed`, `Suppressed` or `RepeatSuppressed`, as in the code. `due`
is `hiding # resynced` of `Resync`, and `fresh`, `owed`, `away` are its other
fields. `noted` stands for a note count (of callbacks or of the watchdog) that
`plan` has not seen. `draining` is set by the requests and signals that the main
thread serves in one drain, since no event comes between them and the drain's
trailing read. `win`, `rising` and `falling` are the asynchronous key state of
Windows and the one passed event that it has not applied yet.

Each handler is one action: `KeyDown` (with `Decide`) and `KeyUp` are
`Engine::on_key` with all it calls, `OffDown` and `OffUp` the callback while
remapping is off, `Inject` the daemon's own event, `Switch`, `Reload`,
`Reinstall`, `InputLeft`, `InputReturned` the main thread's handlers, and
`Drain` the read that ends a drain. What the bindings ask (swallow, a completed
chord, a gesture that is bound, a MaskOnly blocker) is a free choice in each
action, so a result holds for every configuration.

`fate`, `stale` and `decision` are history variables: what became of the present
press of each key, which modifiers an event past the hook made unsure, and the
latest decision. No action's effect on the other variables depends on them, but
for a later hook, which swallows the key-up of the key-down it swallowed.

A press is followed (`fate`) if the engine saw its first key-down as a first
key-down and Windows had the key up. It is followed no further where the engine
cannot know it: after a hidden repeat of a swallowed press, when input left the
desktop, when a reset that reads every key finds it swallowed, in flight or held
by a generic code, and when the daemon itself injects its key.

What is assumed of Windows and its users:

- An event that the hook passed is applied before the next event, and by the
  second drain after it (`ReadModifiers`' guard): a first drain that finds it in
  flight leaves its modifiers out, as `fresh`.
- An actor holds a key by one code at a time: its own, or a generic code.
- An event that bypasses the hook is applied at once.
- A hook call is delivered while the main thread waits for or takes messages.

### Gestures

`presses` and `dueHolds` are the tables of `Gestures`; a press is `held` with
the deadlines of the gestures still possible, or in its `second` phase. `seq` and
`generation` are `Ids`. `queue` is `TimerQueue`, `armed` is what `GestureTimers`
believes it set, `wake` is what Windows really has set; the two differ after a
refused call. `loop` is where the main loop is: in the drain, in the wait, or in
its messages, with the steps of `MainThread::run`: `TakeTimer` (one due timer),
`PlanWake` (nothing due, the wait begins), `Wake` (the timer's signal),
`Message` and `Dispatched`. `KeyDown` is `Gestures::other_key_down`, `press` and
`start_timers`; `KeyUp` is `release` and `start_timers`. A key-up asks for a
number even if no gesture is pending, as the code does. Time is a count of
ticks; the drain and a hook call may come at any later tick.

Which group wins a key-down, and whether it is swallowed, are free choices; a
group with a binding that blocks always swallows. Auto-repeats, which reach no
gesture, are left out, and the timers of chords and sequences are in `Bindings`.

`story` and `settled` are history: the times of the key events of each arming,
written by the events only, and the armings that the latest step ended, with
what fired. `Verdict` says from the times alone what a press should do, without
phases, tables or timers; `OutcomeByClock` compares the two, and checks that a
late Hold fires before what became due after it (`Overtaken`). `EntriesKept` says
that the timer an entry waits for is queued, unless Windows refused it, and that
the loop does not sleep past the earliest.

### Bindings

`file` is a configuration in the order of its file, `list` the same bindings as
`sort_by_specificity` leaves them. `KeyDown` is one scan of that list, `Scan`, as
in `on_key_down`: the winner was elected before it (`Elect`, the fold of
`winner.rs`), each auto-blocker, chord and sequence takes the event in its place
in the list, and the state of the scan (tables, records, number, timers, action)
goes from one to the next. `chords` and `sequences` are the pending tables,
`queue` is the part of `TimerQueue` that holds their timers. `OnTimer` takes the
earliest due timer at any tick from its deadline on, so timers may be late by any
time; `Refuse` and `lost` are the calls of Windows that fail when the loop plans
its wake, and when the timers of an event are started. `Reset` is a reload.

The properties do not use these tables. `OneWinner` compares the action of a
key-down with a choice by weight over the file, order of the list and scan left
aside. `ChordsByClock` and `SequencesByClock` read `log`, the times of the
key-downs, and say from them what completes: no number, timer, deadline or pending
table is in them, so that a timer that is late, stale, lost or was never set may
not change the outcome. `ExpiryTimed` says that whatever waits has its timer;
`TablesKept` adds the types, with one attempt for a set of keys or for steps.

`FilesAssumption` is what the loader makes of a file: the kinds and fields of the
bindings, sequences of at least two steps, finite sets of keys, no code that presses
all keys of a chord. `NoneShared` says that no two chords of the same keys, and no
two sequences of the same steps, are at work under one set of conditions: they would
share one pending entry, the first one's, as `duplicate_warnings` says where it warns
of them, and there is no rule to compare that with. The two properties by the clock
are about files without such pairs; the configurations have them only under
conditions that exclude one another.

Left out: a sequence of one step, which the loader rejects; a refusal of some of
the timers of one event only.

### Loader

An entry of the file is a record with its keys, steps or chord, its action and its
options as they are written, right or wrong; a text is a sequence of entries, or
`Garbled`. `Read`, `OpenNew`, `WriteAll` and `Parse` are the calls of `load` and
`reload` that the user's `Edit` may come between: the read of the file, the two calls
of `write_default`, which makes an empty file and then writes the template to it, and
the conversion of the text that was read. `made` is what became of that file: an edit
puts another in its place, deletes it, or, between the two calls, goes into it.
`NoKind` and `Rejected`
are the checks of an entry, `Converted` what becomes of it. `Blockers` is
`expand_with_auto_blockers`: its two loops make one blocker for each of the
`Leads`, the first request for a hotkey and a mode, in the `Turn` that the loops
come to it. `Hotkey`, the answer of the registry, is constant. The election that `DuplicatesIdle` puts to the bindings is
`Winner`'s.

`LoadedRight` does not speak of leads and turns. It asks of each window and each hotkey
whether a blocker is at work there and which entries of the file ask for one there
(`BlockersRight`), and of each press and window whether a binding that was warned of
can act (`DuplicatesIdle`); the order of the file and chords of keys that overlap
are with it. `FileKept` compares the file with what the user left: they differ only
beside the exe, and only where the user left none or saved into the file that
`write_default` had just made, which the template then overwrites (see below).
`users` and `loaded` are history.

Left out: the text (RON, its BOM, key names, layouts), the tree of a condition,
which is here the set of those of which one must hold, the steps of macros, the
wording of errors, and the warnings but those of duplicates.

### Foreground

`cache` is `ForegroundCache`; that a window is the daemon's own is read from its
process. `events` are the WinEvents that wait in the main thread's queue, so that
windows, processes and desktops may go on before the callback runs; `signals` is
`PendingSignals`, as far as it says where input went. Windows is `Take`, `Destroyed`,
`Created` and `SwitchDesktop`: a destroyed window's handle may be used again, by
another process, and no event tells of it unless the new window takes the foreground.

`AppTrue` speaks of the states in which all that was posted is handled, remapping
is on and input is here. Whatever was missed before, the cache then has the window
in front, its process and, if Windows named it, its executable. It cannot be asked
while Windows did not say where a desktop switch went (`untold`), where nothing is
read until the next event, or for a window of the daemon itself, which the WinEvent
skips. `unnamed` and `untold` are history.

### Watchdog

`watchdog` is the record of the code's `Watchdog`, with its counts taken since
the last tick (`arrived`, and `answered` for the heartbeat) and its instants
kept as ages and times to go. Time is counted in TICKs. The operators on it carry
the names of the functions of `decision.rs`; `Ticked` is `tick`, in the order of
its reads and writes.

The watchdog's thread is `WokenDrain` or `MessageDrain` (the wait ends, and
`drain` reads raw input) and then `Pass`, which is `Ticker::pass` as a whole: count
the batch, take the answer, tick if it is due, ask, arm the timer. `armed` is
what `Ticker` believes it set, `wake` what Windows has set; they differ after a
refused call. `reply` is the request with its one-slot answer, `moved` compares
the heartbeat with the request's snapshot.

The main thread is `Callback` (a hook call counts in the heartbeat first of all),
`Serve` (`reinstall_if_silent`, with the calls it dispatches before it reads the
heartbeat), `Install`, `Uninstall` and `MainEnds`. Windows is `KeySeen`,
`KeyUnseen`, `Post`, `GiveUp`, `HookRemoved` and `Tick`.

`env` is constant in a behaviour: what may go wrong in it, chosen by `Init` from
`Environments`. One run can so check that something holds with each of several
troubles where it does not hold with all of them together.

What is assumed of Windows and of scheduling:

- Windows takes key events one at a time: it queues the raw input of one and calls
  the hook for it, in either order, before the next. Raw input is queued no
  later than in the TICK in which the hook call ends.
- `dispatch_sent_messages` runs the hook call that waits. The code's comment says
  this is not documented; a call given up before is covered by `GiveUp`.
- A drain and its pass are in one TICK, and nothing but raw input comes between
  them, unless the thread is held up there (`"held"`).
- Only the one key event in progress can have its hook call and its raw input
  apart; what is queued behind is counted.

Left out: a raw queue that says it holds input and gives none, a replacement whose
old hook does not go (`Daemon` has that), start and stop of the thread. The note of unseen input that
`pass` makes is `NoteHidden` of `KeyPath`.

### Executor

`queue` is the bounded channel, `wakes` the `WAKE` messages in the thread's
queue, `held` and `active` are the fields of `Runs`, `restore` the session's
pending restore, `armed` what `DelayTimer` believes it set and `signal` what
Windows has set. An epoch is kept as `live`: a job is of the present epoch or of
an older one. Deadlines are times to go, in ticks.

The main thread, which fires and cancels, is `Submit`, `Cancel` and `Stop`, each
followed by `PostWake`, so that the executor can run between a job and its WAKE.
The executor's thread is `loop`: `drain` (`TakeJob` with `Runs::start`,
`DrainEnds`, `StopSeen`), `poll` and `advance` (`Runs::poll`, one action for each
thing it does: `PollBegins` drops what was cancelled and decides on the restore,
`RunCalls`, `RunDelays`, `PasteTries`, ... advance the run at `index` by a step,
`HeldBegins` begins a held job, `PollEnds` tries the restore and goes back, on to
`arm`, or to the closing mode), `arm`, `wait` and `close`. Steps of a poll are
actions of their own because a runner call may take seconds, in which jobs,
cancels and a stop come in; `pumping` is the time in which an action takes this
thread's messages, the new WAKEs included.

A try of a Paste is what the loop sees of it: it waits (for the restore before
it, for modifiers, for the clipboard), is over, panics, or leaves a restore. The
outcome is a free choice and `MaxTries` stands for the limits of those waits.

`turn` turns over with every job that begins, and `disobeyed` notes a runner call
for work that was cancelled. `JobsInOrder` maps `held \o queue` to the line of
`JobQueue`: jobs cannot leave it but at its head, be dropped while live (unless
they are Pastes), or begin twice.

Assumed: the check that work is live and the runner call after it are one step (a
cancel between the two is as one during the call). Left out: a post of WAKE that
fails, handles that are all gone, a panic of the loop itself, the limit of `stop`.

`Environments` hold apart the troubles that together break a property, see the
observations below: a refused timer with pastes, and a full queue with a cancel
of pastes.

### Paste

The executor's thread goes round `at`: `Poll` (a cancelled paste is dropped, and
`tick` decides whether the restore is due, by a probe of the target if it has
one), `Advance` (the waits of a paste's try: for the restore before it, for
modifiers, for its window), `Open` (window, owner's probe, clipboard, save and
phrase, a chained paste included), `Send`, `RestoreIfDue`, `Arm`; and at a stop
`Close` and `Abandon`. Each of these but the probe is a step in which the daemon
has the clipboard open or does not use it, and other programs come between them.
`pending` is the field of `PasteSession`, from the EmptyClipboard of a paste until
its session ends; `window` and `lastWindow` are the idle window and the one that
was last in use.

A content is where it came from with its formats in order, so that what is saved,
what is left out (`"drawn"`, `"ansi"`), what is private, and what order comes back
are seen (`Only` takes formats in their order). `clipboard.owner` tells whose it is, and an "added" format one that
another program put to it without emptying it.

`left` is history: what another program left, or the phrase that the daemon had
to leave. `unread` has the keystrokes that their windows have not handled.
`ClipboardBack` says that the phrase stays for a bounded time, and that when the
session is over the clipboard holds what the save could keep of what was there
before, or what another program left since; only a program that kept it open for
`RESTORE_RETRY_LIMIT`, or at the executor's end, has the phrase left there.
`CopiesKept` says that the daemon replaces what another program put there only
when a paste has just saved it. `PhraseRead` says that a window which handles its
keystroke finds the phrase of that paste or a later copy, unless it was busy for
`HUNG_LIMIT`, the next paste had waited `CHAIN_WAIT_LIMIT` for it, or the executor
ended or lost its timer.

What is assumed, and left out:

- A window that is not busy handles a keystroke in less than the delay its phrase
  asks for; a thread that was busy handles it in less than `Settle` after it is
  done. That is what the delays are for: a slower window reads the wrong content
  whatever the daemon does.
- A thread that was busy at no probe of the session, and is done so late that
  `Settle` is not over at the restore, is left out (`InSight`): the daemon has no
  way to know of it, and its window would paste the user's own clipboard.
- The check of foreground and modifiers and the keystroke are one step.
- A panic of the clipboard's port, a marker that Windows does not take, a put-back
  that stops half way and a keystroke cut short are refused calls (`"refuse"`),
  after which less is promised (`ClipboardBack`).
- One paste tries at a time; jobs behind it are `Executor`'s.

### Daemon

`at` is the place of the main thread: the steps of the start in `App::run`, the
loop (`"drain"`, `"signals"`, `"wait"`, `"pump"`), the end, and what `main` does
after it. `guards` are the locals of `App::run`, dropped by Rust in reverse order
if a step returns an error and by hand in the normal shutdown (`NormalOrder`);
`Undo` drops the next one, by `order`, the order that the end goes by. `installed` are the
hooks Windows has, and `hook` the handle the daemon keeps: they differ once Windows
removed one, or did not remove one when it was asked to (`Unhook`). The code takes
every error of `UnhookWindowsHookEx` for a hook that is gone; `"stays"` is the other
case, and `leftover`, which is history, has those hooks. There a reinstall leaves two
hooks that both call the callback (`keyboard_hook.rs`, lines 267-268, says "never
two"), and nothing can remove the first. `KeysNotHeld` allows for these and no others:
a hook that the daemon neither holds nor was refused the removal of violates it.

`Ask`, `Wake` and `Answer` are `MainThreadHandle::request`: a place in the queue,
the posted MAIN_WAKE, and a wait that ends with the answer, with the end of the
queue or with `REPLY_TIMEOUT`. The watcher is `FirstEvent`, `NextEvent`, `Load`
and `AskReload` (`debounce_loop`, `reload_into`), the file is `Save` and `Report`
(the time until the system reports it). `CtrlC`, `SessionSwitch` and `SessionEnd`
are the console's handler and the control window; the last two run in the pump,
or in the messages dispatched ahead of a reinstall. `StartAgain` is another start
of the daemon.

`overlooked` is history: no reload of the last save will come, because a full
queue refused it or the watcher did not run when it was saved. A number on a call
tells a late answer from the answer of the next call. A Ctrl+C before the main
thread has its state is lost, as in the code. `status`, which only reads, is left
out, as are the texts of the pipe.

### Logging

`thread` is what each thread is in: a log call (`Log`, and `Bump` or `WriteItself`
where the queue is full or the writer is not there), a `Flush`, the panic hook
(`Panic`, `Report`), or `fatal`. A wait has a deadline, `left`, and ends with
`EndWait`: acknowledged, the writer gone, or over. A refused line is counted in a
step of its own, so that the writer may take the counter between the two. `budget` is BUDGET_END, as the time from now on.

`writer` is where the log-writer thread is: at the top of its loop (`TakeMessage`,
`MinuteReport`), before the files (`WriteFiles`), before the console
(`WriteConsole`) or before an answer (`Acknowledge`). A flush waits for its own
channel: `Unheard` makes the message of a flush that was given up one that nobody
listens to. `LogFiles!Writes` is what a line may make of the files where another
program may hold one: a rotation that stops at any of its renames, an open or a
write that fails, and a line that is written past the limit because the rotation was
refused.

The counts and `deleted` are history, as are `waited` and `quiet`, which measure how
long the panics of a thread hold it, in the three waits with a deadline or, without a
writer, at a console with a selection (`Held`). `FlushTold` says that an acknowledged flush has
all that was logged before it written and all that was dropped before it reported,
and that each dropped line is in one place: about to be counted, in the counter, in
the writer's report, or reported. A file is a record of its lines, its length and whether a
refused rotation made it longer; one that is deleted is `NoFile`. `FilesWhole` reads the files together, from the
oldest on: no line is out of order, none is missing but what the user deleted, and
none but a single long line or a refused rotation makes a file too large.
`HeldBriefly` says that panics one after another hold a thread for longer than one
budget only where no writer could be started.

Left out: the text of a line and the other counters, which nothing depends on; the
console's own handle; an error of the log folder.

## Runs

| Run | Instance | Shows | States |
|---|---|---|---|
| `key_path` | an Alt key and an ordinary key; hidden and injected events, desktop, switch, lost hook, chords | `TypeOK`, `NothingStuck`, `PressWhole`, `FlagsMatch`, `NoLoneKeyUp` | 1.1 million |
| `key_path_generic` | three worlds: both Shift keys and the generic code, with switch and lost hook; an Alt key, an ordinary key and the generic Alt code, with hidden events, a later hook, MaskOnly, chords; an Alt key and an ordinary key, with hidden events and desktop, and a fair main loop | in turn `PressWhole`, `MaskRule`, `Healed` (liveness) | 620 000 |
| `gestures` | two worlds: two keys, three groups (one with every gesture, a blocking Hold, a combo with Tap and DoubleTap), 4 armings, 4 ticks; a long Hold and a window that closes before it, a modifier that a read may free, 3 armings, 3 ticks, with a fair main loop. In both refusals and one reset | `OutcomeByClock`, `EntriesKept` (types included); `TimersRun` (liveness) | 560 000 |
| `bindings` | three worlds. Four configurations: ranks and groups, chords, sequences, blockers; late and refused timers, one reload. Every file of up to three out of ten entries, wrong ones and the template; two hotkeys, three windows, one edit. Two handles, three processes, five moves | `OneWinner`, `ChordsByClock`, `SequencesByClock`, `TablesKept`, `HotkeyKept`; `LoadedRight`, `FileKept`; `AppTrue` (types included) | 470 000 |
| `watchdog_hooks` | two worlds. A live hook: a backlog with late ticks and a failing timer; apart from it a busy main thread with a full queue, another desktop, late ticks, the end. A dead one: removed and refused hooks, calls given up, full queue and late ticks, in one environment with a timer that fails and a busy main thread, in another with a backlog and a held-up watchdog | `LiveHookKept`; `StatusTrue` (types included), `SpacedOut` | 4.3 million |
| `watchdog_busy` | a busy main thread together with a backlog | `LiveHookKept` is violated, see below | - |
| `watchdog_acts` | removed hooks, calls given up, timer, busy main thread; apart from it calls given up, busy main thread, an uninstall and the end; ticks on time | `EvidenceActs`, `HookReturns` (liveness) | 340 000 |
| `executor` | five environments: pastes with cancels, panics; a stop with a restore; full queue and swallowed WAKEs; actions behind pastes; everything but pastes | `NoneForgotten` (types and cancels included), `CancelledNeverRuns`, `JobsInOrder` (refinement), `JobsBegin`, `StopEnds` (liveness) | 670 000 |
| `executor_cancel` | actions behind a paste, and cancels | `CancelledNeverRuns` is violated, see below | - |
| `paste_and_log` | two worlds. Two windows, two pastes with a short and a long delay, contents of every kind of format; eight environments. Two threads that log on a queue of two, three files; seven environments | `ClipboardBack`, `CopiesKept`, `PhraseRead`; `FlushTold`, `FilesWhole` (types of both included), `HeldBriefly` | 3.5 million |
| `daemon` | one user of `swch`, the watcher and the watchdog on a queue of two; five environments | `AnswersTrue`, `SavedIsLive`, `KeysNotHeld`, `WakesKept` (types included), `Ends` (liveness) | 500 000 |
| `daemon_restart` | steps that fail, a removed hook, a second start | `RestartNotRefused` is violated, see below | - |

Why these bounds are enough. KeyPath has no bound: its state is finite for
finite keys. Two keys are needed for an event that is decided under a modifier
held or swallowed itself; three codes over two keys for the generic code. A third
key would act as the second does: no rule relates more than the event's key, the
modifiers that share its state, and the Alt and Win keys as a set. In Gestures,
four armings are a Tap that waits, its second press and another key's whole
press; four ticks put a deadline before, at and after each event, since no term is over
three ticks; in the long world three reach the end of its Hold. One reset tells a timer
of the generation before from one of the present. A run with five armings was explored
too, without a reset.

In Watchdog, `MaxKeys` bounds the raw input not yet counted by a tick and the
callbacks not yet matched. Evidence needs two raw events, so two suffice to ask
for a request and four to have two of them explained by callbacks of a tick before
and two not. `Silence` is two ticks and the backoff doubles it twice, so that a
window is longer than any single delay; `ActiveFor` is longer than the silence, as
in the code, and shorter than the longest window, so that evidence alone has to
keep the ticks going.

In Executor, a queue of one place with three jobs has the loop full up: a paste
that waits, a held job, and one that stays in the queue; where jobs are to
overtake one another the queue has two places and three jobs are in the line or
run. Two WAKEs are one that the loop takes and one that it leaves for after the
drain. One tick is a deadline that lies ahead or not, since the loop only compares
deadlines with now and with one another; one wait of a Paste is one that a poll
finds in the state in which others are held. The macros are a Delay with a step
after it, and a step followed by a Paste.

In Bindings, three key-downs that a chord or a sequence takes complete the longest
sequence, or open a chord, complete it and begin the next; events that feed
neither are not counted. A term is two ticks and the clock has three, so that a
key-down comes before, at and after a deadline, and a timer is taken at its tick
or later. One reload is between any two of these.

In Loader, three entries are two that ask for blockers of one hotkey, in one mode or
two, and one that takes the hotkey over or duplicates another; one of the two
hotkeys is made only of modifiers, so that a mask is granted and falls back. A text
of four entries adds a further asker, which the OR of the conditions treats as it
treats the second. One edit is between any two calls of a load. In Foreground, five
moves are a window that goes, its handle with another process in front, and a switch
off and on or a desktop that goes and comes back around them.

In Paste, the delays 1 and 3 lie on both sides of `ChainLimit` = 2, and
`HungLimit` = 4 above both, in the order of the code's constants; two pastes are
one that waits for the other's restore, goes ahead of it or chains to it. Two moves
of other programs are a trouble and a second one while it lasts, such as a copy while
the clipboard is open elsewhere; what goes back by itself is not counted. Eight ticks
are the longest run: a wait, a hung target up to `HungLimit`, and the restore's
retries. The two windows are symmetric.

In Daemon, a queue of two with three callers is full for the third, a client asks
twice, so that a late answer can meet the next call, and two saves are one that is
loaded and one that comes during the debounce, the load or the reload. Each
environment has troubles that meet: faults of the start and the end, and hooks that
Windows removes or leaves in place, with a second start; slow answers with saves; lost wakes with session signals; a removed hook
with the session's end; a thread that does not stop with saves and `swch`.

In Logging, a queue of two is full with three records, two of which may come from the
two threads while the writer is at the third. A file takes two lines of size 1, or a
single one of size 3, which is larger than its limit; with three records and the
writer's notices of a streak, over the files that an earlier run has left or none, the
three files turn over. Two flushes or panics are one
that is given up and one that meets its late answer; with a budget of one tick and
an episode of two the second panic comes in the first one's episode or after it. A
run with four records, and one that had panics and flushes together, were explored
too.

Mutants: each property has a plausible bug of a mapped definition, written
before it in its module as `<name>_<bug>`, that breaks the property in its run.

### Fairness

The plain world of `MCKeyPathGeneric`: Windows applies what it was passed, and the
main loop drains,
which it does after every wake and message; a hidden event or a foreground change
is followed by one. No fairness is asked of the user, of other programs, or of
Windows' decision to hide an event. `Healed` excludes a key whose record swallows
its key-up, since the code never reads such a key, a desktop that stays away and
remapping that goes off.

The long world of `MCGestures`: time passes, and the main loop takes due timers, plans its
wake, takes the timer's signal when it waits, and returns from its messages. That
is `MainThread::run`, which has no other way to go. No fairness is asked of key
events, resets or messages, so that the loop may have to rely on its timer alone.

`Watchdog!FairSpec`: time passes however often the thread wakes (strong fairness,
since each wake disables it for a moment), raw input is queued, a hook call runs,
the watchdog's thread goes on after something ended its wait, and the main thread
serves a request. No fairness is asked of keys, of Windows' removal of a hook, or
of a refused call. `EvidenceActs` is checked with ticks on time: a tick that is
late by more than the window stops the ticking with evidence left, and the next
raw event starts it again. `HookReturns` is about a user who types on, as the code
is: without raw input the watchdog sleeps.

`Executor!FairSpec`: the executor's thread goes on where it can, so that each runner
call returns; a WAKE that was announced is posted; time passes. No fairness is asked
of jobs, foreign messages or cancels: a job that is left behind would stay.
`JobsBegin` and `StopEnds` are stated with `[]<>` because what they wait for is
never taken back.

`Daemon!Spec`: the main thread runs, which covers its start, loop and end, and the
WM_QUIT in its queue is taken at some time: messages are taken in the order in which
they were posted, which a set of messages does not show, so that new wakes cannot keep
WM_QUIT waiting for ever (strong fairness). `Ends` needs no fairness of a client, of
the watcher, of a thread that is to stop, or of the user who has to press Enter.

## Disagreements with comments

`watchdog_busy` shows that a live hook can be reinstalled for a burst. `tick`
keeps the credit of callbacks while a drain leaves raw input in the queue;
`decision.rs` (lines 19-22) says that "a burst whose raw input is read over
several ticks is matched by the callbacks counted before it, and a live hook is
never reinstalled for it". `start_over` drops the credit at every answer, the
answer `Alive` included. If the main thread is busy for the window of silence, is
then asked, answers with its calls, and part of the burst's raw input is still in
the watchdog's queue when the answer is taken, that part has no credit left, counts
as evidence, and a second window of silence replaces a hook that answered. It
needs a main thread that is held up and a drain that spends its budget in the
same seconds. With either alone the hook is kept (`watchdog_hooks`).

Two observations that contradict no comment: a thread that is held up between its
last drain before idle and the read of the heartbeat loses the credit of the calls
in between, since `raw_batch` starts from none; and keys that Windows keeps from a
live hook look like a dead one, so that typing only such keys replaces it.

`executor_cancel` shows that a cancelled action can run. `Runs::poll` drops the held
jobs of an older epoch once, at its start, and then begins held jobs one after
another without a further check (`runs.rs` line 217), while `mod.rs` line 214 says
that "work fired in an older epoch never runs" and `runs.rs` line 38 that "a job of
an older epoch never starts". A paste's try in that poll asks other programs and
may take long, and a held Launch may wait in a dialog: `swch off`, a reload or a
stop in that time does not keep the held actions behind from running. Macros and
pastes among them are stopped, since `Run::advance` checks before each step.

Two observations on the executor that the environments of `executor` leave out.
If a paste waits, `held` and the queue are both full and then all is cancelled, the
last poll of the pass drops runs and held jobs, but the pass took nothing from the
queue and made no call, so the loop waits: the cancelled jobs stay in the full
queue, each new job finds it full and posts no WAKE, and the executor is deaf until
the next cancel. That is less than `mod.rs` (lines 271-274) says of `cancel_all`:
"every job queued and every macro running is dropped at the executor's next wake,
which this posts"; the jobs in the queue are not dropped at that wake. If Windows refuses to set the timer while a paste waits,
`drop_timed` ends the paste but the jobs it held wait for the next WAKE, and a job
that this WAKE brings begins before them.

`daemon_restart` shows that a restart can be refused after a fatal error. `main.rs`
(line 65) says that the instance guard is released "before a fatal error waits for
Enter, so that a corrected restart is not refused". An error after `serve` is such a
one: `hook.uninstall()?` fails if Windows had removed the hook, or does not remove it
(`app.rs` line 316), or
the loop's wait failed (line 324). The thread `ipc-server` keeps the pipe to the end
of the process, which then waits for Enter; the restart takes the mutex and is
refused at `ipc_server::bind` (line 193). After an error before `serve` the
listener is dropped with `run`, and the restart runs, as the comment says.

Three observations on the log, seen in runs of their own that are not kept. `panic.rs`
(line 15) says that a panic holds its thread "for at most 250 ms", and (lines 25-26)
that "with no writer, the hook writes the line to stderr and does not wait". That write
goes to the console from the panicking thread (line 95, `write_to_stderr`): if the
writer could not be started and the user holds a selection there, the thread waits
until the selection ends. Without its exception `HeldBriefly` fails in the environment
with no writer, panics and selections. `panic.rs`
(lines 21-23) says of a panic that "the line is in `daemon.log` even if the console
blocks", since the writer writes the file first. It does for each line; but a console
that blocks at an earlier line, for as long as the user holds a selection, keeps the
panic's line in the queue until the budget is over, and an abort then loses it.
`main.rs` (lines 49-51) says of a fatal error that the prompt must come after the
[FATAL] line, which goes to the console from there if the flush fails. If the queue
is full, `log::error!` drops the line, and the flush, which waits for a place, then
succeeds: the prompt comes and the line is nowhere but in a count of dropped lines.

An observation on the loader, likewise. `write_default` says (`loader.rs`, lines
447-448) that "a file that appeared after the read is left as it is and loaded". Its
first call makes the file and its second writes the template, and other programs may
write to the file in between: a save that comes there, into that file, is overwritten
from the start by the template, and of a longer one the end is left behind it. Without
its exception `FileKept` fails by that save alone; one that puts another file in the
place, as many editors do, is kept and loaded.

An observation on the foreground cache. `window_changed` has a rule for a window of
this process: it "has no executable name for `when:`" (`foreground.rs`, line 121).
The hook that reports window changes is set with WINEVENT_SKIPOWNPROCESS, so a
message box of the daemon that takes the foreground is not reported, and a `when:`
goes on seeing the window before it, unless a resync comes while it is in front.

## What is proved

TLAPS proves the theorems below for every value of the constants that meets the
named assumptions, which TLC evaluates on the instances of the runs. Each is
`Spec => []P` (or the like) from an inductive invariant: it holds at the start, each
action keeps it (one lemma, or one step of a proof, for each), and it implies `P`.
Nothing is left to trust: there is no leaf without a proof.

### KeyPath

From `KeysAssumption` (what `KeySpec` and the generic codes are) and
`PathAssumption`: `Typing` (`TypeOK`), `Invariance` (`PathInv`), `NeverStuck`
(`NothingStuck`), `AlwaysWhole` (`PressWhole`), `NeverLone` (`NoLoneKeyUp`),
`FlagsAgree` (`FlagsMatch`), `MaskExact` (`MaskRule`).

`PressWhole` alone says nothing about the tables, and
`NothingStuck` alone cannot tell why a key-up that was swallowed found its key
up. The inductive invariant `PathInv` links the three views of a press: what
actors hold, what Windows has, and what is on record.

- `HeldByOne`: a code is held through one key, its own or one of its pair.
- `OneInflight`: one event is on its way at most, and a key-up ended its press.
- `SoonHeld`: what Windows has down, or will have, is held or injected.
- `RecordsMatch`: a held key is down in Windows or its record swallows its key-up.
- `PassedOnRecord`, `SwallowedOnRecord`: a followed press that passed is down in
  Windows and on record as passed; one that was swallowed is up there, and on
  record as swallowed.
- `PressWhole` itself.

There is one lemma for each action (`StepKeyDown`, `StepKeyUp`, ...), which
proves each conjunct that the action can disturb; `DownRule` states what the
record of a key-down means for its repeats; `StepReset` is shared by the switch
and the reinstall. `NeverStuck` follows from `SoonHeld`, since a press that a
later hook swallowed never reaches Windows. `NeverLone` is an action property:
the key-up that a step passes was, by `RecordsMatch`, of a key that Windows had
down. `FlagsAgree` adds to `PathInv` what a flag and Windows may differ by: the one
event in flight, and the modifiers that an event past the hook made unsure.
`MaskExact` says of every step that the mask is asked for exactly where a swallowed
event leaves a lone Alt or Win, and that it is owed once.

### Bindings

From `KeysAssumption`, `BindingsAssumption` and `FilesAssumption`:

- `TablesAreKept` (`TablesKept`): types, one pending attempt for a set of keys or for
  steps, and its timer in the queue. The invariant `BindInv` adds where the list
  comes from and that an attempt has the name of a binding of its kind.
- `OneActs` (`OneWinner`): the election, for a file of any length. `SortedOrders`
  shows the engine's list to be a permutation of the file that follows `Before`;
  `ElectElects` that the fold leaves the first of the best candidates of the list;
  `ElectedIsBest` and `GroupIsFirsts` that this is the choice by weight over the
  file; `ScanKeeps` that no other binding of the scan fires.
- `HotkeysAreKept` (`HotkeyKept`).

`Scan`, `Elect` and `Path` are recursive functions. What they have after each step is
first shown to exist (`ScanUnfolds`, `ElectUnfolds`, `PathWalks`), and then an
invariant is carried along it by the least number at which it would fail
(`LeastNumber`, `StepByStep`): the library's induction theorems are of no use to the
installed provers, that the natural numbers are well-founded is.

With `NoneShared` as a hypothesis:

- `ChordsKeepTime` (`ChordsByClock`) and `SequencesKeepTime` (`SequencesByClock`).

The two properties read the log of key-downs from its beginning, and the code keeps
tables and timers; the inductive invariant `ClockInv` says that they tell the same
story. `Running` are the attempts that the log says are open, and `Path` is how far
it has a sequence. `AttemptsKept`: the entries of the tables that have not expired
are these attempts, and those paths that have begun and not ended. `NumInv`
(`Numbers`): a timer of this generation whose number an entry has is for that entry's
deadline, so that it can only end what has expired. `LogInv`: the log is in the order
of time and generation.

- A key-down that a chord or sequence takes makes the log longer by one. What that
  does to `Running` and `Path` is `RunningGrows` and `PathStepTells`; what a feed does
  to an entry is `ChordFedMatches` and `SequenceFedMatches`. `ScanTells` goes down
  the list with an invariant of its own (`Told`): bindings before the place have
  taken the key-down, those after have not. It needs `NoneShared`, for at the
  second of two such bindings the first has already fed their entry. `SequencesGo`
  and `ChordsGo` compare the end of the scan with the longer log.
- Any other step changes only what has expired (`AttemptsStay`), and a reset makes
  the whole log one of an older generation (`NothingOld`).

### Gestures

From `GestureAssumption` (what groups, terms and bounds are) and `NoneAssumption`
(`None` is no group, press or story): `TimersAreKept` (`EntriesKept`) and
`GesturesKeepTime` (`OutcomeByClock`). Both follow from `IInv`, which ties each
pending press and each due Hold to the story of its arming by its number:

- `Told`: a press in its `held` phase has the deadlines its story gives, its key has
  not gone up, and if its key-down reached Windows no other key was pressed before
  its Hold's term (`HeldTold`); one in its `second` phase was let go within the
  window, and its Tap waits if its story says so (`SecondTold`); a due Hold had its
  term before anything ended it (`HoldTold`).
- `Numbered`: no two entries share a number; `Storied`: a story that has not ended
  is of an entry.
- `TimersFit`: a queued timer with an entry's number is for that entry's deadline, so
  that a stale one ends nothing. `Covers`: the timer an entry waits for is queued,
  unless refused. `WakeRight`: what Windows has set is what the loop believes, and
  while it waits it is not later than any awaited timer.

A key-down and a key-up share the lemma `KeyEvent`: from what the event decides of the
entries (`Decides`) and what it adds to their stories (`EventTold`), with `Starts` for
a timer that was queued and `Forgets` for those that were refused. `SettledAll`
then shows that what the step ended, ended as the times say. `TakeTimerStep` needs
that the timer taken is the earliest, that by `Covers` no awaited one is missing from
the queue, and that the windows which closed by then go with it (`Closed`): so a
Hold that fires overtakes nothing. A press whose timers come late is told by its
story, so that only what is done is late, not what is decided.

### Watchdog

From `WatchdogAssumption`, and `PowersAssumption`, facts on powers of two that the
provers do not know: `TypesKept`, `StatusIsTrue` (`StatusTrue`), `RequestsSpaced`
(`SpacedOut`). `WatchInv` has, beside the types, the room that events in
progress have (`RoomKept`), that a callback since the last tick is one since the last
attempt (`CallbacksFresh`), and that the count of attempts that sets the backoff is
behind by no more than an answer that is not taken yet (`CountKept`).

`LiveHooksAreKept` (`LiveHookKept`) has two hypotheses. `LiveApart`: in no environment is
the hook removed, a key event without its call, or the thread held up between a drain and the
heartbeat, and a busy main thread and raw input left in the queue do not come together;
with both, the run `watchdog_busy` shows a live hook replaced. `Thresholds`: more than
one event is asked for as evidence, and an event keeps the ticks going (the code has 2
for `MIN_EVIDENCE` and for `ACTIVE_FOR`). The argument counts. While the hook is live, the raw
events seen or still to come are no more than the callbacks counted, the credit of earlier
ones, the call that waits, and one (`Explains`): the one that is posted between the last
drain before the ticks stop and the heartbeat, whose callback the idle watchdog does not
credit. `Drained` bounds what a drain that read everything can have left. An answer drops
the credit, so `Lapses` says that without a backlog there is none to drop,
and `Quick` that a main thread which is not busy is never asked. It follows that a request
is sent only while a call waits, which is answered before the request is served.

### Foreground

From `ForegroundAssumption`: `AppTypesKept` and `AppIsTrue` (`AppTrue`). `ForeInv`
says that the last event in the queue tells of the window in front (`LatestTells`),
and that with no event left the cache is right, or a read is due (`ReadOrDue`).

### Logging

From `LoggingAssumption` (with `FilesAssumption`), for any threads, capacity, limits,
lengths of lines and environments: `TypesKept`, `FlushesTellTruth` (`FlushTold`),
`PanicsAreBrief` (`HeldBriefly`) and `FilesAreWhole` (`FilesWhole`). The inductive
invariant `IInv` joins what the threads, the queue, the writer and the files say:

- `HeldInv`: what a thread has waited in its panics and what its budget has left are
  one budget together, and the budget tells how long ago it waited. Otherwise a new
  panic could begin another budget while `HeldBriefly` still counts the one before.
  With a writer, which none is started later (`NoneStays`), no panic is at the console.
- `FlushInv`: the writer has at most one message of a flush that is waited for
  (`OneFlush`), and none of one that was given up. `LinesCounted` numbers the messages
  in the queue by the lines that are written once they are: the mark of a flush is
  not above the number at its message, and the last number is what was sent. So when
  the writer comes to the message the lines before it are written; and the refused ones are
  in `told` or in the count it is about to report, which it takes between two lines
  only (`CountsRight`, `Promised`).
- `CountInv`: the dropped lines are the ones counted and those about to be, one for each
  thread in `bump`; the threads there are finitely many, though `Thread` may not be.
- `FilesInv` (`Sound`): a file that exists is not empty, numbers grow from the oldest file
  on and in each, and a number in no file is one deleted or below all that are kept.
  `RotateSound` shows it for a rotation that stops at any of its renames, `WritesSound`
  for a line with or without one, `DeleteSound` for the user; that `FilesWhole`, which joins the
  files to one sequence, follows from it is `SoundIsWhole`.

### Paste

From `PasteAssumption` and `NoneAssumption` (`None` is none of the records that may be in
its place), for any windows, contents, delays, limits, number of pastes and
environments: `PasteTypesKept`, `CopiesAreKept` (`OnlySaved`), `ClipboardComesBack`
(`ComesBack`) and `PhraseIsRead` (`ReadsPhrase`); the last three are what the run
`paste_and_log` checks as `CopiesKept`, `ClipboardBack` and `PhraseRead`. `PasteInv`
is

- `Phases`: what each place of the executor may rely on. In particular a try goes on to the
  clipboard with a session pending only if its restore is due or `ChainLimit` is over.
- `Timing`: a restore that waits is never past its limits. It bounds how long the phrase
  stays, and a session that gives up at the limit was held up for all of it.
- `Owners`: which window may own the clipboard. What another program left under the
  window of the session has an added format, so that `StillOurs` cannot take it for
  the phrase: `OnlySaved` hangs on this alone.
- `Contained`, where no call is refused: the clipboard has what was left, or what was put
  back of it, or the phrase of a session that saved it. That what was put
  back and saved again by the next paste still counts as the user's content (`Saved`
  of a `Returned` one) is shown by lemmas on `Only`, which keeps order and elements.
- `Unread`: each keystroke not yet handled is `Excused` by one of the limits that
  `ReadsPhrase` names, or `Awaited`: its phrase is on the clipboard, and its window,
  if not busy, handles it before the session decides. A probe that is answered tells that
  it was handled; one that finds the window busy leaves it to `Settle`; a step
  that puts back the clipboard or takes over the phrase finds all of them excused.

### Loader

From `LoaderAssumption`, for any files, hotkeys, windows and edits. It says that a file
is `Garbled` or a sequence of entries, right or wrong; that a hotkey has finitely
many keys; that conditions can be joined by OR, and that every window meets
`Always`; and that `None` is neither a text nor a list of bindings.

- `FileIsKept` (`FileKept`), from `FileInv`: the template is about to be written only
  where no file was named, and until then none was made, so a missing file is one the
  user left missing; and while the made file is there untouched, the user left none.
  It needs no assumption.
- `LoaderTypesKept`.
- `LoadedIsRight` (`LoadedRight`), from `LoadedSo`: what is live was made, by the
  conversion and the expansion, of the text that `loaded` has. `LiveList` says what
  that is: the file's bindings, then one blocker for each of the leads. That the
  turns of the leads are the numbers of the blockers, without a gap or a repeat, is
  `PlacesOf`, which counts what is before each in a finite order; `OneLead` finds
  the first request. `AnyHolds` takes the joined condition apart at a window,
  Always or not, and with it `BlockersAreRight` goes from a blocker to an entry that
  asks and back. `DuplicatesNeverAct` rests on the engine's own lemmas:
  `SortedOrders` keeps the first of two duplicates before the second, so
  `ElectElects` never elects the second, and `Claims` leaves it out of the group.
- `LoadedFits`: what is loaded has the conditions, steps and keys that `FilesAssumption`
  asks of a configuration of `Bindings`, so that these are no assumption about a file.
  Its last part is one: bindings of two kinds have different names only because
  the model tells actions apart by them.

### Daemon

From `DaemonAssumption`, for any number of clients, capacity and environments:

- `HookGoneFirst` (`KeysNotHeld`), from `HooksInv`: where the hook's guard is among
  the guards, in which order they go, and that Windows has no other hook than the one
  with that handle and those it did not remove when asked.
- `NeverAsleep` (`WakesKept`), from `WakeInv`: from the moment the drain found
  none, a request in the queue has its wake posted or its caller about to post it.
- `AnswersAreTrue` (`AnswersTrue`), from `AnswersInv`: the request a client waits for
  is its latest, is in the queue at most once, and was carried out if answered.
- `LastSaveLive` (`SavedIsLive`), from `SavedInv`: the last save is still to be seen,
  or in the watcher's hands, or its reload is the last one in the queue, or it is
  live.

### Executor

From `ExecutorAssumption`: `TypesKept`, and

- `ImplementsQueue` (`JobsInOrder`), the refinement: each step of `Executor` is a step
  of `JobQueue` or leaves its line alone. It needs `HeldInv`: jobs are held only
  while a paste waits, and of them the older were cancelled first.
- `CancelsAreObeyed` (`CancelledNeverRuns`), from `LiveInv`.
- `SleepsOnNothing` (`NoneForgotten`), from `SleepInv` and `TimerInv`: the last poll
  of a drain leaves a job in the queue only if the held ones are full; while the
  thread waits, nothing is cancelled that has not gone; and the timer is armed for
  the nearest deadline.

Each of the three has a hypothesis on the environments, which is one of the
troubles that the section above describes: `TimerApart` (no refused timer with
Pastes) for the first and third, `LaunchApart` (no cancel where both actions and
Pastes are fired) for the second, `CrowdApart` (no crowded queue with Pastes and
cancels) for the third. Without it the code does otherwise; each holds of the
environments of the run `executor`.

### Only model-checked

- Liveness: `Healed`, `TimersRun`, `EvidenceActs`, `HookReturns`, `JobsBegin`,
  `StopEnds` and `Ends`. Liveness under fairness, and ENABLED, is out of the prover's
  reach.
- Where a property of the code fails in an environment (the section above), nothing is proved
  of that environment beyond the run that shows it.

Where a run has several worlds, its MC module states a property of one of them
(`StatusTrue`, `SpacedOut`, `AppTrue`, `LoadedRight`, `FileKept`, `FlushTold`, `ClipboardBack`, ...) by a
definition of the component's module, which is the one proved.

What the proofs found in the model. A CASE whose guards overlap leaves the choice open, so
nothing can be proved of it where two hold: `Rotate`, `WriteItself` and `StartAgain`
had one each. In `Recover` the scope of a quantifier took in the implication, so that the
guard asked nothing as soon as any keystroke was of another window; `Unread` could not be
shown to be kept. In `TypeOK` of `Paste` and `Logging` types were missing that the
invariants rest on. Each was set right, and the runs repeated.

## Plan

Modelled and checked: `KeyPath`, `Gestures`, `Matching`, `Winner`,
`Bindings`, `Loader`, `Foreground`, `Watchdog`, `Executor` with `JobQueue`, `Paste`,
`Daemon`, `Logging` with `LogFiles`. Proved about: all of these.

Compositions that would add to the runs: `Bindings` shown to make only the choices
that `KeyPath` leaves free, and the tries of `Paste` those of `Executor`.

## Not modelled

- Configuration text: RON into entries, names and layouts of keys, the steps of a
  macro, the tree of a condition. It keeps no state; `Loader` begins at the entries.
- Actions and Windows services: the wrappers of Win32 calls (SendInput, registry,
  thread priority, launching) keep no state over time that a
  property could relate; what they may do to the threads that call them is in the
  models of those threads.
- Callback: carrying out a decision (the mask key, fast actions, `submit`) is one
  step with the decision, and its latency clock is left out: a late callback
  appears as a note of hidden input that may come at any time.
- Test-only code: the scenario harness and its oracles, `debug_hold` and the bench.
  What the oracles state is stated here as properties of `KeyPath`.
- `status` and the texts of the pipe, which change nothing.
