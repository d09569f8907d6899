------------------------------ MODULE Watchdog ------------------------------
(* The hook watchdog: its decision (src/hook/watchdog/decision.rs), the pass  *)
(* of its thread (src/hook/watchdog/mod.rs), what it shares with the main     *)
(* thread (src/hook/health.rs), and the main thread's reinstall of the        *)
(* keyboard hook (reinstall_if_silent in src/hook/main_thread.rs, and         *)
(* reinstall_keyboard_hook_with in src/hook/keyboard_hook.rs).                *)
(*                                                                            *)
(* Windows queues raw input for the watchdog and calls the hook on the main   *)
(* thread, in either order.  Both are counts here, as they are in the code.   *)
(* Time is a count of the watchdog's TICKs; instants are kept as ages and as  *)
(* times to go, so that no clock runs out.  What the watchdog notes of unseen *)
(* raw input for the main thread is KeyPath's NoteHidden.                     *)
(*                                                                            *)
(* `failures`, `sinceServed` and `failedQuiet` are history variables.         *)
EXTENDS Naturals

CONSTANTS
    Silence,       \* SILENCE, in ticks
    ActiveFor,     \* ACTIVE_FOR, in ticks
    MinEvidence,   \* MIN_EVIDENCE
    BackoffLimit,  \* MAX_BACKOFF_SHIFT
    None,          \* no instant
    MaxKeys,       \* bound: raw input not ticked yet; callbacks not matched yet
    Environments   \* what may go wrong in a behaviour, sets of Features

Features == {"hidden",   \* key events that no hook is called for, but for a removal
             "giveup",   \* Windows gives up a hook call that waits
             "remove",   \* Windows removes the hook
             "refuse",   \* Windows refuses a new hook
             "timer",    \* Windows refuses to set or to stop the tick timer
             "full",     \* the main thread's request queue is full
             "away",     \* keyboard input is on another desktop
             "busy",     \* the main thread leaves calls and requests for ticks
             "backlog",  \* a drain's time ends with raw input left in the queue
             "late",     \* the watchdog's thread runs ticks later than it should
             "held",     \* the watchdog's thread is held up inside a drain or pass
             "end"}      \* the hook is uninstalled, the main thread ends

ASSUME WatchdogAssumption ==
    /\ Silence \in Nat /\ ActiveFor \in Nat /\ MinEvidence \in Nat \ {0}
    /\ BackoffLimit \in Nat /\ MaxKeys \in Nat
    /\ None \notin Nat
    /\ Environments \subseteq SUBSET Features

(* What the proofs use of powers of two, which the prover knows nothing of.   *)
ASSUME PowersAssumption ==
    \A a \in 0 .. BackoffLimit : 2 ^ a \in Nat /\ \A b \in 0 .. a : 2 ^ b <= 2 ^ a

VARIABLES
    env,            \* the Features of this behaviour
    hook,           \* Windows: not installed, called, or silently removed
    waiting,        \* a hook call waits for the main thread
    unposted,       \* raw input of the key event is still to be queued
    queued,         \* raw key events in the watchdog's queue
    ended,          \* the main thread has ended
    watchdog,       \* Watchdog: the state of the decision
    answered,       \* the heartbeat, since the watchdog's last tick
    loop,           \* the watchdog's loop: it waits, or has drained for a pass
    drained,        \* Drained: what the latest drain read and whether it left some
    armed,          \* Ticker: the tick the timer is set for, or None
    wake,           \* Windows: when the timer signals, or None
    reply,          \* Ticker: the request and what became of it
    moved,          \* the heartbeat, since the request's snapshot
    attemptFailed,  \* HealthState: last_attempt_failed
    timerFailing,   \* HealthState: timer_failing
    failures,       \* history: attempts since the last callback
    sinceServed,    \* history: the time since the main thread served a request
    failedQuiet     \* history: the last attempt failed, and no callback since

inputVars  == <<hook, waiting, unposted, queued>>
threadVars == <<watchdog, loop, drained, armed, wake, timerFailing>>
history    == <<failures, sinceServed, failedQuiet>>
vars == <<env, hook, waiting, unposted, queued, ended, watchdog, answered, loop, drained,
          armed, wake, reply, moved, attemptFailed, timerFailing, failures,
          sinceServed, failedQuiet>>

AtMost(n, limit) == IF n > limit THEN limit ELSE n

(* The silence that a request needs, which doubles with each attempt.         *)
Window(attempts) == Silence * 2 ^ AtMost(attempts, BackoffLimit)

(* Ages are told apart up to the longest that the code compares with.         *)
OldQuiet == Window(BackoffLimit)
OldRaw   == IF ActiveFor > OldQuiet + 1 THEN ActiveFor ELSE OldQuiet + 1
Instant  == {0, 1, None}

(* The fields of the code's Watchdog: the raw events since the last tick, the *)
(* credit, the evidence (told apart up to MinEvidence), the ages of           *)
(* quiet_since and last_raw_at, the time to the next tick, the attempts.      *)
WatchdogState ==
    [arrived : 0 .. MaxKeys, credit : 0 .. MaxKeys, evidence : 0 .. MinEvidence,
     quietFor : 0 .. OldQuiet, rawAge : (0 .. OldRaw) \cup {None},
     nextTick : Instant, outstanding : BOOLEAN, attempts : 0 .. BackoffLimit]

Outcome == {"Reinstalled", "Failed", "Alive", "NotInstalled"}

TypeOK ==
    /\ env \in Environments
    /\ hook \in {"none", "live", "dead", "removed"}
    /\ waiting \in BOOLEAN /\ unposted \in BOOLEAN /\ queued \in 0 .. MaxKeys
    /\ ended \in BOOLEAN
    /\ watchdog \in WatchdogState
    /\ answered \in 0 .. MaxKeys
    /\ loop \in {"wait", "pass"}
    /\ drained \in [keys : 0 .. MaxKeys, pending : BOOLEAN]
    /\ armed \in Instant /\ wake \in Instant
    /\ reply \in {"none", "asked", "dropped"} \cup Outcome
    /\ moved \in BOOLEAN
    /\ attemptFailed \in BOOLEAN /\ timerFailing \in BOOLEAN
    /\ failures \in 0 .. BackoffLimit
    /\ sinceServed \in 0 .. OldQuiet
    /\ failedQuiet \in BOOLEAN

(* The watchdog starts before the hooks are installed.                        *)
Init ==
    /\ env \in Environments
    /\ hook = "none" /\ waiting = FALSE /\ unposted = FALSE /\ queued = 0 /\ ended = FALSE
    /\ watchdog = [arrived |-> 0, credit |-> 0, evidence |-> 0, quietFor |-> 0,
                   rawAge |-> None, nextTick |-> None, outstanding |-> FALSE,
                   attempts |-> 0]
    /\ answered = 0
    /\ loop = "wait" /\ drained = [keys |-> 0, pending |-> FALSE]
    /\ armed = None /\ wake = None
    /\ reply = "none" /\ moved = FALSE
    /\ attemptFailed = FALSE /\ timerFailing = FALSE
    /\ failures = 0 /\ sinceServed = OldQuiet /\ failedQuiet = FALSE

-----------------------------------------------------------------------------
(* Windows and the main thread's hook calls.  Windows takes key events one by  *)
(* one: it calls the hook and queues raw input for one before the next.       *)
KeyOver == ~waiting /\ ~unposted
Room ==
    /\ queued + drained.keys + watchdog.arrived < MaxKeys
    /\ answered + watchdog.credit < MaxKeys

(* A key event that a live hook is called for.                                *)
KeySeen ==
    /\ hook = "live" /\ KeyOver /\ Room
    /\ waiting' = TRUE /\ unposted' = TRUE
    /\ UNCHANGED <<env, hook, queued, ended, threadVars, answered, reply, moved,
                   attemptFailed, history>>

(* A key event that no hook is called for: the hook was removed, or Windows   *)
(* keeps the event from it, or none is installed.                             *)
KeyUnseen ==
    /\ hook = "dead" \/ "hidden" \in env
    /\ KeyOver /\ Room
    /\ unposted' = TRUE
    /\ UNCHANGED <<env, hook, waiting, queued, ended, threadVars, answered, reply,
                   moved, attemptFailed, history>>

(* Raw input is queued before the event's hook call, during it, or just after.*)
Post ==
    /\ unposted
    /\ unposted' = FALSE /\ queued' = queued + 1
    /\ UNCHANGED <<env, hook, waiting, ended, threadVars, answered, reply, moved,
                   attemptFailed, history>>

(* The drain is right before the heartbeat is read.                           *)
NotBetween == loop = "wait" \/ "held" \in env

(* HealthState::callback_seen, in a hook call.                                *)
Beats(n) ==
    /\ answered' = answered + n
    /\ moved' = (moved \/ n > 0)
    /\ failures' = (IF n > 0 THEN 0 ELSE failures)

(* A hook call.  Of a key that is swallowed no raw input is queued any more.  *)
Callback ==
    /\ waiting /\ ~ended /\ NotBetween
    /\ waiting' = FALSE
    /\ unposted' \in {unposted, FALSE}
    /\ Beats(1) /\ failedQuiet' = FALSE
    /\ UNCHANGED <<env, hook, queued, ended, threadVars, reply, attemptFailed, sinceServed>>

GiveUp ==
    /\ "giveup" \in env /\ waiting
    /\ waiting' = FALSE
    /\ UNCHANGED <<env, hook, unposted, queued, ended, threadVars, answered, reply,
                   moved, attemptFailed, history>>

HookRemoved ==
    /\ "remove" \in env /\ hook = "live"
    /\ hook' = "dead" /\ waiting' = FALSE
    /\ UNCHANGED <<env, unposted, queued, ended, threadVars, answered, reply, moved,
                   attemptFailed, history>>

(* KeyboardHook::install and uninstall, once each.                            *)
Install ==
    /\ hook = "none" /\ hook' = "live"
    /\ UNCHANGED <<env, waiting, unposted, queued, ended, threadVars, answered, reply,
                   moved, attemptFailed, history>>

Uninstall ==
    /\ "end" \in env /\ hook \in {"live", "dead"}
    /\ hook' = "removed" /\ waiting' = FALSE
    /\ UNCHANGED <<env, unposted, queued, ended, threadVars, answered, reply, moved,
                   attemptFailed, history>>

(* The main thread ends: the request that waits is dropped unanswered.        *)
MainEnds ==
    /\ "end" \in env /\ ~ended
    /\ ended' = TRUE /\ waiting' = FALSE
    /\ reply' = IF reply = "asked" THEN "dropped" ELSE reply
    /\ UNCHANGED <<env, hook, unposted, queued, threadVars, answered, moved,
                   attemptFailed, history>>

(* reinstall_if_silent: the hook calls that wait run first; a heartbeat that  *)
(* moved since the request's snapshot keeps the hook.                         *)
Heard(answers) == moved \/ answers > 0

Serve ==
    /\ reply = "asked" /\ ~ended
    /\ waiting => NotBetween
    /\ waiting' = FALSE
    /\ LET answers == IF waiting THEN 1 ELSE 0
           heard   == Heard(answers)
       IN  \/ /\ heard
              /\ reply' = "Alive"
              /\ UNCHANGED <<hook, attemptFailed>>
              /\ Beats(answers)
              /\ failedQuiet' = (failedQuiet /\ ~waiting)
           \/ /\ ~heard /\ hook \notin {"live", "dead"}
              /\ reply' = "NotInstalled"
              /\ UNCHANGED <<hook, answered, moved, attemptFailed, failures, failedQuiet>>
           \/ /\ ~heard /\ hook \in {"live", "dead"}
              /\ reply' = "Reinstalled" /\ hook' = "live"
              /\ attemptFailed' = FALSE
              /\ failures' = AtMost(failures + 1, BackoffLimit) /\ failedQuiet' = FALSE
              /\ UNCHANGED <<answered, moved>>
           \/ /\ ~heard /\ hook \in {"live", "dead"} /\ "refuse" \in env
              /\ reply' = "Failed"
              /\ attemptFailed' = TRUE
              /\ failures' = AtMost(failures + 1, BackoffLimit) /\ failedQuiet' = TRUE
              /\ UNCHANGED <<hook, answered, moved>>
    /\ sinceServed' = 0
    /\ UNCHANGED <<env, unposted, queued, ended, threadVars>>
-----------------------------------------------------------------------------
(* The decision, as operators on its state w.                                 *)

(* raw_batch: the first batch after idle starts the ticking and the silence.  *)
RawBatch(w, count) ==
    IF count = 0 THEN w
    ELSE LET counted == [w EXCEPT !.arrived = @ + count, !.rawAge = 0]
         IN  IF w.nextTick # None THEN counted
             ELSE [counted EXCEPT !.nextTick = 1, !.quietFor = 0, !.credit = 0]

StartOver(w) == [w EXCEPT !.evidence = 0, !.credit = 0, !.quietFor = 0, !.arrived = 0]

(* answered, not_sent and declined.                                           *)
Answered_FailureUncounted(w, outcome) ==
    StartOver([w EXCEPT !.outstanding = FALSE,
                        !.attempts = IF outcome = "Reinstalled"
                                     THEN AtMost(@ + 1, BackoffLimit) ELSE @])

Answered_StillOutstanding(w, outcome) ==
    StartOver([w EXCEPT !.attempts = IF outcome \in {"Reinstalled", "Failed"}
                                     THEN AtMost(@ + 1, BackoffLimit) ELSE @])

Answered(w, outcome) ==
    StartOver([w EXCEPT !.outstanding = FALSE,
                        !.attempts = IF outcome \in {"Reinstalled", "Failed"}
                                     THEN AtMost(@ + 1, BackoffLimit) ELSE @])

NotSent(w)  == [w EXCEPT !.outstanding = FALSE]
Declined(w) == StartOver(NotSent(w))

(* Ticker::take_answer; a request that was dropped may be sent again.         *)
TakeAnswer(w) ==
    CASE reply \in Outcome         -> Answered(w, reply)
      [] reply = "dropped"         -> NotSent(w)
      [] reply \in {"none", "asked"} -> w

(* The callbacks counted before explain the raw events read now; what is left *)
(* of their credit waits for raw input that is still queued, and lapses else. *)
Explained(w) == AtMost(w.arrived, w.credit)
Unexplained(w) == w.arrived - Explained(w)

KeptCredit_Lapses(w, backlog) == 0
KeptCredit(w, backlog) == IF backlog THEN w.credit - Explained(w) ELSE 0

NewCredit(w, callbacks) ==
    IF callbacks > Unexplained(w) THEN callbacks - Unexplained(w) ELSE 0

(* A request needs evidence that was there before this interval, and its      *)
(* window of silence.                                                         *)
Decides(w, callbacks) ==
    /\ callbacks = 0 /\ ~w.outstanding
    /\ w.evidence >= MinEvidence /\ w.quietFor >= Window(w.attempts)

KeepsTicking_ForInputOnly(w) ==
    w.outstanding \/ (w.rawAge # None /\ w.rawAge < ActiveFor)

(* Whether another tick can change anything.                                  *)
KeepsTicking(w) ==
    \/ w.outstanding
    \/ /\ w.rawAge # None
       /\ \/ w.rawAge < ActiveFor
          \/ w.evidence >= MinEvidence /\ w.rawAge < Window(w.attempts) + 1

(* tick: a callback is the new baseline; without one the raw events that no   *)
(* callback explains are evidence.                                            *)
Ticked(w, callbacks, backlog) ==
    LET seen == IF callbacks > 0
                THEN [w EXCEPT !.quietFor = 0, !.evidence = 0, !.attempts = 0,
                               !.credit = KeptCredit(w, backlog) + NewCredit(w, callbacks)]
                ELSE [w EXCEPT !.credit = KeptCredit(w, backlog),
                               !.evidence = AtMost(@ + Unexplained(w), MinEvidence),
                               !.outstanding = @ \/ Decides(w, callbacks)]
        told == [seen EXCEPT !.arrived = 0]
    IN  [told EXCEPT !.nextTick = IF Decides(w, callbacks) \/ KeepsTicking(told)
                                  THEN 1 ELSE None]
-----------------------------------------------------------------------------
(* The watchdog's thread.                                                     *)

(* What ends its wait: the timer's signal, the time of a tick that the timer  *)
(* could not take, raw input while it does not tick, and raw input left.      *)
Woken ==
    \/ wake = 0
    \/ armed = None /\ watchdog.nextTick = 0
    \/ watchdog.nextTick = None /\ queued > 0
    \/ drained.pending

(* The drain reads raw input until there is none, or its time is spent.  Only *)
(* raw input that is counted is kept: none counts before the hook is          *)
(* installed.  Any message ends the wait too.                                 *)
DrainRaw ==
    /\ loop = "wait" /\ loop' = "pass"
    /\ \E keys \in 0 .. queued, pending \in BOOLEAN :
        /\ keys < queued => pending
        /\ pending => "backlog" \in env /\ (keys > 0 \/ "held" \in env)
        /\ drained' = [keys |-> keys, pending |-> pending]
        /\ queued' = queued - keys
    /\ IF wake = 0 THEN armed' = None /\ wake' = None ELSE UNCHANGED <<armed, wake>>
    /\ UNCHANGED <<env, hook, waiting, unposted, ended, watchdog, answered, reply,
                   moved, attemptFailed, timerFailing, history>>

WokenDrain   == Woken /\ DrainRaw
MessageDrain == ~Woken /\ DrainRaw

(* Ticker::arm, for the next tick.                                            *)
Arm(next) ==
    \/ /\ next = None
       /\ armed' = None
       /\ \/ wake' = IF armed # None /\ wake # 0 THEN None ELSE wake
          \/ "timer" \in env /\ wake' = wake
       /\ UNCHANGED timerFailing
    \/ next # None /\ armed = next /\ UNCHANGED <<armed, wake, timerFailing>>
    \/ /\ next # None /\ armed # next
       /\ armed' = next /\ wake' = next /\ timerFailing' = FALSE
    \/ /\ next # None /\ armed # next /\ "timer" \in env
       /\ armed' = None /\ wake' \in {wake, None} /\ timerFailing' = TRUE

(* HealthState::hook_answered, at a tick that saw a callback.                 *)
Clears_AtAnyTick(callbacks) == TRUE
Clears(callbacks) == callbacks > 0

(* Ticker::ask, where the tick decided so: sent, refused by a full queue or an*)
(* ended main thread, or declined while input is on another desktop.          *)
Ask(w) ==
    \/ ~ended /\ reply' = "asked" /\ watchdog' = w
    \/ (ended \/ "full" \in env) /\ reply' = "none" /\ watchdog' = NotSent(w)
    \/ "away" \in env /\ reply' = "none" /\ watchdog' = Declined(w)

(* Ticker::pass: raw events first, then the answer, then the tick if it is    *)
(* due, then the timer.                                                       *)
Pass ==
    LET counted == IF hook \in {"live", "dead"} THEN drained.keys ELSE 0
        before  == TakeAnswer(RawBatch(watchdog, counted))
        after   == Ticked(before, answered, drained.pending)
        open    == IF reply = "asked" THEN "asked" ELSE "none"
    IN  /\ loop = "pass" /\ loop' = "wait"
        /\ drained' = [drained EXCEPT !.keys = 0]
        /\ IF before.nextTick = 0
           THEN /\ IF Decides(before, answered)
                   THEN Ask(after) /\ moved' = FALSE
                   ELSE watchdog' = after /\ reply' = open /\ UNCHANGED moved
                /\ answered' = 0
                /\ attemptFailed' = (attemptFailed /\ ~Clears(answered))
           ELSE /\ watchdog' = before /\ reply' = open
                /\ UNCHANGED <<answered, moved, attemptFailed>>
        /\ Arm(watchdog'.nextTick)
        /\ UNCHANGED <<env, inputVars, ended, history>>

(* Time passes.  Raw input is queued within the TICK in which its hook call   *)
(* ends, and a pass is in the TICK of its drain.                              *)
Sooner(instant) == IF instant = 1 THEN 0 ELSE instant

Tick ==
    /\ unposted => waiting
    /\ waiting \/ reply = "asked" => "busy" \in env
    /\ loop = "wait" /\ (Woken => "late" \in env)
    /\ watchdog' = [watchdog EXCEPT
          !.quietFor = AtMost(@ + 1, OldQuiet),
          !.rawAge   = IF @ = None THEN None ELSE AtMost(@ + 1, OldRaw),
          !.nextTick = Sooner(@)]
    /\ armed' = Sooner(armed) /\ wake' = Sooner(wake)
    /\ sinceServed' = AtMost(sinceServed + 1, OldQuiet)
    /\ UNCHANGED <<env, inputVars, ended, answered, loop, drained, reply, moved,
                   attemptFailed, timerFailing, failures, failedQuiet>>
-----------------------------------------------------------------------------
Next ==
    \/ KeySeen \/ KeyUnseen \/ Post \/ Callback \/ GiveUp \/ HookRemoved
    \/ Install \/ Uninstall \/ MainEnds \/ Serve
    \/ WokenDrain \/ MessageDrain \/ Pass \/ Tick

Spec == Init /\ [][Next]_vars

(* Time passes however often the watchdog's thread wakes; that thread goes on *)
(* once something ended its wait; the main thread serves what it is asked.    *)
FairSpec ==
    /\ Spec
    /\ SF_vars(Tick) /\ WF_vars(Post) /\ WF_vars(Callback)
    /\ WF_vars(WokenDrain) /\ WF_vars(Pass) /\ SF_vars(Serve)
-----------------------------------------------------------------------------
Replaced == reply = "asked" /\ reply' = "Reinstalled"

(* A live hook is kept: whatever the order of raw input and hook calls, with  *)
(* raw input left in the queue over late ticks, and with a main thread that   *)
(* leaves a call and a request for long, whether or not a swallowed key has   *)
(* raw input.  The code does not keep it where both meet ("busy" with         *)
(* "backlog"): an answer drops the credit of raw input that is still queued.  *)
OnlyDeadReplaced == Replaced => hook = "dead"

LiveHookKept == [][OnlyDeadReplaced]_vars

(* Attempts that do not help are spaced out: a request comes a whole window   *)
(* after the main thread served the one before, and the window has doubled    *)
(* with each attempt since the last callback.                                 *)
AskedInTime ==
    reply # "asked" /\ reply' = "asked" => sinceServed >= Silence * 2 ^ failures

SpacedOut == [][AskedInTime]_vars

(* What `swch status` says of a failed attempt is true: it says so from the   *)
(* attempt until the hook answers, and stops with the tick that sees that.    *)
StatusTrue ==
    /\ failedQuiet => attemptFailed
    /\ attemptFailed => failedQuiet \/ answered > 0

(* Evidence never lies about: it leads to an answered request, unless a       *)
(* callback, another desktop or the end of the main thread comes before.  So  *)
(* the ticks go on until the window of silence is over, and no answer, also   *)
(* that of a hook that was uninstalled, is missed.                            *)
EvidenceActs ==
    watchdog.evidence >= MinEvidence /\ ~ended ~> watchdog.evidence = 0 \/ ended

(* A hook that Windows removed comes back while keys are typed, whatever keys *)
(* it did not get before and however often the timer cannot be set: no credit,*)
(* window or unanswered request of its earlier life holds that up for good.   *)
HookReturns == []<>unposted => []<>(hook # "dead")
=============================================================================
