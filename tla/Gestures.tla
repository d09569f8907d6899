------------------------------ MODULE Gestures ------------------------------
(* Tap, Hold and DoubleTap: the machine of a press (src/engine/gestures.rs),  *)
(* the timers it asks for (src/engine/schedule.rs, and start_timers, is_live  *)
(* and reset in src/engine/mod.rs) and the main thread's loop that runs them  *)
(* (GestureTimers and MainThread::run in src/hook/main_thread.rs).            *)
(*                                                                            *)
(* Which gesture group wins a key-down, and whether the key-down is swallowed,*)
(* are free choices here: they belong to the bindings.  Time is a count of    *)
(* ticks.  Every event of a key is a step of its own, also within a tick.     *)
(*                                                                            *)
(* `story` and `settled` are history variables: no action reads them.         *)
EXTENDS Naturals

CONSTANTS
    Key,        \* the keys
    Group,      \* the gesture groups of the configuration, each of one key
    Modifiers,  \* the keys the main thread's read of the modifiers may free
    None,       \* no press, no deadline, no timer set
    Refusals,   \* whether Windows may refuse to set the waitable timer
    MaxTime,    \* bound: the clock's last tick
    MaxSeq,     \* bound: the number of armings
    MaxReset    \* bound: the number of resets

Term == (1 .. MaxTime) \cup {None}

(* A group: its key, every key of its combo, the term of each gesture that it *)
(* has, and whether one of its bindings swallows the key-down.                *)
ASSUME GestureAssumption ==
    /\ MaxTime \in Nat /\ MaxSeq \in Nat /\ MaxReset \in Nat
    /\ None \notin Nat /\ None \notin Key
    /\ Modifiers \subseteq Key /\ Refusals \in BOOLEAN
    /\ Group \subseteq [key : Key, combo : SUBSET Key, tap : Term, hold : Term,
                        double : Term, block : BOOLEAN]
    /\ \A g \in Group : g.key \in g.combo

VARIABLES
    now,        \* the clock
    active,     \* KeyState: the keys the engine believes are held
    record,     \* KeyState: what became of each key's latest key-down
    presses,    \* Gestures: the pending press of each key, or None
    dueHolds,   \* Gestures: presses resolved as a Hold that await their timer
    seq,        \* Ids: the number of the latest arming
    generation, \* Ids: the number of resets
    queue,      \* TimerQueue: the timers asked for
    armed,      \* GestureTimers: what it set the waitable timer for, or None
    wake,       \* Windows: when the waitable timer signals, or None
    loop,       \* the main loop: it drains, waits, or dispatches messages
    story,      \* history: what happened to each pending arming
    settled     \* history: the armings that the latest step ended

engineVars == <<active, record, presses, dueHolds, seq, generation>>
timerVars  == <<queue, armed, wake>>
vars == <<now, active, record, presses, dueHolds, seq, generation, queue, armed,
          wake, loop, story, settled>>

Time     == 0 .. MaxTime
Deadline == (0 .. 2 * MaxTime) \cup {None}

(* Phase::Held: the gestures still possible, each with its deadline.          *)
HeldPress == [phase : {"held"}, seq : 1 .. MaxSeq, group : Group,
              tap : Deadline, hold : Deadline, double : Deadline]

(* Phase::AwaitSecond: the DoubleTap window, until `due`; with the press's Tap*)
(* waiting for it or not, and whether the key-down reached Windows.           *)
SecondPress == [phase : {"second"}, seq : 1 .. MaxSeq, group : Group,
                due : 0 .. 2 * MaxTime, tapWaits : BOOLEAN, passed : BOOLEAN]

DueHold == [key : Key, seq : 1 .. MaxSeq, due : 0 .. 2 * MaxTime]
Timer   == [key : Key, seq : 1 .. MaxSeq, generation : 0 .. MaxReset,
            due : 0 .. 2 * MaxTime]

(* What is told of an arming.                                                 *)
Story == [group : Group, down : Time, passed : BOOLEAN, up : Time \cup {None},
          other : Time \cup {None}, outside : BOOLEAN, again : Time \cup {None},
          byGroup : Group \cup {None}, refused : BOOLEAN]

(* None is no value of these.                                                 *)
ASSUME NoneAssumption ==
    None \notin Group \cup HeldPress \cup SecondPress \cup Story

TypeOK ==
    /\ now \in Time
    /\ active \subseteq Key
    /\ record \in [Key -> {"Unknown", "Passed", "Suppressed"}]
    /\ presses \in [Key -> HeldPress \cup SecondPress \cup {None}]
    /\ dueHolds \subseteq DueHold
    /\ seq \in 0 .. MaxSeq /\ generation \in 0 .. MaxReset
    /\ queue \subseteq Timer
    /\ armed \in Deadline /\ wake \in Deadline
    /\ loop \in {"drain", "wait", "dispatch"}

Init ==
    /\ now = 0 /\ active = {} /\ record = [k \in Key |-> "Unknown"]
    /\ presses = [k \in Key |-> None] /\ dueHolds = {}
    /\ seq = 0 /\ generation = 0
    /\ queue = {} /\ armed = None /\ wake = None /\ loop = "drain"
    /\ story = [s \in 1 .. MaxSeq |-> None] /\ settled = {}

-----------------------------------------------------------------------------
(* The story of an arming is kept apart from the code's own record of it:     *)
(* when its key went down and whether that reached Windows, when it went up,  *)
(* the first other key pressed before that, whether one outside the combo was *)
(* after it, and the next press of the key; and whether the timer of its Hold *)
(* was refused.                                                               *)
NewStory(group, passed) ==
    [group |-> group, down |-> now, passed |-> passed, up |-> None,
     other |-> None, outside |-> FALSE, again |-> None, byGroup |-> None,
     refused |-> FALSE]

ToldDown(k, group) ==
    [s \in 1 .. MaxSeq |->
        LET st == story[s]
        IN  CASE st = None -> None
              [] st # None /\ st.group.key = k ->
                    IF st.again = None
                    THEN [st EXCEPT !.again = now, !.byGroup = group] ELSE st
              [] OTHER ->
                    IF st.up = None
                    THEN [st EXCEPT !.other = IF @ = None THEN now ELSE @]
                    ELSE [st EXCEPT !.outside = @ \/ k \notin st.group.combo]]

ToldUp(k) ==
    [s \in 1 .. MaxSeq |->
        LET st == story[s]
        IN  IF st # None /\ st.group.key = k /\ st.up = None /\ st.again = None
            THEN [st EXCEPT !.up = now] ELSE st]

ToldRefused(told, seqs) ==
    [s \in 1 .. MaxSeq |->
        IF s \in seqs /\ told[s] # None THEN [told[s] EXCEPT !.refused = TRUE]
                                       ELSE told[s]]

(* The armings that are pending in the code's tables.                         *)
Pending == {presses[k].seq : k \in {j \in Key : presses[j] # None}}
             \cup {h.seq : h \in dueHolds}

(* An arming ends when it fires an action or leaves the tables; its story     *)
(* ends with it.                                                              *)
Settle(told, fired) ==
    LET ended == {s \in 1 .. MaxSeq :
                    (told[s] # None /\ s \notin Pending') \/ (\E f \in fired : f[1] = s)}
        outcome(s) == IF \E f \in fired : f[1] = s
                      THEN (CHOOSE f \in fired : f[1] = s)[2] ELSE "nothing"
    IN  /\ settled' = {[story |-> told[s], outcome |-> outcome(s), at |-> now] : s \in ended}
        /\ story' = [s \in 1 .. MaxSeq |-> IF s \in ended THEN None ELSE told[s]]
-----------------------------------------------------------------------------
(* Mutants of the definitions that follow them are written as <name>_<bug>:   *)
(* a plausible bug, which a property must tell from the code.                 *)
After(term) == IF term = None THEN None ELSE now + term
Reached(deadline) == deadline # None /\ now >= deadline
Open(deadline)    == deadline # None /\ now < deadline

(* Phase::timer_due: when the timer a press waits for is due.                 *)
TimerDue(p) == CASE p.phase = "held"              -> p.hold
                 [] p.phase = "second" /\ p.tapWaits  -> p.due
                 [] p.phase = "second" /\ ~p.tapWaits -> None

(* Engine::is_live: an entry of this generation waits for the timer.          *)
Live(t, ps, holds) ==
    /\ t.generation = generation
    /\ \/ \E h \in holds : h.key = t.key /\ h.seq = t.seq
       \/ /\ ps[t.key] # None
          /\ ps[t.key].seq = t.seq
          /\ TimerDue(ps[t.key]) # None

ForgottenPress_KeepsHold(p, seqs) == p

(* Gestures::forget, for timers that could not be set: a Hold is dropped, a   *)
(* Tap that waits for its window stays.                                       *)
ForgottenPress(p, seqs) ==
    IF p = None \/ p.seq \notin seqs \/ p.phase = "second" THEN p
    ELSE IF p.tap = None /\ p.double = None THEN None
    ELSE [p EXCEPT !.hold = None]

Forgotten(ps, seqs) == [k \in Key |-> ForgottenPress(ps[k], seqs)]

(* What is left set when Windows refuses: in Windows the old due time or none,*)
(* and nothing the code counts on.                                            *)
ArmedWhenRefused_Kept(was) == was

ArmedWhenRefused(was) == None

Refused ==
    /\ Refusals
    /\ armed' = ArmedWhenRefused(armed) /\ wake' \in {wake, None}

(* Engine::start_timers and GestureTimers::start, for the one timer that a    *)
(* decision of key k asks for (none if `due` is None), with ps and holds the  *)
(* gestures as decided: the stale timers go, and the waitable timer is set if *)
(* it was set for nothing as early.  Windows may refuse that.                 *)
StartTimer(k, number, due, ps, holds, told, fired) ==
    /\ dueHolds' = holds
    /\ IF due = None
       THEN presses' = ps /\ UNCHANGED timerVars /\ Settle(told, fired)
       ELSE LET kept   == {t \in queue : Live(t, ps, holds)}
                timer  == [key |-> k, seq |-> number, generation |-> generation, due |-> due]
                sooner == armed # None => due < armed
            IN  \/ /\ queue' = kept \cup {timer}
                   /\ armed' = IF sooner THEN due ELSE armed
                   /\ wake' = IF sooner THEN due ELSE wake
                   /\ presses' = ps
                   /\ Settle(told, fired)
                \/ /\ sooner /\ Refused
                   /\ queue' = kept
                   /\ presses' = Forgotten(ps, {number})
                   /\ Settle(ToldRefused(told, {number}), fired)
-----------------------------------------------------------------------------
Cancels_DueHold(k, p) ==
    CASE p = None -> FALSE
      [] p # None /\ p.phase = "second" ->
            k \notin p.group.combo /\ (p.tapWaits \/ p.passed)
      [] p # None /\ p.phase = "held" -> record[p.group.key] = "Passed"

(* Gestures::other_key_down: a first key-down of k fires the waiting Tap of   *)
(* another key, and cancels a pending gesture whose key-down passed.          *)
Cancels(k, p) ==
    CASE p = None -> FALSE
      [] p # None /\ p.phase = "second" ->
            k \notin p.group.combo /\ (p.tapWaits \/ p.passed)
      [] p # None /\ p.phase = "held" ->
            record[p.group.key] = "Passed" /\ ~Reached(p.hold)

Uncancelled(k) ==
    [j \in Key |-> IF j # k /\ Cancels(k, presses[j]) THEN None ELSE presses[j]]

TapsOfOthers(k) ==
    {<<presses[j].seq, "tap">> : j \in {j \in Key \ {k} :
        Cancels(k, presses[j]) /\ presses[j].phase = "second" /\ presses[j].tapWaits}}

(* Gestures::press: a first key-down that a group wins, or that none does.    *)
Completes(p, group) ==
    /\ p # None /\ p.phase = "second" /\ now < p.due
    /\ group = p.group

Arm(group, number) ==
    [phase |-> "held", seq |-> number, group |-> group, tap |-> After(group.tap),
     hold |-> After(group.hold), double |-> After(group.double)]

DueOf(k, p) == {[key |-> k, seq |-> p.seq, due |-> p.hold]}

(* A hook call comes while messages are dispatched, which ends a wait, or in  *)
(* the drain, where a reinstall of the hook lets the waiting calls in.        *)
Delivered == loop' = IF loop = "wait" THEN "dispatch" ELSE loop

KeyDown(k, group, swallow) ==
    LET earlier == presses[k]
        others  == Uncancelled(k)
        number  == seq + 1
        double  == Completes(earlier, group)
        arms    == group # None /\ ~double
        ended   == IF earlier = None THEN {}
                   ELSE IF double THEN {<<earlier.seq, "double">>}
                   ELSE IF earlier.phase = "second" /\ earlier.tapWaits
                   THEN {<<earlier.seq, "tap">>} ELSE {}
        holds   == IF earlier # None /\ earlier.phase = "held" /\ Reached(earlier.hold)
                   THEN dueHolds \cup DueOf(k, earlier) ELSE dueHolds
        told    == ToldDown(k, group)
    IN  /\ k \notin active /\ seq < MaxSeq
        /\ group # None /\ group.block => swallow
        /\ active' = active \cup {k}
        /\ record' = [record EXCEPT ![k] = IF swallow THEN "Suppressed" ELSE "Passed"]
        /\ seq' = number
        /\ StartTimer(k, number,
                      IF arms THEN After(group.hold) ELSE None,
                      [others EXCEPT ![k] = IF arms THEN Arm(group, number) ELSE None],
                      holds,
                      IF arms THEN [told EXCEPT ![number] = NewStory(group, ~swallow)]
                              ELSE told,
                      TapsOfOthers(k) \cup ended)
        /\ Delivered
        /\ UNCHANGED <<now, generation>>

(* Gestures::release, in Engine::on_key_up.  A press whose Hold has had its   *)
(* term is left to its timer; otherwise its Tap fires or, with the DoubleTap  *)
(* window open, waits for it under a number of its own.                       *)
KeyUp(k) ==
    LET p      == presses[k]
        number == seq + 1
        isHeld == p # None /\ p.phase = "held"
        held   == isHeld /\ Reached(p.hold)
        tap    == isHeld /\ ~held /\ Open(p.tap)
        waits  == isHeld /\ ~held /\ Open(p.double)
        told   == ToldUp(k)
    IN  /\ seq < MaxSeq
        /\ k \in active \/ record[k] # "Unknown"
        /\ active' = active \ {k}
        /\ record' = [record EXCEPT ![k] = "Unknown"]
        /\ seq' = number
        /\ StartTimer(k, number,
                      IF waits /\ tap THEN p.double ELSE None,
                      [presses EXCEPT ![k] =
                          IF waits
                          THEN [phase |-> "second", seq |-> number, group |-> p.group,
                                due |-> p.double, tapWaits |-> tap,
                                passed |-> record[k] = "Passed"]
                          ELSE IF isHeld THEN None ELSE p],
                      IF held THEN dueHolds \cup DueOf(k, p) ELSE dueHolds,
                      IF waits THEN [told EXCEPT ![number] = told[p.seq], ![p.seq] = None]
                               ELSE told,
                      IF tap /\ ~waits THEN {<<p.seq, "tap">>} ELSE {})
        /\ Delivered
        /\ UNCHANGED <<now, generation>>

(* A modifier whose key-up went past the hook is freed by a read of its key   *)
(* state, in the drain or ahead of another key (see KeyPath).                 *)
Freed(k) ==
    /\ k \in Modifiers \cap active /\ record[k] # "Suppressed"
    /\ active' = active \ {k}
    /\ settled' = {}
    /\ UNCHANGED <<now, record, presses, dueHolds, seq, generation, timerVars,
                   loop, story>>

(* Engine::reset and the `retain` that follows it, served in the drain: every *)
(* pending gesture goes, and with the new generation every timer.  `passed`   *)
(* are the keys Windows has down, where the reset reads them.                 *)
Reset(keys, records) ==
    /\ loop = "drain" /\ generation < MaxReset
    /\ active' = keys /\ record' = records
    /\ presses' = [k \in Key |-> None] /\ dueHolds' = {}
    /\ generation' = generation + 1
    /\ queue' = {t \in queue : t.generation = generation' /\ Live(t, presses', dueHolds')}
    /\ story' = [s \in 1 .. MaxSeq |-> None] /\ settled' = {}
    /\ UNCHANGED <<now, seq, armed, wake, loop>>

ResetReloaded  == Reset(active, record)
ResetInputLeft == Reset({}, record)
ResetFromOs    ==
    \E down \in SUBSET Key :
        Reset(down, [k \in Key |-> IF k \in down THEN "Passed"
                                   ELSE IF record[k] = "Suppressed" THEN "Suppressed"
                                   ELSE "Unknown"])
-----------------------------------------------------------------------------
(* Gestures::on_timer: the due Hold, or the press, that the timer was started *)
(* for.  Waiting Taps whose windows closed by its due time fire with it.      *)
HoldsOf(t) == {h \in dueHolds : h.key = t.key /\ h.seq = t.seq}

WaitsFor(k, t) ==
    /\ k = t.key /\ presses[k] # None
    /\ presses[k].seq = t.seq /\ TimerDue(presses[k]) # None

Closed_OwnTimerOnly(k, t) == FALSE

Closed(k, t) ==
    /\ presses[k] # None /\ presses[k].phase = "second"
    /\ presses[k].tapWaits /\ presses[k].due <= t.due

OnTimer(t) ==
    LET isHold == HoldsOf(t) # {}
        own    == IF isHold THEN {} ELSE {k \in Key : WaitsFor(k, t)}
        fires  == t.generation = generation /\ (isHold \/ own # {})
        closed == {k \in Key \ own : Closed(k, t)}
        gone   == IF fires THEN own \cup closed ELSE {}
        what(k) == IF presses[k].phase = "held" THEN "hold" ELSE "tap"
    IN  /\ presses' = [k \in Key |-> IF k \in gone THEN None ELSE presses[k]]
        /\ dueHolds' = IF fires THEN dueHolds \ HoldsOf(t) ELSE dueHolds
        /\ Settle(story, {<<presses[k].seq, what(k)>> : k \in gone}
                            \cup IF fires THEN {<<h.seq, "hold">> : h \in HoldsOf(t)} ELSE {})

(* TimerQueue::take_due: the earliest timer due by now, and of those due at   *)
(* the same time the one started first.                                       *)
First(t) ==
    \A u \in queue : t.due < u.due \/ (t.due = u.due /\ t.seq <= u.seq)

DueTimers == {t \in queue : t.due <= now}

(* take_due_timer, in the drain.                                              *)
TakeTimer ==
    /\ loop = "drain"
    /\ \E t \in DueTimers :
        /\ First(t)
        /\ queue' = queue \ {t}
        /\ OnTimer(t)
    /\ UNCHANGED <<now, active, record, seq, generation, armed, wake, loop>>

(* GestureTimers::plan_wake, after a drain that found nothing due: the stale  *)
(* timers go, and the waitable timer is set for the earliest one left.  If    *)
(* Windows refuses, every queued timer is forgotten.                          *)
Planned == {t \in queue : Live(t, presses, dueHolds)}

(* GestureTimers::cancel, of what it had set.  A timer that has signalled, or *)
(* that fails to stop, wakes the loop once more.                              *)
Cancel ==
    /\ armed' = None
    /\ IF armed = None THEN wake' = wake
       ELSE \/ wake' = (IF Reached(wake) THEN wake ELSE None)
            \/ Refusals /\ wake' = wake

PlanWake ==
    /\ loop = "drain" /\ DueTimers = {}
    /\ \/ /\ Planned = {}
          /\ Cancel /\ queue' = {} /\ loop' = "wait"
          /\ UNCHANGED <<presses, dueHolds>> /\ Settle(story, {})
       \/ \E t \in Planned :
            /\ \A u \in Planned : t.due <= u.due
            /\ \/ /\ queue' = Planned
                  /\ armed' = t.due
                  /\ wake' = IF armed = t.due THEN wake ELSE t.due
                  /\ UNCHANGED <<presses, dueHolds>>
                  /\ Settle(story, {})
               \/ LET seqs == {u.seq : u \in Planned}
                  IN  /\ armed # t.due /\ Refused
                      /\ queue' = {}
                      /\ presses' = Forgotten(presses, seqs)
                      /\ dueHolds' = {h \in dueHolds : h.seq \notin seqs}
                      /\ Settle(ToldRefused(story, seqs), {})
            /\ loop' = "wait"
    /\ UNCHANGED <<now, active, record, seq, generation>>

(* The wait ends: the waitable timer signalled, or a message was posted.      *)
Wake ==
    /\ loop = "wait" /\ Reached(wake)
    /\ armed' = None /\ wake' = None /\ loop' = "drain" /\ settled' = {}
    /\ UNCHANGED <<now, engineVars, queue, story>>

Message ==
    /\ loop = "wait"
    /\ loop' = "dispatch" /\ settled' = {}
    /\ UNCHANGED <<now, engineVars, timerVars, story>>

(* The messages are dispatched, and the loop drains again.                    *)
Dispatched ==
    /\ loop = "dispatch"
    /\ loop' = "drain" /\ settled' = {}
    /\ UNCHANGED <<now, engineVars, timerVars, story>>

Tick ==
    /\ now < MaxTime
    /\ now' = now + 1 /\ settled' = {}
    /\ UNCHANGED <<engineVars, timerVars, loop, story>>
-----------------------------------------------------------------------------
Next ==
    \/ \E k \in Key :
        \/ \E group \in {g \in Group : g.key = k} \cup {None}, swallow \in BOOLEAN :
              KeyDown(k, group, swallow)
        \/ KeyUp(k)
        \/ Freed(k)
    \/ ResetReloaded \/ ResetInputLeft \/ ResetFromOs
    \/ TakeTimer \/ PlanWake \/ Wake \/ Message \/ Dispatched
    \/ Tick

(* The main loop goes on: it drains what is due, plans the wake, takes the    *)
(* timer's signal, and returns from its messages.                             *)
Loop == TakeTimer \/ PlanWake \/ Wake \/ Dispatched

Spec == Init /\ [][Next]_vars
-----------------------------------------------------------------------------
(* What a press should do, by the times of the key events alone.  It is a     *)
(* Hold if nothing ended it before the Hold's term: no key-up, no new press   *)
(* of its key, and no other key where its key-down passed.                    *)
HeldOut(st, at) ==
    /\ st.group.hold # None /\ ~st.refused
    /\ LET due == st.down + st.group.hold
       IN  /\ at >= due
           /\ \A end \in {st.up, st.again} \cup (IF st.passed THEN {st.other} ELSE {}) :
                 end # None => end >= due

InTerm(st, term) == term # None /\ st.up < st.down + term

Verdict(st, at) ==
    LET tap    == InTerm(st, st.group.tap)
        window == InTerm(st, st.group.double)
        ends   == st.down + st.group.double
        cut    == st.outside /\ (tap \/ st.passed)
    IN  IF HeldOut(st, at) THEN "hold"
        ELSE IF st.up = None \/ (st.passed /\ st.other # None) THEN "nothing"
        ELSE IF window /\ ~cut /\ st.again # None /\ st.again < ends
                    /\ st.byGroup = st.group THEN "double"
        ELSE IF tap /\ (window => cut \/ st.again # None \/ at >= ends) THEN "tap"
        ELSE "nothing"

(* Every press ends once, with the one gesture that the times of the key      *)
(* events name, or with none: a timer that runs late, one of an earlier press *)
(* or one that Windows refused changes no other outcome.  And a Hold never    *)
(* overtakes an entry whose timer is due earlier, also where the main loop    *)
(* comes late to both.                                                        *)
Overtaken(due) ==
    \/ \E h \in dueHolds : h.due < due
    \/ \E k \in Key : presses[k] # None /\ TimerDue(presses[k]) # None
                         /\ TimerDue(presses[k]) < due

OutcomeByClock ==
    \A e \in settled :
        /\ e.story # None /\ e.outcome = Verdict(e.story, e.at)
        /\ e.outcome = "hold" => ~Overtaken(e.story.down + e.story.group.hold)

(* The timer that an entry waits for is queued, except that of a waiting Tap  *)
(* which Windows refused: no Hold waits for a wake that never comes.  And the *)
(* main loop never waits past the due time of a timer that is awaited.        *)
Queued(k, number, due) ==
    [key |-> k, seq |-> number, generation |-> generation, due |-> due] \in queue

Covered(k, p) ==
    p # None /\ TimerDue(p) # None =>
        \/ Queued(k, p.seq, TimerDue(p))
        \/ p.phase = "second" /\ story[p.seq].refused

TimersKept ==
    /\ \A h \in dueHolds : Queued(h.key, h.seq, h.due)
    /\ \A k \in Key : Covered(k, presses[k])
    /\ loop = "wait" =>
          \A t \in queue : Live(t, presses, dueHolds) => wake # None /\ wake <= t.due

EntriesKept == TypeOK /\ TimersKept

(* An entry waits for a timer that is queued.                                 *)
Awaited(s) ==
    \E t \in queue : t.seq = s /\ t.due <= MaxTime /\ Live(t, presses, dueHolds)
=============================================================================
