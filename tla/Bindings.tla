------------------------------ MODULE Bindings ------------------------------
(* What the bindings of a configuration make of the key-downs: the winner and *)
(* its gesture group, the auto-blockers, and the chords and sequences with    *)
(* their expiry timers.  Engine::on_key_down, on_timer, start_timers and reset*)
(* of src/engine/mod.rs, with src/engine/chords.rs and sequences.rs.          *)
(*                                                                            *)
(* KeyPath has the rest of the key table, the masks that follow from an event *)
(* and events that the hook does not see: here the flags are right, and       *)
(* Windows has down what was passed.  Gestures has what becomes of a gesture  *)
(* group once it is armed.  Each event of a key is a step of its own.         *)
(*                                                                            *)
(* `log` and `decision` are history variables: no action reads them, but for  *)
(* the bound on `log`.                                                        *)
EXTENDS Winner

CONSTANTS
    Files,     \* the configurations: sequences of bindings in file order
    Sent,      \* the codes that the user of a configuration sends
    Views,     \* the sets of conditions that may hold together
    MaxTime,   \* bound: the clock's last tick
    MaxLog,    \* bound: the key-downs fed to chords and sequences
    MaxReset   \* bound: the number of resets

ASSUME BindingsAssumption ==
    /\ MaxTime \in Nat /\ MaxLog \in Nat /\ MaxReset \in Nat
    /\ Sent \in [Files -> SUBSET Code]
    /\ Views \subseteq SUBSET Condition /\ \A v \in Views : Always \in v

(* What the loader makes of a file: combos, chords, and sequences of at least *)
(* two steps.  No code presses all keys of a chord.  A name stands for an     *)
(* action, and says here which kind of binding acted.                         *)
ComboBinding ==
    [kind : {"combo"}, name : STRING, keys : SUBSET KeySpec, when : Condition,
     trigger : Deferred \cup {"immediate"}, extra : BOOLEAN, block : BOOLEAN,
     repeat : BOOLEAN, blocker : {"no", "swallow", "mask"}]
ChordBinding ==
    [kind : {"chord"}, name : STRING, keys : SUBSET KeySpec, when : Condition, term : Nat]
SequenceBinding ==
    [kind : {"sequence"}, name : STRING, steps : Seq(SUBSET KeySpec), when : Condition,
     term : Nat]

ASSUME FilesAssumption == \A f \in Files :
    /\ f \in Seq(ComboBinding \cup ChordBinding \cup SequenceBinding)
    /\ \A i \in DOMAIN f :
          /\ IF f[i].kind = "sequence" THEN Len(f[i].steps) > 1 ELSE IsFiniteSet(f[i].keys)
          /\ f[i].kind = "chord" => \A c \in Code : \E spec \in f[i].keys : c \notin spec
    /\ \A i, j \in DOMAIN f : f[i].kind # f[j].kind => f[i].name # f[j].name

VARIABLES
    file,       \* the configuration, constant in a behaviour
    list,       \* its bindings in the order of the engine
    now,        \* the clock
    active,     \* KeyState: the codes held
    record,     \* KeyState: what became of each code's latest key-down
    chords,     \* Chords::pending
    sequences,  \* Sequences::pending
    seq,        \* Ids: the latest number given
    generation, \* Ids: the number of resets
    queue,      \* TimerQueue: the expiry timers asked for
    refused,    \* history: the pending numbers whose timer Windows refused
    log,        \* history: the key-downs fed to chords and sequences
    decision    \* history: what the latest step decided

tables == <<chords, sequences, seq, queue, refused>>
vars == <<file, list, now, active, record, tables, generation, log, decision>>

(* One pending attempt for a set of chord keys, and one for a list of steps.  *)
PendingChord == [keys : SUBSET KeySpec, seen : SUBSET Code, name : STRING,
                 due : Nat, seq : Nat]
PendingSequence == [steps : Seq(SUBSET KeySpec), next : Nat, name : STRING,
                    due : Nat, seq : Nat]
Timer == [slot : {"chord", "sequence"}, seq : Nat, generation : 0 .. MaxReset,
          due : Nat]

Nothing == [vk |-> "none", holds |-> {}, first |-> FALSE, fed |-> FALSE,
            swallow |-> FALSE, mask |-> FALSE, fire |-> <<>>, arm |-> {}]

TypeOK ==
    /\ now \in 0 .. MaxTime
    /\ active \subseteq Code /\ record \in [Code -> LastDown]
    /\ chords \subseteq PendingChord
    /\ \A e \in sequences : e \in PendingSequence /\ e.next \in 1 .. Len(e.steps) - 1
    /\ \A e, f \in chords : e.keys = f.keys => e = f
    /\ \A e, f \in sequences : e.steps = f.steps => e = f
    /\ seq \in Nat /\ generation \in 0 .. MaxReset
    /\ queue \subseteq Timer

Init ==
    /\ file \in Files /\ list = Sorted(file) /\ now = 0
    /\ active = {} /\ record = [c \in Code |-> "Unknown"]
    /\ chords = {} /\ sequences = {} /\ seq = 0 /\ generation = 0
    /\ queue = {} /\ refused = {} /\ log = <<>> /\ decision = Nothing
-----------------------------------------------------------------------------
(* A feed takes the state `s` of the scan of the list to the next binding: the*)
(* two tables, the records, the number given last, the timers asked for, and  *)
(* what the event is to do.  Mutants are written as <name>_<bug>.             *)
Ask(s, slot, due) ==
    [s EXCEPT !.swallow = TRUE,
              !.timers = @ \cup {[slot |-> slot, seq |-> s.seq,
                                  generation |-> generation, due |-> due]}]

Complete(s, name, keys) ==
    [s EXCEPT !.swallow = TRUE, !.fire = Append(@, name),
              !.record = Completed(active', @, keys)]

Unexpired_Inclusive(entries) == {e \in entries : e.due >= now}

Unexpired(entries) == {e \in entries : e.due > now}

(* Chords::on_key_down: the first key-down opens an attempt.                  *)
AllSeen_FirstAgain(keys, seen) == TRUE

AllSeen(keys, seen) == \A spec \in keys : spec \cap seen # {}

FeedChord(s, b, vk) ==
    LET live  == Unexpired(s.chords)
        entry == CHOOSE e \in live : e.keys = b.keys
        more  == [entry EXCEPT !.seen = @ \cup {vk}]
        fresh == [keys |-> b.keys, seen |-> {vk}, name |-> b.name,
                  due |-> now + b.term, seq |-> s.seq]
    IN  IF vk \notin UNION b.keys THEN s
        ELSE IF \A e \in live : e.keys # b.keys
        THEN Ask([s EXCEPT !.chords = live \cup {fresh}], "chord", fresh.due)
        ELSE IF AllSeen(b.keys, more.seen)
        THEN Complete([s EXCEPT !.chords = live \ {entry}], entry.name, more.seen)
        ELSE [s EXCEPT !.chords = (live \ {entry}) \cup {more}, !.swallow = TRUE]

(* The codes of the last step's keys that are no modifiers.                   *)
LastStepKeys(steps) == UNION {spec \in Last(steps) : ~IsModifier(spec)}

(* A step on gives the attempt a new deadline and a new number.               *)
Advanced_KeepsNumber(entry, due, n) == [entry EXCEPT !.next = @ + 1, !.due = due]

Advanced(entry, due, n) == [entry EXCEPT !.next = @ + 1, !.due = due, !.seq = n]

AtEnd(entry) == entry.next = Len(entry.steps)

(* Sequences::on_key_down: a feed that does not advance the pending attempt   *)
(* ends it, and may start it afresh.                                          *)
FeedSequence(s, b) ==
    LET live  == Unexpired(s.sequences)
        entry == CHOOSE e \in live : e.steps = b.steps
        rest  == {e \in live : e.steps # b.steps}
        after == Advanced(entry, now + b.term, s.seq)
        fresh == [steps |-> b.steps, next |-> 1, name |-> b.name,
                  due |-> now + b.term, seq |-> s.seq]
        Begin(e) == Ask([s EXCEPT !.sequences = rest \cup {e}], "sequence", e.due)
    IN  IF rest # live /\ KeysDown(b.steps[entry.next + 1], active')
        THEN IF AtEnd(after)
             THEN Complete([s EXCEPT !.sequences = rest], entry.name, LastStepKeys(b.steps))
             ELSE Begin(after)
        ELSE IF KeysDown(b.steps[1], active') THEN Begin(fresh)
        ELSE [s EXCEPT !.sequences = rest]

(* What the combo at `i` does where `won` won: a blocker swallows or masks the*)
(* hotkey that Windows would see, and an Immediate winner fires.              *)
WindowsHas == {c \in active' : record[c] = "Passed"}

ScanCombo(s, i, won, vk, holds, repeat) ==
    LET b == list[i]
        matches == BlockerMatches(b.keys, vk, active', WindowsHas \ {vk})
    IN  CASE b.blocker # "no" ->
               IF ~(matches /\ b.when \in holds) THEN s
               ELSE IF b.blocker = "swallow" THEN [s EXCEPT !.swallow = TRUE]
               ELSE [s EXCEPT !.mask = @ \/ ~repeat]
          [] b.blocker = "no" /\ i = won /\ b.trigger = "immediate" ->
               [s EXCEPT !.fire = IF ~repeat \/ b.repeat THEN Append(@, b.name) ELSE @,
                         !.swallow = @ \/ b.block]
          [] OTHER -> s

(* What the binding at `i` does.  A repeat or a false condition feeds no chord*)
(* and no sequence; every feed takes a number.                                *)
ScanBinding(s, i, won, vk, holds, repeat) ==
    LET b == list[i]
        n == [s EXCEPT !.seq = @ + 1]
    IN  IF b.kind = "combo" THEN ScanCombo(s, i, won, vk, holds, repeat)
        ELSE IF repeat \/ b.when \notin holds THEN s
        ELSE IF b.kind = "chord" THEN FeedChord(n, b, vk)
        ELSE FeedSequence(n, b)

(* The scan, in list order.                                                   *)
Scan(start, won, vk, holds, repeat) ==
    LET after[i \in 0 .. Len(list)] ==
            IF i = 0 THEN start ELSE ScanBinding(after[i - 1], i, won, vk, holds, repeat)
    IN  after[Len(list)]
-----------------------------------------------------------------------------
IsLive(t, inChords, inSequences) ==
    /\ t.generation = generation
    /\ \E e \in (IF t.slot = "chord" THEN inChords ELSE inSequences) : e.seq = t.seq

(* Engine::start_timers: stale timers go first.  Where Windows refuses to set *)
(* the waitable timer, the new ones are not queued (`lost`), and their entries*)
(* stay (GestureTimers::start, forget_timer).                                 *)
Started(timers, lost) ==
    IF timers = {} THEN queue
    ELSE {t \in queue : IsLive(t, chords', sequences')} \cup (timers \ lost)

(* Whether a chord or a sequence takes the key-down.                          *)
IsFed(vk, holds) ==
    \E i \in DOMAIN list : /\ list[i].kind # "combo" /\ list[i].when \in holds
                           /\ list[i].kind = "chord" => vk \in UNION list[i].keys

StillRefused(lost) ==
    refused' = (refused \cup {t.seq : t \in lost}) \cap {e.seq : e \in chords' \cup sequences'}

KeyDown(vk, holds) ==
    LET repeat == vk \in active
        logged == ~repeat /\ IsFed(vk, holds)
        won    == Elect(list, vk, active', holds)
        group  == IF won = 0 \/ repeat THEN {} ELSE DeferredGroup(list, won, vk, active')
        start  == [chords |-> chords, sequences |-> sequences, record |-> record,
                   seq |-> seq, timers |-> {}, fire |-> <<>>, mask |-> FALSE,
                   swallow |-> \E i \in group : list[i].block]
    IN  /\ active' = active \cup {vk}
        /\ \E end \in {Scan(start, won, vk, holds, repeat)} :
             /\ chords' = end.chords /\ sequences' = end.sequences /\ seq' = end.seq
             /\ record' = [end.record EXCEPT ![vk] = RecordOfDown(repeat, @, end.swallow)]
             /\ \E lost \in {{}, end.timers} :
                   queue' = Started(end.timers, lost) /\ StillRefused(lost)
             /\ decision' =
                  [vk |-> vk, holds |-> holds, first |-> ~repeat, fed |-> logged,
                   swallow |-> DownSwallowed(repeat, end.record[vk], end.swallow),
                   mask |-> end.mask, fire |-> end.fire, arm |-> {list[i].name : i \in group}]
        /\ log' = IF ~logged THEN log
                  ELSE Append(log, [vk |-> vk, at |-> now, held |-> active',
                                    holds |-> holds, era |-> generation])
        /\ UNCHANGED <<file, list, now, generation>>

(* Engine::on_key_up, of a press the engine knows: its record is consumed.    *)
KeyUp(vk) ==
    /\ vk \in active
    /\ active' = active \ {vk}
    /\ record' = [record EXCEPT ![vk] = "Unknown"]
    /\ decision' = Nothing
    /\ UNCHANGED <<file, list, now, tables, generation, log>>

(* Engine::on_timer of the earliest timer due, as take_due hands it out.      *)
ExpireOf(entries, n) == {e \in entries : e.seq # n}

OnTimer ==
    /\ \E t \in queue :
        /\ t.due <= now /\ \A u \in queue : t.due < u.due \/ (t.due = u.due /\ t.seq <= u.seq)
        /\ queue' = queue \ {t}
        /\ chords' = IF t.slot = "chord" /\ t.generation = generation
                     THEN ExpireOf(chords, t.seq) ELSE chords
        /\ sequences' = IF t.slot = "sequence" /\ t.generation = generation
                        THEN ExpireOf(sequences, t.seq) ELSE sequences
    /\ StillRefused({}) /\ decision' = Nothing
    /\ UNCHANGED <<file, list, now, active, record, seq, generation, log>>

(* Windows refuses to set the waitable timer: every queued timer is forgotten *)
(* (GestureTimers::plan_wake), and forget_timer keeps the entries.            *)
Refuse ==
    /\ queue # {}
    /\ queue' = {}
    /\ refused' = {e.seq : e \in chords \cup sequences}
    /\ decision' = Nothing
    /\ UNCHANGED <<file, list, now, active, record, chords, sequences, seq,
                   generation, log>>

(* Engine::reset on a reload, which keeps the key table; the timers stay      *)
(* queued and are stale.                                                      *)
Reset ==
    /\ generation < MaxReset /\ log # <<>>
    /\ chords' = {} /\ sequences' = {}
    /\ generation' = generation + 1
    /\ refused' = {} /\ decision' = Nothing
    /\ UNCHANGED <<file, list, now, active, record, seq, queue, log>>

Tick ==
    /\ now < MaxTime
    /\ now' = now + 1
    /\ decision' = Nothing
    /\ UNCHANGED <<file, list, active, record, tables, generation, log>>

(* Once the log is full only the timers still to come are handed out.         *)
Next ==
    \/ /\ Len(log) < MaxLog
       /\ \/ \E vk \in Sent[file] : KeyUp(vk) \/ \E holds \in Views : KeyDown(vk, holds)
          \/ Refuse \/ Reset \/ Tick
    \/ OnTimer

Spec == Init /\ [][Next]_vars
-----------------------------------------------------------------------------
(* One `keys` binding acts on a key-down, with its gesture group: the one of  *)
(* most keys, of those one with a condition, of those the first in the file;  *)
(* no group member is left out by a place in the list, and no other binding   *)
(* fires or arms in the winner's place, on a repeat either.                   *)
Weight(b) == 2 * Cardinality(b.keys) + (IF b.when = Always THEN 0 ELSE 1)

Rivals == {i \in DOMAIN file : Candidate(file[i], decision.vk, active, decision.holds)}

FirstBest ==
    CHOOSE i \in Rivals :
        \A j \in Rivals \ {i} :
            \/ Weight(file[i]) > Weight(file[j])
            \/ Weight(file[i]) = Weight(file[j]) /\ i < j

Group(b) == {i \in Rivals : /\ file[i].keys = b.keys /\ file[i].when = b.when
                            /\ {b.trigger, file[i].trigger} \subseteq Deferred}

IsCombo(name) == \E i \in DOMAIN file : file[i].kind = "combo" /\ file[i].name = name

OneWinner ==
    decision.vk # "none" =>
        LET fired == {n \in DOMAIN decision.fire : IsCombo(decision.fire[n])}
            best  == file[FirstBest]
        IN  IF Rivals = {} THEN fired = {} /\ decision.arm = {}
            ELSE /\ IF best.trigger = "immediate" /\ (decision.first \/ best.repeat)
                    THEN \E n \in fired : fired = {n} /\ decision.fire[n] = best.name
                    ELSE fired = {}
                 /\ decision.arm =
                      {file[i].name : i \in
                          {i \in Group(best) : decision.first /\
                              \A j \in Group(best) :
                                  file[j].trigger = file[i].trigger => i <= j}}

(* No two chords of the same keys, and no two sequences of the same steps,    *)
(* are at work together: they would share one pending attempt.  Both          *)
(* properties by the clock are about such configurations.  The loader warns   *)
(* of two such bindings with the same condition, and keeps them.              *)
NoneShared ==
    \A f \in Files, view \in Views : \A i, j \in DOMAIN f :
        /\ f[i].kind = f[j].kind /\ f[i].when \in view /\ f[j].when \in view
        /\ \/ f[i].kind = "chord" /\ f[i].keys = f[j].keys
           \/ f[i].kind = "sequence" /\ f[i].steps = f[j].steps
        => i = j

(* What the chords fire, by the times of the key-downs alone.  A key-down is  *)
(* for a chord if a binding of these keys takes it.  The first one opens an   *)
(* attempt, which covers the key-downs less than the term after it, until all *)
(* its keys were pressed.  A late, stale or refused timer changes nothing.    *)
For(kind, keys, i) ==
    {j \in DOMAIN file :
        /\ log[i].era = generation
        /\ file[j].kind = kind /\ file[j].when \in log[i].holds
        /\ IF kind = "chord" THEN file[j].keys = keys /\ log[i].vk \in UNION keys
                             ELSE file[j].steps = keys}

Covered(keys, from, to) ==
    \A spec \in keys :
        \E i \in from .. to : For("chord", keys, i) # {} /\ log[i].vk \in spec

BindingOf(kind, keys, i) == file[CHOOSE j \in For(kind, keys, i) : TRUE]

OpensAt(keys, opens, i) ==
    /\ For("chord", keys, i) # {}
    /\ \A r \in 1 .. i - 1 :
          \/ ~opens[r]
          \/ log[i].at >= log[r].at + BindingOf("chord", keys, r).term
          \/ Covered(keys, r, i - 1)

Opens(keys) ==
    LET opens[i \in 1 .. Len(log)] == OpensAt(keys, opens, i)
    IN  {i \in 1 .. Len(log) : opens[i]}

ChordsDue(n) ==
    {BindingOf("chord", p[1], p[2]).name : p \in
        {q \in {file[j].keys : j \in {j \in DOMAIN file : file[j].kind = "chord"}}
                 \X (1 .. n - 1) :
            /\ q[2] \in Opens(q[1]) /\ For("chord", q[1], n) # {}
            /\ log[n].at < log[q[2]].at + BindingOf("chord", q[1], q[2]).term
            /\ Covered(q[1], q[2], n) /\ ~Covered(q[1], q[2], n - 1)}}

Fired(kind) ==
    {name \in ToSet(decision.fire) :
        \E j \in DOMAIN file : file[j].name = name /\ file[j].kind = kind}

ChordsByClock ==
    Fired("chord") = IF decision.fed THEN ChordsDue(Len(log)) ELSE {}

(* And the sequences: the key-downs that a sequence's bindings take go one    *)
(* step on, each less than the term after the one before, or back to the      *)
(* start; at the last step the action of the start fires.                     *)
NoPath == [done |-> 0, name |-> "none", until |-> 0]

PathStep(steps, p, i) ==
    LET b == BindingOf("sequence", steps, i)
        on == 0 < p.done /\ p.done < Len(steps) /\ log[i].at < p.until
        next == IF on THEN p.done + 1 ELSE 1
    IN  IF For("sequence", steps, i) = {}
        THEN IF p.done = Len(steps) THEN [p EXCEPT !.done = 0] ELSE p
        ELSE IF on /\ KeysDown(steps[next], log[i].held)
        THEN [p EXCEPT !.done = next, !.until = log[i].at + b.term]
        ELSE IF KeysDown(steps[1], log[i].held)
        THEN [done |-> 1, name |-> b.name, until |-> log[i].at + b.term]
        ELSE NoPath

Path(steps) ==
    LET path[i \in 0 .. Len(log)] ==
            IF i = 0 THEN NoPath ELSE PathStep(steps, path[i - 1], i)
    IN  path[Len(log)]

SequencesByClock ==
    Fired("sequence") =
        IF ~decision.fed THEN {}
        ELSE {Path(steps).name : steps \in
                 {s \in {file[j].steps : j \in {j \in DOMAIN file : file[j].kind = "sequence"}} :
                     Path(s).done = Len(s)}}

(* A pending chord or sequence always ends without another key-down: its      *)
(* timer, with its present number and deadline, is queued unless Windows      *)
(* refused to set one.                                                        *)
Expires(slot, e) ==
    \/ e.seq \in refused
    \/ [slot |-> slot, seq |-> e.seq, generation |-> generation, due |-> e.due] \in queue

ExpiryTimed ==
    /\ \A e \in chords : Expires("chord", e)
    /\ \A e \in sequences : Expires("sequence", e)

(* The tables of pending chords and sequences have their types, with one      *)
(* attempt for a set of keys or for steps, and each attempt has its timer     *)
(* queued (chords.rs, sequences.rs, TimerQueue).                              *)
TablesKept == TypeOK /\ ExpiryTimed

(* Windows never gets a key-down that completes a blocked hotkey and nothing  *)
(* else, or gets the mask with it, whatever else is held that it has up.      *)
HotkeyKept ==
    \A i \in DOMAIN file :
        LET b    == file[i]
            down == {c \in active : record[c] = "Passed"}
        IN  /\ b.kind = "combo" /\ b.blocker # "no" /\ b.when \in decision.holds
            /\ decision.first /\ ~decision.swallow
            /\ IsTriggerKey(b.keys, decision.vk)
            /\ KeysDown(b.keys, down) /\ down \subseteq UNION b.keys
            => b.blocker = "mask" /\ decision.mask
=============================================================================
