------------------------------ MODULE Executor ------------------------------
(* The action executor: the bounded queue of fired jobs, the loop of its      *)
(* thread with its Delay timer (src/core/executor/mod.rs), and the runs and   *)
(* held jobs that the loop starts and polls (src/core/executor/runs.rs).      *)
(*                                                                            *)
(* A try of a Paste and of its restore (src/core/executor/paste.rs) is what   *)
(* it does to the loop: it waits, is over, or leaves a restore that waits.    *)
(* Deadlines are kept as the time to go, in ticks; an epoch is the present    *)
(* one (live) or an older one.  `turn` and `disobeyed` are history variables. *)
EXTENDS SequencesExt, Naturals

CONSTANTS
    Capacity,      \* QUEUE_CAPACITY, of the queue and of the held jobs, in
                   \* each of the Environments
    Macros,        \* the steps of the macros that may be fired
    None,          \* no deadline, no attempt, no restore
    Longest,       \* bound: the ticks of a deadline
    MaxTries,      \* bound: the waits of a Paste, which its limits end
    MaxJobs,       \* bound: the jobs and runs at once, in each of them
    MaxWakes,      \* bound: the WAKE messages at once
    Environments   \* what may happen in a behaviour, sets of Features

Features == {"launch",   \* actions are fired that are no Paste and no macro
             "macro",    \* macros without a Paste are fired
             "paste",    \* Pastes are fired, and macros with Paste steps
             "crowd",    \* more jobs are fired than the queue has places for
             "cancel",   \* remapping is switched, or the configuration reloaded
             "stop",     \* the executor is asked to stop
             "pump",     \* an action takes this thread's messages
             "panic",    \* an action panics
             "timer",    \* Windows refuses to set or to stop the Delay timer
             "quit",     \* WM_QUIT is posted to the thread
             "fail"}     \* the wait fails

ASSUME ExecutorAssumption ==
    /\ \A e \in Environments : Capacity[e] \in Nat \ {0} /\ MaxJobs[e] \in Nat
    /\ Longest \in Nat \ {0} /\ MaxTries \in Nat /\ MaxWakes \in Nat
    /\ None \notin Nat
    /\ Environments \subseteq SUBSET Features
    /\ Macros \subseteq Seq({"call", "delay", "forever", "paste"})

VARIABLES
    env,         \* the Features of this behaviour
    queue,       \* the jobs sent and not taken
    posting,     \* the handle's thread is about to post a WAKE
    wakes,       \* the WAKE messages in the thread's queue
    stopping,    \* Shared: stopping
    held,        \* Runs: the jobs that a waiting paste holds back
    active,      \* Runs: the macros and pastes that run, oldest first
    restore,     \* PasteSession: the restore that waits, or None
    loop,        \* where the thread's loop is
    index,       \* in a poll, the run to advance next
    final,       \* the poll after the drain
    calls,       \* the pass made a runner call
    pumping,     \* an action that takes this thread's messages is running
    ending,      \* why the loop ends, if it does
    until,       \* Ending: the time to go of the closing mode
    armed,       \* DelayTimer: the deadline the timer is set for, or None
    signal,      \* Windows: when the timer signals, or None
    turn,        \* history: turns over with every job that begins
    disobeyed    \* history: a cancelled job or run called its runner

handles == <<env, posting>>
queues  == <<queue, held, active, turn, disobeyed>>
pass    == <<final, calls, pumping>>
place   == <<loop, index, pass>>
end     == <<stopping, ending, until>>
timer   == <<armed, signal>>
vars    == <<handles, wakes, queues, place, end, timer, restore>>

Time    == 0 .. Longest
Kinds   == {"action", "paste", "macro"}
Stretch == UNION {{SubSeq(m, i, Len(m)) : i \in 1 .. Len(m) + 1} : m \in Macros}
Steps   == {<<>>, <<"paste">>} \cup Stretch

(* A job carries the steps that it still has as a run.                        *)
Job == [kind : Kinds, steps : Steps, live : BOOLEAN]
Run == [kind : Kinds, steps : Steps, live : BOOLEAN, resume : Time \cup {None},
        attempt : (0 .. MaxTries) \cup {None}]

(* The restore is `due` once it was decided; `sent` says that a keystroke     *)
(* went out, whose target is probed first.                                    *)
Restore == [at : Time, due : BOOLEAN, sent : BOOLEAN]

TypeOK ==
    /\ env \in Environments
    /\ queue \in Seq(Job) /\ Len(queue) <= Capacity[env]
    /\ held \in Seq(Job) /\ Len(held) <= Capacity[env]
    /\ active \in Seq(Run)
    /\ posting \in BOOLEAN /\ wakes \in 0 .. MaxWakes
    /\ stopping \in BOOLEAN
    /\ restore \in Restore \cup {None}
    /\ loop \in {"drain", "poll", "advance", "arm", "wait", "close", "ended"}
    /\ index \in 1 .. Len(active) + 1
    /\ final \in BOOLEAN /\ calls \in BOOLEAN /\ pumping \in BOOLEAN
    /\ ending \in {"none", "stopped", "died"} /\ until \in Time
    /\ armed \in Time \cup {None} /\ signal \in Time \cup {None}
    /\ turn \in BOOLEAN /\ disobeyed \in BOOLEAN

Init ==
    /\ env \in Environments
    /\ queue = <<>> /\ posting = FALSE /\ wakes = 0 /\ stopping = FALSE
    /\ held = <<>> /\ active = <<>> /\ restore = None
    /\ loop = "drain" /\ index = 1 /\ final = FALSE /\ calls = FALSE /\ pumping = FALSE
    /\ ending = "none" /\ until = 0
    /\ armed = None /\ signal = None
    /\ turn = FALSE /\ disobeyed = FALSE
-----------------------------------------------------------------------------
(* The handles, on the daemon's main thread.                                  *)
HasPaste(steps) == \E i \in DOMAIN steps : steps[i] = "paste"

Fired ==
    {[kind |-> "macro", steps |-> m, live |-> TRUE] :
        m \in {m \in Macros : (IF HasPaste(m) THEN "paste" ELSE "macro") \in env}}
    \cup {[kind |-> "action", steps |-> <<>>, live |-> TRUE] : on \in {"launch"} \cap env}
    \cup {[kind |-> "paste", steps |-> <<"paste">>, live |-> TRUE] : on \in {"paste"} \cap env}

Room ==
    /\ wakes < MaxWakes
    /\ Len(queue) + Len(held) + Len(active) < MaxJobs[env]
    /\ "crowd" \in env \/ Len(queue) + Len(held) < Capacity[env]

(* submit, to a queue that is not full; a full one takes nothing, and nothing *)
(* wakes the executor.  The WAKE is posted after the job is in the queue.     *)
Submit ==
    /\ ~posting /\ loop # "ended" /\ Room /\ Len(queue) < Capacity[env]
    /\ \E job \in Fired : queue' = Append(queue, job)
    /\ posting' = TRUE
    /\ UNCHANGED <<env, wakes, held, active, turn, disobeyed, place, end, timer, restore>>

Cancelled(work) == [i \in DOMAIN work |-> [work[i] EXCEPT !.live = FALSE]]

CancelPending ==
    /\ ~posting /\ loop # "ended" /\ wakes < MaxWakes
    /\ queue' = Cancelled(queue) /\ held' = Cancelled(held) /\ active' = Cancelled(active)
    /\ posting' = TRUE
    /\ UNCHANGED <<env, wakes, turn, disobeyed, place, timer, restore, ending, until>>

Cancel == "cancel" \in env /\ CancelPending /\ UNCHANGED stopping
Stop   == "stop" \in env /\ ~stopping /\ stopping' = TRUE /\ CancelPending

PostWake ==
    /\ posting /\ posting' = FALSE
    /\ wakes' = IF loop = "ended" THEN wakes ELSE wakes + 1
    /\ UNCHANGED <<env, queues, place, end, timer, restore>>
-----------------------------------------------------------------------------
(* The runs.                                                                  *)
Live(work) == work.live /\ ~stopping
AttemptWaits == \E i \in DOMAIN active : active[i].attempt # None
PasteWaits ==
    \/ \E i \in DOMAIN active : active[i].kind = "paste"
    \/ \E i \in DOMAIN held : held[i].kind = "paste"

(* A runner call.  Until it returns, an action may take the WAKE messages     *)
(* that wait or come in.                                                      *)
Call(work) ==
    /\ calls' = TRUE
    /\ disobeyed' = (disobeyed \/ ~Live(work))
    /\ pumping' = ("pump" \in env)

CallReturns ==
    /\ pumping /\ pumping' = FALSE
    /\ wakes' \in 0 .. wakes
    /\ UNCHANGED <<handles, queues, loop, index, final, calls, end, timer, restore>>

(* begin: any job but a macro and a paste runs at once.                       *)
Begin(job) ==
    /\ turn' = ~turn
    /\ \/ /\ job.kind = "action"
          /\ Call(job) /\ UNCHANGED active
       \/ /\ job.kind # "action"
          /\ active' = Append(active, [kind |-> job.kind, steps |-> job.steps,
                                       live |-> job.live, resume |-> 0, attempt |-> None])
          /\ UNCHANGED <<calls, disobeyed, pumping>>

(* What start does not begin: a cancelled job, a Paste while one waits, and   *)
(* any job while a paste waits between its tries.                             *)
Refused_NotCancelled(job) == job.kind = "paste" /\ PasteWaits
Refused(job) == ~Live(job) \/ (job.kind = "paste" /\ PasteWaits)

HoldsBack_NotActions(job) == AttemptWaits /\ job.kind # "action"
HoldsBack(job) == AttemptWaits

Start(job) ==
    \/ Refused(job) /\ UNCHANGED <<held, active, turn, calls, disobeyed, pumping>>
    \/ /\ ~Refused(job) /\ HoldsBack(job)
       /\ held' = Append(held, job)
       /\ UNCHANGED <<active, turn, calls, disobeyed, pumping>>
    \/ ~Refused(job) /\ ~HoldsBack(job) /\ Begin(job) /\ UNCHANGED held

CanTake == Len(held) < Capacity[env]
-----------------------------------------------------------------------------
(* The loop: the drain takes jobs, oldest first, each followed by a poll, and *)
(* ends with one more poll.                                                   *)
Draining == loop = "drain" /\ ending = "none" /\ ~stopping

TakeJob ==
    /\ Draining /\ CanTake /\ queue # <<>>
    /\ queue' = Tail(queue)
    /\ Start(Head(queue))
    /\ loop' = "poll" /\ final' = FALSE
    /\ UNCHANGED <<handles, wakes, end, timer, restore, index>>

DrainEnds ==
    /\ Draining /\ (~CanTake \/ queue = <<>>)
    /\ loop' = "poll" /\ final' = TRUE
    /\ UNCHANGED <<handles, wakes, queues, end, timer, restore, index, calls, pumping>>

(* The closing mode, once a stop was asked for.                               *)
StopSeen ==
    /\ loop = "drain" /\ ending = "none" /\ stopping
    /\ ending' = "stopped" /\ until' = Longest
    /\ loop' = "close"
    /\ UNCHANGED <<handles, wakes, queues, stopping, timer, restore, index, pass>>

(* The session decides at the restore's deadline whether it is due: its       *)
(* target is probed, and puts it off while it does not answer.                *)
Undecided == restore # None /\ ~restore.due /\ restore.at = 0

SessionTicks ==
    \/ ~Undecided /\ UNCHANGED <<restore, calls>>
    \/ /\ Undecided
       /\ restore' = [restore EXCEPT !.due = TRUE]
       /\ calls' \in {calls, calls \/ restore.sent}
    \/ /\ Undecided /\ restore.sent
       /\ \E at \in Time \ {0} : restore' = [restore EXCEPT !.at = at]
       /\ calls' = TRUE
    \/ /\ Undecided /\ restore.sent /\ "panic" \in env
       /\ restore' = None /\ calls' = TRUE

(* What is at some places of the runs or of the held jobs, in its order.      *)
Only(work, places) ==
    {[i \in DOMAIN at |-> work[at[i]]] :
        at \in {at \in [1 .. Cardinality(places) -> places] :
                   \A i, j \in DOMAIN at : i < j => at[i] < at[j]}}

(* poll begins: what was cancelled goes.                                      *)
Retained(work) == Only(work, {i \in DOMAIN work : Live(work[i])})

PollBegins ==
    /\ loop = "poll" /\ loop' = "advance" /\ index' = 1
    /\ active' \in Retained(active) /\ held' \in Retained(held)
    /\ SessionTicks
    /\ UNCHANGED <<handles, wakes, queue, turn, disobeyed, final, pumping, end, timer>>

(* advance_from and advance: each due run goes on, oldest first, up to its    *)
(* next wait or its end; index is the run that goes on.                       *)
Advancing == loop = "advance" /\ index <= Len(active)
Present   == active[index]
DueNow    == Advancing /\ Present.resume = 0
AtStep(step) ==
    DueNow /\ Live(Present) /\ Present.steps # <<>> /\ Head(Present.steps) = step

StepDone  == [Present EXCEPT !.steps = Tail(@), !.attempt = None]
Ended     == active' = RemoveAt(active, index) /\ UNCHANGED index
GoesOn    == active' = ReplaceAt(active, index, StepDone) /\ UNCHANGED index
Waits(run, resume) ==
    /\ active' = ReplaceAt(active, index, [run EXCEPT !.resume = resume])
    /\ index' = index + 1

NotDue ==
    /\ Advancing /\ Present.resume # 0
    /\ index' = index + 1
    /\ UNCHANGED <<handles, wakes, queues, loop, pass, end, timer, restore>>

RunEnds ==
    /\ DueNow /\ (~Live(Present) \/ Present.steps = <<>>)
    /\ Ended
    /\ UNCHANGED <<handles, wakes, queue, held, turn, disobeyed, loop, pass, end,
                   timer, restore>>

RunCalls ==
    /\ AtStep("call")
    /\ GoesOn \/ ("panic" \in env /\ Ended)
    /\ Call(Present)
    /\ UNCHANGED <<handles, wakes, queue, held, turn, loop, final, end, timer, restore>>

(* A Delay; one that is too long for a deadline is over only with a cancel.   *)
RunDelays ==
    /\ \/ AtStep("delay") /\ \E resume \in Time : Waits(StepDone, resume)
       \/ AtStep("forever") /\ Waits(StepDone, None)
    /\ UNCHANGED <<handles, wakes, queue, held, turn, disobeyed, loop, pass, end,
                   timer, restore>>

(* The head rule: behind an older paste that waits, a Paste waits with it.    *)
Older == {i \in 1 .. index - 1 : active[i].attempt # None}

PasteBehind ==
    /\ AtStep("paste") /\ Older # {}
    /\ Waits(Present, active[Min(Older)].resume)
    /\ UNCHANGED <<handles, wakes, queue, held, turn, disobeyed, loop, pass, end,
                   timer, restore>>

(* A try of the Paste: it waits for the restore before it, for the modifiers  *)
(* or for the clipboard; or it is over, with a phrase that was set or without.*)
Chained == restore # None /\ ~restore.due
Tried   == IF Present.attempt = None THEN 0 ELSE Present.attempt

PasteWaitsOn ==
    /\ Tried < MaxTries
    /\ \E resume \in (Time \ {0}) \cup (IF Chained THEN 0 .. restore.at ELSE {}) :
        Waits([Present EXCEPT !.attempt = Tried + 1], resume)
    /\ UNCHANGED restore

PasteOver ==
    \/ GoesOn /\ restore' \in {restore, None}
    \/ /\ ~Chained \/ Tried > 0
       /\ GoesOn
       /\ restore' \in {[at |-> at, due |-> FALSE, sent |-> TRUE] : at \in Time}
                       \cup {[at |-> 0, due |-> FALSE, sent |-> FALSE]}
    \/ /\ "panic" \in env /\ Ended
       /\ restore' \in {restore, [at |-> 0, due |-> FALSE, sent |-> FALSE]}

PasteTries ==
    /\ AtStep("paste") /\ Older = {}
    /\ PasteWaitsOn \/ PasteOver
    /\ calls' = TRUE
    /\ UNCHANGED <<handles, wakes, queue, held, turn, disobeyed, loop, final, pumping, end,
                   timer>>

(* The held jobs begin, until one leaves its paste waiting.                   *)
HeldBegins ==
    /\ loop = "advance" /\ index = Len(active) + 1
    /\ ~AttemptWaits /\ held # <<>>
    /\ held' = Tail(held)
    /\ Begin(Head(held))
    /\ UNCHANGED <<handles, wakes, queue, loop, index, final, end, timer, restore>>

(* restore_if_due: it is tried, and again later if the clipboard is busy.     *)
RestoreDue == restore # None /\ restore.at = 0 /\ (restore.due \/ ~restore.sent)
RestoreTried ==
    /\ RestoreDue
    /\ restore' \in {[restore EXCEPT !.due = TRUE, !.at = at] : at \in Time \ {0}} \cup {None}

(* A pass ends with the drain's last poll; another one follows a runner call, *)
(* since that may have taken the WAKE of a job.                               *)
PassOver_Always(asked) == TRUE
PassOver(asked) == ~calls /\ ~asked

PollEnds ==
    /\ loop = "advance" /\ index = Len(active) + 1
    /\ AttemptWaits \/ held = <<>>
    /\ \E asked \in BOOLEAN :
        /\ IF asked THEN RestoreTried ELSE ~RestoreDue /\ UNCHANGED restore
        /\ calls' = (~final /\ (calls \/ asked))
        /\ \/ ~final /\ loop' = "drain" /\ UNCHANGED <<ending, until>>
           \/ /\ final /\ stopping
              /\ loop' = "close" /\ ending' = "stopped" /\ until' = Longest
           \/ /\ final /\ ~stopping
              /\ loop' = IF PassOver(asked) THEN "arm" ELSE "drain"
              /\ UNCHANGED <<ending, until>>
    /\ UNCHANGED <<handles, wakes, queues, index, final, pumping, stopping, timer>>
-----------------------------------------------------------------------------
(* The timer and the wait.                                                    *)
Deadlines_RestoreOnly == IF restore = None THEN {} ELSE {restore.at}
Deadlines ==
    (IF restore = None THEN {} ELSE {restore.at})
    \cup (IF ending = "none" THEN {active[i].resume : i \in DOMAIN active} \ {None} ELSE {})
Nearest == IF Deadlines = {} THEN None ELSE Min(Deadlines)
Again   == IF ending = "none" THEN "drain" ELSE "close"

CancelTimer ==
    /\ armed' = None
    /\ signal' \in IF armed = None THEN {signal}
                   ELSE {None} \cup (IF "timer" \in env THEN {signal} ELSE {})

(* The epilogue: what waits goes, and a restore gets its last try.            *)
Ends ==
    /\ loop' = "ended"
    /\ queue' = <<>> /\ held' = <<>> /\ active' = <<>> /\ restore' = None
    /\ armed' = None /\ signal' = None /\ wakes' = 0
    /\ index' = 1
    /\ UNCHANGED <<handles, turn, disobeyed, pass, stopping, until>>

Arm ==
    /\ loop = "arm"
    /\ \/ Nearest = None /\ CancelTimer /\ loop' = "wait"
       \/ Nearest = 0 /\ CancelTimer /\ loop' = Again
       \/ /\ Nearest \notin {None, 0}
          /\ armed' = Nearest /\ signal' = IF armed = Nearest THEN signal ELSE Nearest
          /\ loop' = "wait"
    /\ UNCHANGED <<handles, wakes, queues, index, pass, end, restore>>

(* The timer cannot be set: what waits for it is dropped, a restore is tried  *)
(* at once; the closing mode ends.                                            *)
ArmFails ==
    /\ "timer" \in env
    /\ loop = "arm" /\ Nearest \notin {None, 0, armed}
    /\ \/ /\ ending = "none"
          /\ armed' = None /\ signal' \in {signal, None}
          /\ active' \in Only(active, {i \in DOMAIN active : active[i].resume = None})
          /\ restore' = None
          /\ index' = 1
          /\ loop' = "wait"
          /\ UNCHANGED <<handles, wakes, queue, held, turn, disobeyed, pass, end>>
       \/ ending # "none" /\ Ends /\ UNCHANGED ending

TimerWakes ==
    /\ loop = "wait" /\ signal = 0
    /\ armed' = None /\ signal' = None
    /\ loop' = Again
    /\ UNCHANGED <<handles, wakes, queues, index, pass, end, restore>>

(* pump goes back to the drain with the first WAKE.                           *)
WakeTaken ==
    /\ loop = "wait" /\ wakes > 0
    /\ wakes' = wakes - 1
    /\ loop' = Again
    /\ UNCHANGED <<handles, queues, index, pass, end, timer, restore>>

ForeignMessage ==
    /\ loop = "wait" /\ wakes = 0
    /\ loop' = Again
    /\ UNCHANGED <<handles, wakes, queues, index, pass, end, timer, restore>>

QuitTaken ==
    /\ "quit" \in env /\ loop = "wait"
    /\ ending' = IF ending = "none" THEN "died" ELSE ending
    /\ until' = IF ending = "none" THEN Longest ELSE until
    /\ loop' = "close"
    /\ UNCHANGED <<handles, wakes, queues, index, pass, stopping, timer, restore>>

WaitFails ==
    /\ "fail" \in env /\ loop = "wait"
    /\ ending' = "died" /\ Ends

(* close: the restore is tried until the closing limit.                       *)
TimeLeft_Always == TRUE
TimeLeft == until > 0

Close ==
    /\ loop = "close"
    /\ \/ Ends /\ UNCHANGED ending
       \/ /\ restore # None /\ TimeLeft
          /\ restore' = [restore EXCEPT !.at = 1]
          /\ loop' = "arm"
          /\ UNCHANGED <<handles, wakes, queues, index, pass, end, timer>>

Sooner(time) == IF time = None \/ time = 0 THEN time ELSE time - 1

Tick ==
    /\ loop # "ended"
    /\ active' = [i \in DOMAIN active |-> [active[i] EXCEPT !.resume = Sooner(@)]]
    /\ restore' = IF restore = None THEN None ELSE [restore EXCEPT !.at = Sooner(@)]
    /\ until' = Sooner(until)
    /\ armed' = Sooner(armed) /\ signal' = Sooner(signal)
    /\ UNCHANGED <<handles, wakes, queue, held, turn, disobeyed, place, stopping, ending>>
-----------------------------------------------------------------------------
Poll ==
    /\ ~pumping
    /\ \/ PollBegins \/ NotDue \/ RunEnds \/ RunCalls \/ RunDelays
       \/ PasteBehind \/ PasteTries \/ HeldBegins \/ PollEnds

Thread ==
    \/ CallReturns \/ TakeJob \/ DrainEnds \/ StopSeen \/ Poll
    \/ Arm \/ ArmFails \/ TimerWakes \/ WakeTaken \/ Close

Next ==
    \/ Submit \/ Cancel \/ Stop \/ PostWake
    \/ Thread \/ ForeignMessage \/ QuitTaken \/ WaitFails \/ Tick

Spec == Init /\ [][Next]_vars

(* The thread goes on, and each runner call returns; time passes.             *)
FairSpec == Spec /\ WF_vars(Thread) /\ WF_vars(PostWake) /\ WF_vars(Tick)
-----------------------------------------------------------------------------
(* Jobs begin in the order they were fired, each once, and none is dropped    *)
(* that was not cancelled, but a Paste: held jobs, the queue, and what the    *)
(* drain takes between two polls are one line.  (A refused Delay timer while  *)
(* jobs are held breaks it, see the README.)                                  *)
Line == INSTANCE JobQueue WITH Jobs <- Job, waiting <- held \o queue, turn <- turn
JobsInOrder == Line!Spec

Asleep == loop = "wait" /\ ending = "none" /\ wakes = 0 /\ ~posting

(* The loop never sleeps on work: while it waits with no WAKE in its queue,   *)
(* a job waits for a paste only, the timer signals no later than the next     *)
(* deadline, and nothing cancelled is left in the queue, held or running,     *)
(* whatever took the WAKE of a job or a cancel and however old its timer is.  *)
Work == {queue[i] : i \in DOMAIN queue} \cup {held[i] : i \in DOMAIN held}
        \cup {active[i] : i \in DOMAIN active}

NothingForgotten ==
    Asleep =>
        /\ queue # <<>> \/ held # <<>> => AttemptWaits
        /\ Nearest # None => signal # None /\ signal <= Nearest
        /\ \A work \in Work : work.live

(* The executor's state has its types, and while it waits for a message,      *)
(* nothing it could do is left undone: a job in the queue, a step that is due,*)
(* a stop (run_loop).                                                         *)
NoneForgotten == TypeOK /\ NothingForgotten

(* No job and no step that was cancelled before it started calls its runner.  *)
CancelledNeverRuns == ~disobeyed

(* Jobs that wait do not wait for ever: the line empties again and again, or  *)
(* another one of them begins.                                                *)
JobsBegin == []<>(held \o queue = <<>>) \/ ([]<>turn /\ []<>~turn)

(* Once it is asked to stop the thread ends, whatever it does at that moment  *)
(* (neither is ever taken back).                                              *)
StopEnds == []<>(stopping => loop = "ended")
=============================================================================
