------------------------------- MODULE Logging -------------------------------
(* The log (src/logging): a thread that logs queues its line without waiting, *)
(* and a full queue drops the line and counts it.  The log-writer thread owns *)
(* the files and the console.  A flush, an attach of the files and a panic    *)
(* wait for it, each with a limit.  Windows stops a write to the console for  *)
(* as long as the user holds a selection there.                               *)
EXTENDS LogFiles

CONSTANTS
    Thread,        \* the threads that log
    Main,          \* the thread of `main`
    Nobody,        \* a flush whose caller gave up
    Capacity,      \* QUEUE_CAPACITY
    FlushTimeout,  \* FLUSH_TIMEOUT
    ReportBudget,  \* REPORT_BUDGET
    Episode,       \* EPISODE
    LineSize,      \* the sizes of a record in a file
    MaxLines,      \* bound: the records
    MaxCalls,      \* bound: flushes and panics
    MaxDeletes,    \* bound: the files the user deletes
    Environments   \* the sets of troubles that occur together

Troubles == {"selection",  \* the user holds a selection in the console
             "slow",       \* the writer is slow
             "gone",       \* the writer ends
             "none",       \* the writer could not be started
             "minute",     \* the writer reports the counters by itself
             "refusal",    \* another program holds a file open
             "delete",     \* the user deletes a file
             "panic",      \* threads panic
             "fatal",      \* the daemon ends with an error
             "flush",      \* threads flush the log
             "long",       \* records are longer than a file may be
             "earlier"}    \* an earlier run of the daemon has left its files

NoFlush == "no flush"

(* Assumed of an instance.                                                   *)
LoggingAssumption ==
    /\ FilesAssumption
    /\ Main \in Thread /\ {Nobody, NoFlush} \cap Thread = {}
    /\ {Capacity, Episode} \subseteq Nat \ {0}
    /\ {FlushTimeout, ReportBudget, MaxLines, MaxCalls, MaxDeletes} \subseteq Nat
    /\ 1 \in LineSize /\ LineSize \subseteq Nat \ {0}
    /\ Environments \subseteq SUBSET Troubles

VARIABLES
    env,       \* the troubles of this behaviour
    thread,    \* what each thread does, and what it waits for
    budget,    \* BUDGET_END: how far ahead each thread's last one ends
    queue,     \* the writer's queue
    writer,    \* where the writer is
    attached,  \* Writer.files is set
    failing,   \* Writer.failing
    files,     \* the lines of the files
    dropped,   \* Counter::LogLinesDropped
    selected,  \* the user holds a selection in the console
    ended,     \* the process aborted
    calls,     \* the flushes and panics so far
    sent,      \* history: how many records were queued
    missed,    \* history: how many found the queue full
    tried,     \* history: how many the writer gave to the files
    done,      \* history: how many it wrote
    told,      \* history: how many dropped lines it reported
    filed,     \* history: how many lines the files were given
    deleted,   \* history: which of them the user deleted
    waited,    \* history: the ticks its latest panics held each thread, counted up to
               \* one more than ReportBudget
    quiet      \* history: the ticks since the last of them

console == <<selected, ended>>
counts  == <<sent, missed>>
output  == <<tried, done, told, filed>>
panics  == <<budget, waited, quiet>>
vars == <<env, thread, queue, writer, attached, failing, files, dropped, console,
          calls, counts, output, deleted, panics>>
-----------------------------------------------------------------------------
(* A thread that does nothing.  `why` is the call it is in.                   *)
Idle == [at |-> "idle", why |-> "log", left |-> 0, mark |-> 0, drops |-> 0,
         acked |-> FALSE]

AtTop == [at |-> "top", size |-> 0, own |-> FALSE, count |-> 0, notice |-> FALSE,
          flush |-> NoFlush]

LineMsg(size) == [kind |-> "line", size |-> size, of |-> Nobody]
AttachMsg     == [kind |-> "attach", size |-> 0, of |-> Nobody]
FlushMsg(t)   == [kind |-> "flush", size |-> 0, of |-> t]

Running  == writer.at \notin {"none", "gone"}
HasRoom  == Len(queue) < Capacity
Records  == sent + missed
Send(msg) == queue' = Append(queue, msg)

(* The places at which a thread waits until its deadline.                     *)
Waiting(t) == thread[t].at \in {"report", "flush", "ack"}
Panicking(t) == thread[t].why = "panic" /\ Waiting(t)

(* A panic without a writer writes its line itself, without a deadline.       *)
AtConsole(t) == thread[t].why = "panic" /\ thread[t].at = "stderr"

(* What holds a thread that panics.                                           *)
Held(t) == Panicking(t) \/ (AtConsole(t) /\ selected)

(* flush_by: the marks are what was logged, and dropped, before the call.     *)
Flushing(t, why, left) ==
    [thread[t] EXCEPT !.at = "flush", !.why = why, !.left = left,
                      !.mark = sent, !.drops = dropped + told + writer.count]

(* The end of a flush or of a panic report.                                   *)
Over(t, written) ==
    CASE thread[t].why = "fatal" -> [thread[t] EXCEPT !.at = IF written THEN "prompt" ELSE "fallback",
                                                      !.acked = FALSE]
      [] thread[t].why = "panic" -> [thread[t] EXCEPT !.at = "unwind", !.acked = FALSE]
      [] OTHER -> Idle
-----------------------------------------------------------------------------
Init ==
    /\ env \in Environments
    /\ thread = [t \in Thread |-> IF t = Main THEN [Idle EXCEPT !.at = "start"] ELSE Idle]
    /\ budget = [t \in Thread |-> -Episode]
    /\ queue = <<>>
    /\ writer = [AtTop EXCEPT !.at = IF "none" \in env THEN "none" ELSE "top"]
    /\ attached = FALSE /\ failing = FALSE
    /\ files = IF "earlier" \in env THEN EarlierFiles ELSE NoFiles
    /\ dropped = 0 /\ selected = FALSE /\ ended = FALSE /\ calls = 0
    /\ sent = 0 /\ missed = 0 /\ tried = 0 /\ done = 0 /\ told = 0
    /\ filed = (IF "earlier" \in env THEN KeptFiles ELSE 0) /\ deleted = {}
    /\ waited = [t \in Thread |-> 0] /\ quiet = [t \in Thread |-> Episode]

(* attach_log_file: the account may have no folder for it.                    *)
Attach ==
    /\ thread[Main].at = "start"
    /\ thread' = [thread EXCEPT ![Main] = Idle]
    /\ \/ Running /\ Send(AttachMsg)
       \/ UNCHANGED queue
    /\ UNCHANGED <<env, writer, attached, failing, files, dropped, console, calls,
                   counts, output, deleted, panics>>

(* The other threads start after that.                                        *)
Free(t) == thread[t].at = "idle" /\ thread[Main].at # "start"

(* log, send_line: `why` is "fatal" for the record of `fatal`, which a flush  *)
(* follows.  A writer that is gone gives the line back.                       *)
Log(t, why, size) ==
    LET next == IF why = "fatal" THEN [Idle EXCEPT !.at = "call", !.why = why] ELSE Idle
    IN  /\ Free(t) /\ Records < MaxLines
        /\ IF Running /\ HasRoom
           THEN /\ Send(LineMsg(size)) /\ sent' = sent + 1
                /\ thread' = [thread EXCEPT ![t] = next]
                /\ UNCHANGED missed
           ELSE /\ thread' = [thread EXCEPT ![t] =
                                [next EXCEPT !.at = IF Running THEN "bump" ELSE "stderr"]]
                /\ missed' = missed + IF Running THEN 1 ELSE 0
                /\ UNCHANGED <<queue, sent>>
        /\ UNCHANGED <<env, writer, attached, failing, files, dropped, console, calls,
                       output, deleted, panics>>

(* Where a log call goes on: in `fatal` with the flush.                       *)
Logged(t) == IF thread[t].why = "fatal" THEN [thread[t] EXCEPT !.at = "call"] ELSE Idle

Bump(t) ==
    /\ thread[t].at = "bump"
    /\ dropped' = dropped + 1
    /\ thread' = [thread EXCEPT ![t] = Logged(t)]
    /\ UNCHANGED <<env, queue, writer, attached, failing, files, console, calls,
                   counts, output, deleted, panics>>

(* write_to_stderr, of a log call and of a panic, and what `fatal` writes     *)
(* after a flush that failed.                                                 *)
WriteItself(t) ==
    /\ thread[t].at \in {"stderr", "fallback"} /\ ~selected
    /\ thread' = [thread EXCEPT ![t] =
                    IF @.at = "fallback" THEN [@ EXCEPT !.at = "prompt"]
                    ELSE IF @.why = "panic" THEN [@ EXCEPT !.at = "unwind"]
                    ELSE Logged(t)]
    /\ UNCHANGED <<env, queue, writer, attached, failing, files, dropped, console,
                   calls, counts, output, deleted, panics>>

(* flush, by a thread that only flushes or by `fatal`: with no writer nothing *)
(* waits.                                                                     *)
Flush(t, why) ==
    /\ \/ "flush" \in env /\ Free(t) /\ why = "log" /\ calls < MaxCalls
       \/ thread[t].at = "call" /\ why = "fatal"
    /\ calls' = calls + IF why = "log" THEN 1 ELSE 0
    /\ thread' = [thread EXCEPT ![t] =
                    IF Running THEN Flushing(t, why, FlushTimeout)
                    ELSE [@ EXCEPT !.at = IF why = "fatal" THEN "prompt" ELSE "idle"]]
    /\ UNCHANGED <<env, queue, writer, attached, failing, files, dropped, console,
                   counts, output, deleted, panics>>

(* budget_end, as the time from now on: a panic soon after the last budget    *)
(* shares it.                                                                 *)
BudgetEnd_Always(t) == ReportBudget
BudgetEnd(t) == IF budget[t] > -Episode THEN budget[t] ELSE ReportBudget

AtLeast(n, low) == IF n < low THEN low ELSE n

(* report: the panic hook, also of a panic during an unwind.                  *)
Panic(t) ==
    /\ "panic" \in env
    /\ Free(t) \/ thread[t].at = "unwind"
    /\ calls < MaxCalls /\ calls' = calls + 1
    /\ IF writer.at = "none"
       THEN /\ thread' = [thread EXCEPT ![t] = [Idle EXCEPT !.at = "stderr", !.why = "panic"]]
            /\ UNCHANGED budget
       ELSE /\ budget' = [budget EXCEPT ![t] = BudgetEnd(t)]
            /\ thread' = [thread EXCEPT ![t] = [Idle EXCEPT !.at = "report", !.why = "panic",
                                                            !.left = AtLeast(BudgetEnd(t), 0)]]
    /\ UNCHANGED <<env, queue, writer, attached, failing, files, dropped, console,
                   counts, output, deleted, waited, quiet>>

(* report_on, the first half: the line.                                       *)
Report(t) ==
    /\ thread[t].at = "report" /\ Running /\ HasRoom
    /\ Send(LineMsg(1)) /\ sent' = sent + 1
    /\ thread' = [thread EXCEPT ![t] =
                    [Flushing(t, "panic", @.left) EXCEPT !.mark = sent']]
    /\ UNCHANGED <<env, writer, attached, failing, files, dropped, console, calls,
                   missed, output, deleted, panics>>

SendFlush(t) ==
    /\ thread[t].at = "flush" /\ Running /\ HasRoom
    /\ Send(FlushMsg(t))
    /\ thread' = [thread EXCEPT ![t].at = "ack"]
    /\ UNCHANGED <<env, writer, attached, failing, files, dropped, console, calls,
                   counts, output, deleted, panics>>

(* The wait ends: the flush is acknowledged; its writer is gone, before or    *)
(* after it took the message; or the time is over.                            *)
Acknowledged(t) == thread[t].at = "ack" /\ thread[t].acked
WriterGone(t)   == Waiting(t) /\ ~Running /\ ~Acknowledged(t)
TimedOut(t)     == /\ Waiting(t) /\ thread[t].left = 0 /\ Running
                   /\ IF thread[t].at = "ack" THEN ~thread[t].acked ELSE ~HasRoom

(* No one listens to the acknowledgement of a flush that was given up: each   *)
(* call has a channel of its own.                                             *)
Unheard_SameChannel(msgs, t) == msgs
Unheard(msgs, t) ==
    [i \in DOMAIN msgs |-> IF msgs[i].of = t THEN FlushMsg(Nobody) ELSE msgs[i]]

EndWait(t) ==
    /\ Acknowledged(t) \/ WriterGone(t) \/ TimedOut(t)
    /\ thread' = [thread EXCEPT ![t] = Over(t, Acknowledged(t) \/ (WriterGone(t) /\ @.at = "flush"))]
    /\ queue' = Unheard(queue, t)
    /\ writer' = [writer EXCEPT !.flush = IF @ = t THEN Nobody ELSE @]
    /\ UNCHANGED <<env, attached, failing, files, dropped, console, calls, counts,
                   output, deleted, panics>>

(* After the panic hook: the unwind is caught, or ends the thread, or leaves  *)
(* a callback of Windows, which ends the process.                             *)
Unwind(t) ==
    /\ thread[t].at = "unwind"
    /\ \/ thread' = [thread EXCEPT ![t] = Idle] /\ UNCHANGED ended
       \/ ended' = TRUE /\ UNCHANGED thread
    /\ UNCHANGED <<env, queue, writer, attached, failing, files, dropped, selected,
                   calls, counts, output, deleted, panics>>
-----------------------------------------------------------------------------
(* The log-writer thread.  report_counters: a line only if there is a count;  *)
(* it is taken in the same step.                                              *)
Reporting(flush) ==
    IF dropped = 0 THEN [AtTop EXCEPT !.at = IF flush = NoFlush THEN "top" ELSE "ack", !.flush = flush]
    ELSE [AtTop EXCEPT !.at = "files", !.size = 1, !.own = TRUE, !.count = dropped, !.flush = flush]

TakeMessage ==
    /\ writer.at = "top" /\ queue # <<>>
    /\ LET msg == Head(queue)
       IN  /\ writer' = CASE msg.kind = "line"  -> [AtTop EXCEPT !.at = "files", !.size = msg.size]
                          [] msg.kind = "flush" -> Reporting(msg.of)
                          [] OTHER -> AtTop
           /\ dropped' = IF msg.kind = "flush" THEN 0 ELSE dropped
           /\ attached' = (attached \/ msg.kind = "attach")
           /\ failing' = (failing /\ msg.kind # "attach")
    /\ queue' = Tail(queue)
    /\ UNCHANGED <<env, thread, files, console, calls, counts, output, deleted, panics>>

MinuteReport ==
    /\ "minute" \in env /\ writer.at = "top" /\ dropped > 0
    /\ writer' = Reporting(NoFlush) /\ dropped' = 0
    /\ UNCHANGED <<env, thread, queue, attached, failing, files, console, calls,
                   counts, output, deleted, panics>>

(* write_files: an error makes a notice for the console when a streak begins, *)
(* and a write that works when one ends; that notice goes to the files too.   *)
WriteFiles ==
    LET Outcomes(f, n, size) == Writes(f, n, size, "refusal" \in env)
        Kept(n, o) == IF o.error = "write" THEN n - 1 ELSE n
    IN  /\ writer.at = "files"
        /\ tried' = tried + IF writer.own THEN 0 ELSE 1
        /\ IF ~attached
           THEN /\ writer' = [writer EXCEPT !.at = "console"]
                /\ UNCHANGED <<failing, files, filed>>
           ELSE \E o \in Outcomes(files, filed + 1, writer.size) :
                   /\ failing' = (o.error # "none")
                   /\ writer' = [writer EXCEPT !.at = "console", !.notice = failing' # failing]
                   /\ IF o.error = "none" /\ failing
                      THEN \E second \in Outcomes(o.files, filed + 2, 1) :
                              files' = second.files /\ filed' = Kept(filed + 2, second)
                      ELSE files' = o.files /\ filed' = Kept(filed + 1, o)
        /\ UNCHANGED <<env, thread, queue, attached, dropped, console, calls, counts,
                       done, told, deleted, panics>>

(* write: the line, then its notice, on the console.                          *)
WriteConsole ==
    /\ writer.at = "console" /\ ~selected
    /\ IF writer.notice
       THEN writer' = [writer EXCEPT !.notice = FALSE] /\ UNCHANGED <<done, told>>
       ELSE /\ writer' = [AtTop EXCEPT !.at = IF writer.flush = NoFlush THEN "top" ELSE "ack",
                                       !.flush = writer.flush]
            /\ told' = told + writer.count
            /\ done' = done + IF writer.own THEN 0 ELSE 1
    /\ UNCHANGED <<env, thread, queue, attached, failing, files, dropped, console,
                   calls, counts, tried, filed, deleted, panics>>

Acknowledge ==
    /\ writer.at = "ack"
    /\ writer' = AtTop
    /\ thread' = IF writer.flush = Nobody THEN thread
                 ELSE [thread EXCEPT ![writer.flush].acked = TRUE]
    /\ UNCHANGED <<env, queue, attached, failing, files, dropped, console, calls,
                   counts, output, deleted, panics>>
-----------------------------------------------------------------------------
(* The writer's thread panics, which the code does not expect: the queue goes *)
(* with it.                                                                   *)
WriterEnds ==
    /\ "gone" \in env /\ Running
    /\ writer' = [writer EXCEPT !.at = "gone"] /\ queue' = <<>>
    /\ UNCHANGED <<env, thread, attached, failing, files, dropped, console, calls,
                   counts, output, deleted, panics>>

Select ==
    /\ "selection" \in env
    /\ selected' = ~selected
    /\ UNCHANGED <<env, thread, queue, writer, attached, failing, files, dropped,
                   ended, calls, counts, output, deleted, panics>>

Delete ==
    /\ "delete" \in env /\ Cardinality(deleted) < MaxDeletes
    /\ \E i \in Place :
          /\ files[i] # NoFile
          /\ files' = [files EXCEPT ![i] = NoFile]
          /\ deleted' = deleted \cup ToSet(files[i].lines)
    /\ UNCHANGED <<env, thread, queue, writer, attached, failing, dropped, console,
                   calls, counts, output, panics>>

(* A tick of time passes once each wait that is over has ended, and, unless   *)
(* the writer is slow, once it has nothing to do or waits for the console.    *)
WriterDue ==
    \/ writer.at = "top" /\ queue # <<>>
    \/ writer.at \in {"files", "ack"}
    \/ writer.at = "console" /\ ~selected
ThreadDue(t) ==
    \/ Acknowledged(t) \/ WriterGone(t) \/ TimedOut(t)
    \/ thread[t].at \in {"report", "flush"} /\ Running /\ HasRoom

Tick ==
    /\ "slow" \in env \/ ~WriterDue
    /\ \A t \in Thread : ~ThreadDue(t)
    /\ thread' = [t \in Thread |->
                    IF Waiting(t) THEN [thread[t] EXCEPT !.left = @ - 1] ELSE thread[t]]
    /\ budget' = [t \in Thread |-> AtLeast(budget[t] - 1, -Episode)]
    /\ quiet' = [t \in Thread |-> IF Held(t) THEN 0
                                  ELSE IF quiet[t] < Episode THEN quiet[t] + 1 ELSE Episode]
    /\ waited' = [t \in Thread |->
                    IF Held(t) THEN waited[t] + IF waited[t] > ReportBudget THEN 0 ELSE 1
                    ELSE IF quiet'[t] = Episode THEN 0 ELSE waited[t]]
    /\ UNCHANGED <<env, queue, writer, attached, failing, files, dropped, console,
                   calls, counts, output, deleted>>

(* An aborted process does nothing more.                                      *)
Aborted == ended /\ UNCHANGED vars

Next ==
    \/ Aborted
    \/ /\ ~ended
       /\ \/ Attach
          \/ \E t \in Thread :
                \/ \E size \in LineSize : (size = 1 \/ "long" \in env) /\ Log(t, "log", size)
                \/ "fatal" \in env /\ t = Main /\ Log(t, "fatal", 1)
                \/ Bump(t)
                \/ WriteItself(t)
                \/ Flush(t, "log")
                \/ Flush(t, "fatal")
                \/ Panic(t)
                \/ Report(t)
                \/ SendFlush(t)
                \/ EndWait(t)
                \/ Unwind(t)
          \/ TakeMessage
          \/ MinuteReport
          \/ WriteFiles
          \/ WriteConsole
          \/ Acknowledge
          \/ WriterEnds
          \/ Select
          \/ Delete
          \/ Tick

Spec == Init /\ [][Next]_vars
-----------------------------------------------------------------------------
ThreadState ==
    [at : {"start", "idle", "bump", "stderr", "call", "report", "flush", "ack", "unwind",
           "fallback", "prompt"},
     why : {"log", "fatal", "panic"}, left : Nat, mark : Nat, drops : Nat, acked : BOOLEAN]
Message ==
    [kind : {"line", "attach", "flush"}, size : LineSize \cup {0}, of : Thread \cup {Nobody}]
WriterState ==
    [at : {"none", "gone", "top", "files", "console", "ack"}, size : LineSize \cup {0},
     own : BOOLEAN, count : Nat, notice : BOOLEAN, flush : Thread \cup {Nobody, NoFlush}]

TypeOK ==
    /\ env \in Environments
    /\ thread \in [Thread -> ThreadState]
    /\ queue \in Seq(Message) /\ Len(queue) <= Capacity
    /\ writer \in WriterState
    /\ files \in [Place -> File]
    /\ {attached, failing, selected, ended} \subseteq BOOLEAN
    /\ {dropped, calls, sent, missed, tried, done, told, filed} \subseteq Nat
    /\ deleted \subseteq Nat
    /\ waited \in [Thread -> Nat] /\ quiet \in [Thread -> 0 .. Episode]
    /\ budget \in [Thread -> -Episode .. ReportBudget]

(* A flush that is acknowledged tells the truth: all that was logged before   *)
(* the call is written, and all that was dropped before it is reported,       *)
(* whatever other threads log, flush and give up in between (flush_by, run).  *)
(* And no dropped line is reported twice or never: each is about to be        *)
(* counted, in the counter, in the report the writer is at, or was reported   *)
(* (bump, take).                                                              *)
Acked == \A t \in Thread :
            thread[t].acked => done >= thread[t].mark /\ told >= thread[t].drops
Counted ==
    missed = Cardinality({t \in Thread : thread[t].at = "bump"}) + dropped + writer.count + told
FlushTold == Acked /\ Counted

(* The files together, from the oldest to daemon.log, hold their lines in     *)
(* order and without a gap, but for what the user deleted: a refused rename   *)
(* never makes a later one replace a file whose lines have not moved on.      *)
KeptLines == UNION {ToSet(files[i].lines) : i \in Place}
InOrder ==
    \A i, j \in Place : \A k \in DOMAIN files[i].lines, l \in DOMAIN files[j].lines :
        i > j \/ (i = j /\ k < l) =>
            LET before == files[i].lines[k]
                after  == files[j].lines[l]
            IN  before < after /\ before + 1 .. after - 1 \subseteq KeptLines \cup deleted

(* Only a single line, or a rotation that was refused, makes a file larger    *)
(* than its limit.                                                            *)
NotTooLarge ==
    \A i \in Place : files[i].size <= Limit \/ Len(files[i].lines) = 1 \/ files[i].refused
FilesWhole == InOrder /\ NotTooLarge

(* Panics hold a thread for longer than one budget, however many come one     *)
(* after another and whatever the console and the queue do, only if no writer *)
(* could be started: then each writes its line itself, and waits as long as   *)
(* the user holds a selection (budget_end, report_on, report).                *)
HeldBriefly == \A t \in Thread : waited[t] > ReportBudget => writer.at = "none"
=============================================================================
