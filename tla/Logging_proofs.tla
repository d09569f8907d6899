--------------------------- MODULE Logging_proofs ---------------------------
(* Proofs about Logging: its types, that a panic is brief, that a flush and   *)
(* the counter of dropped lines tell the truth, and that the files are whole, *)
(* for any threads, capacity, limits, sizes and environments.                 *)
EXTENDS Logging, FiniteSetTheorems, TLAPS

(* The sizes of records, wherever the writer finds one.                       *)
SizesKnown ==
    /\ \A i \in DOMAIN queue : queue[i].kind = "line" => queue[i].size \in LineSize
    /\ writer.at = "files" => writer.size \in LineSize

(* While the main thread starts, no other does anything.                      *)
StartsEmpty ==
    thread[Main].at = "start" => queue = <<>> /\ \A t \in Thread \ {Main} : thread[t].at = "idle"

TypeInv == TypeOK /\ SizesKnown

(* A panic waits until its thread's budget is over.  What a thread has waited *)
(* since the budget began, and what is left of it, are one budget together;   *)
(* and the time since the thread waited is told by the budget.  With a writer *)
(* no panic is at the console.                                                *)
HeldInv ==
    \A t \in Thread :
        /\ thread[t].at = "report" => thread[t].why = "panic"
        /\ Panicking(t) => thread[t].left = AtLeast(budget[t], 0)
        /\ writer.at # "none" =>
              /\ ~AtConsole(t)
              /\ waited[t] + AtLeast(budget[t], 0) <= ReportBudget
              /\ waited[t] > 0 => quiet[t] < Episode /\ budget[t] + quiet[t] >= 0

(* The writer has one message at most of a flush that is waited for.          *)
OneFlush ==
    \A t \in Thread :
        /\ thread[t].acked => thread[t].at = "ack"
        /\ \/ \E i \in DOMAIN queue : queue[i].of = t
           \/ writer.flush = t
           => thread[t].at = "ack" /\ ~thread[t].acked
        /\ \A i, j \in DOMAIN queue : queue[i].of = t /\ queue[j].of = t => i = j
        /\ writer.flush = t => \A i \in DOMAIN queue : queue[i].of # t

(* The counter is taken only between two lines.                               *)
Lost == dropped + writer.count + told
CountsRight ==
    /\ writer.at \in {"top", "ack"} => writer.count = 0
    /\ \A i \in DOMAIN queue : queue[i].of \in Thread => queue[i].kind = "flush"
    /\ \A t \in Thread : thread[t].at \in {"flush", "ack"} =>
           thread[t].mark <= sent /\ thread[t].drops <= Lost

(* The lines that are written once the first i messages of the queue are.     *)
InWriter == IF writer.at \in {"files", "console"} /\ ~writer.own THEN 1 ELSE 0
LineIn(i) == IF queue[i].kind = "line" THEN 1 ELSE 0
Written(c) ==
    /\ c[0] = done + InWriter /\ c[Len(queue)] = sent
    /\ \A i \in DOMAIN queue :
          /\ c[i] = c[i - 1] + LineIn(i)
          /\ queue[i].of \in Thread => thread[queue[i].of].mark <= c[i]

LinesCounted == Running => \E c \in [0 .. Len(queue) -> Nat] : Written(c)

(* What a flush was promised, once the writer has its message.                *)
Promised ==
    \A t \in Thread :
        /\ writer.flush = t => /\ thread[t].mark <= done
                               /\ thread[t].drops <= told + writer.count
        /\ thread[t].acked => thread[t].mark <= done /\ thread[t].drops <= told

FlushInv == OneFlush /\ CountsRight /\ LinesCounted /\ Promised

Bumping == {t \in Thread : thread[t].at = "bump"}
CountInv == IsFiniteSet(Bumping) /\ Counted

(* A line that is in no file was deleted, or is older than all that are kept, *)
(* and the newer a file or a line is, the greater is its number.              *)
KeptIn(f) == UNION {ToSet(f[i].lines) : i \in Place}
Sound(f, last, gone) ==
    /\ \A i \in Place : f[i] = NoFile \/ f[i].size > 0
    /\ \A i \in Place : \A k \in DOMAIN f[i].lines : f[i].lines[k] \in 1 .. last
    /\ \A i, j \in Place : \A k \in DOMAIN f[i].lines, l \in DOMAIN f[j].lines :
          i > j \/ (i = j /\ k < l) => f[i].lines[k] < f[j].lines[l]
    /\ \A m \in 1 .. last :
          m \in KeptIn(f) \cup gone \/ \A x \in KeptIn(f) : m < x
    /\ \A i \in Place : f[i].size <= Limit \/ Len(f[i].lines) = 1 \/ f[i].refused

FilesInv == Sound(files, filed, deleted)

IInv == TypeInv /\ StartsEmpty /\ HeldInv /\ FlushInv /\ CountInv /\ FilesInv
-----------------------------------------------------------------------------
(* What the assumptions say of the constants.                                 *)
LEMMA Constants ==
    ASSUME LoggingAssumption
    PROVE  /\ KeptFiles \in Nat /\ KeptFiles >= 2 /\ 0 \in Place /\ 1 \in Place
           /\ \A i \in Place : /\ i \in Nat
                               /\ i # 0 => i - 1 \in Place
                               /\ i + 1 \in Place \/ i = KeptFiles - 1
           /\ Capacity \in Nat /\ Capacity > 0 /\ Episode \in Nat /\ Episode > 0 /\ Limit \in Nat
           /\ FlushTimeout \in Nat /\ ReportBudget \in Nat
           /\ Main \in Thread /\ Nobody \notin Thread /\ NoFlush \notin Thread
           /\ 1 \in LineSize /\ \A size \in LineSize : size \in Nat /\ size > 0
           /\ Environments \subseteq SUBSET Troubles
BY DEF LoggingAssumption, FilesAssumption, Place

(* The files of an earlier run, and a file with one more line.                *)
LEMMA FilesTyped ==
    ASSUME LoggingAssumption
    PROVE  /\ NoFile \in File
           /\ \A file \in File, n \in Nat, size \in LineSize, refused \in BOOLEAN :
                 Longer(file, n, size, refused) \in File
           /\ NoFiles \in [Place -> File] /\ EarlierFiles \in [Place -> File]
<1>1. NoFile \in File
  BY DEF NoFile, File
<1>2. ASSUME NEW file \in File, NEW n \in Nat, NEW size \in LineSize, NEW refused \in BOOLEAN
      PROVE  Longer(file, n, size, refused) \in File
  <2>1. size \in Nat
    BY Constants
  <2>2. Append(file.lines, n) \in Seq(Nat) /\ file.size + size \in Nat
    BY <2>1 DEF File
  <2> QED BY <2>2 DEF Longer, File
<1>3. ASSUME NEW i \in Place PROVE Longer(NoFile, KeptFiles - i, 1, FALSE) \in File
  <2>1. KeptFiles - i \in Nat /\ 1 \in LineSize
    BY Constants DEF Place
  <2> QED BY <1>1, <1>2, <2>1
<1> QED BY <1>1, <1>2, <1>3 DEF NoFiles, EarlierFiles

(* A write to the files keeps their types.                                    *)
LEMMA WritesTyped ==
    ASSUME LoggingAssumption, NEW f \in [Place -> File], NEW n \in Nat, NEW size \in LineSize,
           NEW refusals, NEW o \in Writes(f, n, size, refusals)
    PROVE  o.files \in [Place -> File] /\ o.error \in {"none", "rotate", "write"}
<1> DEFINE turned == IF Rotates(f, size)
                     THEN {[files |-> Rotate(f, i), refused |-> i # 0] : i \in Stops(f, refusals)}
                     ELSE {[files |-> f, refused |-> FALSE]}
<1>1. \A stop \in Nat : Rotate(f, stop) \in [Place -> File]
  <2> TAKE stop \in Nat
  <2>1. ASSUME NEW i \in Place, i > stop PROVE f[i - 1] \in File
    BY <2>1, Constants
  <2> QED BY <2>1, FilesTyped DEF Rotate
<1>2. \A i \in Stops(f, refusals) : i \in Nat
  BY Constants DEF Stops
<1>3. ASSUME NEW t \in turned PROVE t.files \in [Place -> File] /\ t.refused \in BOOLEAN
  <2>1. CASE Rotates(f, size)
    <3>1. PICK i \in Stops(f, refusals) : t = [files |-> Rotate(f, i), refused |-> i # 0]
      BY <2>1
    <3> QED BY <1>1, <1>2, <3>1
  <2>2. CASE ~Rotates(f, size)
    <3>1. t = [files |-> f, refused |-> FALSE]
      BY <2>2
    <3> QED BY <3>1
  <2> QED BY <2>1, <2>2
<1> HIDE DEF turned
<1>4. o \in {[files |-> [t.files EXCEPT ![0] = Longer(@, n, size, t.refused)],
              error |-> IF t.refused THEN "rotate" ELSE "none"] : t \in turned}
         \cup {[files |-> g, error |-> "write"] : g \in {f} \cup {t.files : t \in turned}}
  BY DEF Writes, turned
<1>5. CASE \E t \in turned :
              o = [files |-> [t.files EXCEPT ![0] = Longer(@, n, size, t.refused)],
                   error |-> IF t.refused THEN "rotate" ELSE "none"]
  <2>1. PICK t \in turned :
              o = [files |-> [t.files EXCEPT ![0] = Longer(@, n, size, t.refused)],
                   error |-> IF t.refused THEN "rotate" ELSE "none"]
    BY <1>5
  <2>2. Longer(t.files[0], n, size, t.refused) \in File
    BY <1>3, Constants, FilesTyped
  <2> QED BY <1>3, <2>1, <2>2
<1>6. CASE \E g \in {f} \cup {t.files : t \in turned} : o = [files |-> g, error |-> "write"]
  BY <1>3, <1>6
<1> QED BY <1>4, <1>5, <1>6

(* The types at the start.                                                    *)
LEMMA TypesInit == ASSUME LoggingAssumption, Init PROVE TypeInv
<1>1. thread \in [Thread -> ThreadState]
  BY DEF Init, ThreadState, Idle
<1>2. writer \in WriterState /\ writer.at # "files"
  BY DEF Init, AtTop, WriterState
<1>3. files \in [Place -> File] /\ filed \in Nat
  BY Constants, FilesTyped DEF Init
<1>4. budget \in [Thread -> -Episode .. ReportBudget] /\ quiet \in [Thread -> 0 .. Episode]
  BY Constants DEF Init
<1>5. queue = <<>> /\ queue \in Seq(Message) /\ Len(queue) <= Capacity
  BY Constants DEF Init
<1>6. env \in Environments /\ {attached, failing, selected, ended} \subseteq BOOLEAN
  BY DEF Init
<1>7. {dropped, calls, sent, missed, tried, done, told} \subseteq Nat /\ deleted \subseteq Nat
  BY DEF Init
<1>8. waited \in [Thread -> Nat]
  BY DEF Init
<1>9. TypeOK
  BY <1>1, <1>2, <1>3, <1>4, <1>5, <1>6, <1>7, <1>8 DEF TypeOK
<1> QED BY <1>2, <1>5, <1>9 DEF TypeInv, SizesKnown

(* A message more, or one less, or that no one listens to.                    *)
LEMMA QueueTyped ==
    ASSUME LoggingAssumption, TypeInv
    PROVE  /\ \A t \in Thread : FlushMsg(t) \in Message /\ FlushMsg(t).kind = "flush"
           /\ AttachMsg \in Message /\ AttachMsg.kind = "attach"
           /\ \A size \in LineSize : /\ LineMsg(size) \in Message
                                     /\ LineMsg(size).size \in LineSize
           /\ \A msg \in Message :
                 HasRoom /\ Send(msg) /\ (msg.kind = "line" => msg.size \in LineSize) =>
                    /\ queue' \in Seq(Message) /\ Len(queue') <= Capacity
                    /\ \A i \in DOMAIN queue' : queue'[i].kind = "line" => queue'[i].size \in LineSize
           /\ \A t \in Thread :
                 /\ Unheard(queue, t) \in Seq(Message) /\ Len(Unheard(queue, t)) = Len(queue)
                 /\ DOMAIN Unheard(queue, t) = DOMAIN queue
<1>1. queue \in Seq(Message) /\ Len(queue) \in Nat /\ DOMAIN queue = 1 .. Len(queue)
  BY DEF TypeInv, TypeOK
<1>2. ASSUME NEW msg \in Message, HasRoom, Send(msg), msg.kind = "line" => msg.size \in LineSize
      PROVE  /\ queue' \in Seq(Message) /\ Len(queue') <= Capacity
             /\ \A i \in DOMAIN queue' : queue'[i].kind = "line" => queue'[i].size \in LineSize
  <2>1. /\ queue' \in Seq(Message) /\ Len(queue') = Len(queue) + 1
        /\ \A i \in 1 .. Len(queue) : queue'[i] = queue[i]
        /\ queue'[Len(queue) + 1] = msg /\ DOMAIN queue' = 1 .. Len(queue) + 1
    BY <1>1, <1>2 DEF Send
  <2>2. Len(queue) + 1 <= Capacity
    BY <1>1, <1>2, Constants DEF HasRoom
  <2> QED BY <1>1, <1>2, <2>1, <2>2 DEF TypeInv, SizesKnown
<1>3. \A t \in Thread : FlushMsg(t) \in Message /\ FlushMsg(t).kind = "flush"
  BY DEF FlushMsg, Message
<1>4. FlushMsg(Nobody) \in Message /\ AttachMsg \in Message /\ AttachMsg.kind = "attach"
  BY DEF FlushMsg, AttachMsg, Message
<1>5. \A size \in LineSize : LineMsg(size) \in Message /\ LineMsg(size).size \in LineSize
  BY DEF LineMsg, Message
<1>6. ASSUME NEW t \in Thread
      PROVE  /\ Unheard(queue, t) \in Seq(Message) /\ Len(Unheard(queue, t)) = Len(queue)
             /\ DOMAIN Unheard(queue, t) = DOMAIN queue
  <2>1. Unheard(queue, t) \in [1 .. Len(queue) -> Message]
    BY <1>1, <1>4 DEF Unheard
  <2> QED BY <1>1, <2>1
<1> QED BY <1>2, <1>3, <1>4, <1>5, <1>6

(* A thread that begins to flush, and one whose wait ends.                    *)
LEMMA ThreadsTyped ==
    ASSUME LoggingAssumption, TypeInv, NEW t \in Thread
    PROVE  /\ thread[t] \in ThreadState /\ Idle \in ThreadState
           /\ \A why \in {"log", "fatal", "panic"}, left \in Nat :
                 Flushing(t, why, left) \in ThreadState
           /\ \A written \in BOOLEAN : Over(t, written) \in ThreadState
           /\ Logged(t) \in ThreadState
<1>1. thread[t] \in ThreadState /\ {sent, dropped, told, writer.count} \subseteq Nat
  BY DEF TypeInv, TypeOK, WriterState
<1>2. Idle \in ThreadState
  BY DEF Idle, ThreadState
<1>3. \A why \in {"log", "fatal", "panic"}, left \in Nat : Flushing(t, why, left) \in ThreadState
  <2> TAKE why \in {"log", "fatal", "panic"}, left \in Nat
  <2>1. PICK drops \in Nat : drops = dropped + told + writer.count
    BY <1>1
  <2>2. Flushing(t, why, left) = [thread[t] EXCEPT !.at = "flush", !.why = why, !.left = left,
                                                   !.mark = sent, !.drops = drops]
    BY <2>1 DEF Flushing
  <2> QED BY <1>1, <2>2 DEF ThreadState
<1>4. \A written \in BOOLEAN : Over(t, written) \in ThreadState
  BY <1>1, <1>2 DEF Over, ThreadState
<1>5. Logged(t) \in ThreadState
  BY <1>1, <1>2 DEF Logged, ThreadState
<1> QED BY <1>1, <1>2, <1>3, <1>4, <1>5

(* The writer's report.                                                       *)
LEMMA ReportTyped ==
    ASSUME LoggingAssumption, dropped \in Nat, NEW flush \in Thread \cup {Nobody, NoFlush}
    PROVE  /\ Reporting(flush) \in WriterState /\ AtTop \in WriterState
           /\ Reporting(flush).at = "files" => Reporting(flush).size \in LineSize
BY Constants DEF Reporting, AtTop, WriterState

(* What a step that touches neither the files nor the history of panics has   *)
(* to show.                                                                   *)
LEMMA TypesRest ==
    ASSUME LoggingAssumption, TypeInv, UNCHANGED <<env, files, filed, deleted, panics>>,
           thread' \in [Thread -> ThreadState],
           queue' \in Seq(Message), Len(queue') <= Capacity,
           \A i \in DOMAIN queue' : queue'[i].kind = "line" => queue'[i].size \in LineSize,
           writer' \in WriterState, writer'.at = "files" => writer'.size \in LineSize,
           {attached, failing, selected, ended}' \subseteq BOOLEAN,
           {dropped, calls, sent, missed, tried, done, told}' \subseteq Nat
    PROVE  TypeInv'
BY DEF TypeInv, TypeOK, SizesKnown, panics

(* Where a thread goes that logs.                                             *)
LEMMA Logs ==
    ASSUME NEW t \in Thread, NEW why, NEW size, Log(t, why, size)
    PROVE  \E new : /\ thread' = [thread EXCEPT ![t] = new] /\ new.acked = FALSE
                    /\ new.why \in {"log", why}
                    /\ IF Running /\ HasRoom
                       THEN /\ Send(LineMsg(size)) /\ sent' = sent + 1 /\ missed' = missed
                            /\ new.at \in {"idle", "call"}
                       ELSE /\ queue' = queue /\ sent' = sent
                            /\ IF Running THEN new.at = "bump" /\ missed' = missed + 1
                                          ELSE new.at = "stderr" /\ missed' = missed + 0
<1> DEFINE next == IF why = "fatal" THEN [Idle EXCEPT !.at = "call", !.why = why] ELSE Idle
<1>1. next.at \in {"idle", "call"} /\ next.acked = FALSE /\ next.why \in {"log", why}
  BY DEF Idle
<1>2. \A at : LET new == [next EXCEPT !.at = at]
               IN  new.at = at /\ new.acked = FALSE /\ new.why \in {"log", why}
  BY DEF Idle
<1>3. CASE Running /\ HasRoom
  BY <1>1, <1>3 DEF Log
<1>4. CASE ~(Running /\ HasRoom)
  <2>1. /\ thread' = [thread EXCEPT ![t] = [next EXCEPT !.at = IF Running THEN "bump" ELSE "stderr"]]
        /\ missed' = missed + IF Running THEN 1 ELSE 0
        /\ queue' = queue /\ sent' = sent
    BY <1>4 DEF Log
  <2> HIDE DEF next
  <2> QED BY <1>2, <1>4, <2>1
<1> QED BY <1>3, <1>4

(* Where a thread goes that has written its line to stderr.                   *)
LEMMA WritesItself ==
    ASSUME TypeInv, NEW t \in Thread, WriteItself(t)
    PROVE  \E new : /\ thread' = [thread EXCEPT ![t] = new]
                    /\ new \in {[thread[t] EXCEPT !.at = "prompt"],
                                [thread[t] EXCEPT !.at = "unwind"], Logged(t)}
<1> DEFINE new == IF thread[t].at = "fallback" THEN [thread[t] EXCEPT !.at = "prompt"]
                 ELSE IF thread[t].why = "panic" THEN [thread[t] EXCEPT !.at = "unwind"]
                 ELSE Logged(t)
<1>1. thread' = [thread EXCEPT ![t] = new]
  BY DEF WriteItself, TypeInv, TypeOK
<1>2. \/ new = [thread[t] EXCEPT !.at = "prompt"] \/ new = [thread[t] EXCEPT !.at = "unwind"]
      \/ new = Logged(t)
  OBVIOUS
<1> HIDE DEF new
<1> QED BY <1>1, <1>2

(* A step keeps the types: a writer that takes a line knows its size.         *)
LEMMA TypesStep == ASSUME LoggingAssumption, TypeInv, StartsEmpty, Next PROVE TypeInv'
<1>1. /\ env \in Environments /\ thread \in [Thread -> ThreadState]
      /\ queue \in Seq(Message) /\ Len(queue) <= Capacity
      /\ \A i \in DOMAIN queue : queue[i].kind = "line" => queue[i].size \in LineSize
      /\ writer \in WriterState /\ (writer.at = "files" => writer.size \in LineSize)
      /\ files \in [Place -> File]
      /\ {attached, failing, selected, ended} \subseteq BOOLEAN
      /\ {dropped, calls, sent, missed, tried, done, told, filed} \subseteq Nat
      /\ deleted \subseteq Nat
      /\ waited \in [Thread -> Nat] /\ quiet \in [Thread -> 0 .. Episode]
      /\ budget \in [Thread -> -Episode .. ReportBudget]
  BY DEF TypeInv, TypeOK, SizesKnown
<1>2. \A t \in Thread : Main \in Thread /\ thread[t] \in ThreadState /\ Idle \in ThreadState
  BY ThreadsTyped, Constants
<1>3. CASE Attach
  <2>1. thread' \in [Thread -> ThreadState]
    BY <1>1, <1>2, <1>3 DEF Attach
  <2>2. /\ queue' \in Seq(Message) /\ Len(queue') <= Capacity
        /\ \A i \in DOMAIN queue' : queue'[i].kind = "line" => queue'[i].size \in LineSize
    <3>1. CASE queue' = queue
      BY <1>1, <3>1
    <3>2. CASE Send(AttachMsg)
      <4>1. queue = <<>>
        BY <1>3 DEF Attach, StartsEmpty
      <4>2. HasRoom
        BY <4>1, Constants DEF HasRoom
      <4> QED BY <3>2, <4>2, QueueTyped
    <3> QED BY <1>3, <3>1, <3>2 DEF Attach
  <2> QED BY <1>1, <1>3, <2>1, <2>2, TypesRest DEF Attach, console, counts, output
<1>4. ASSUME NEW t \in Thread, NEW why \in {"log", "fatal"}, NEW size \in LineSize, Log(t, why, size)
      PROVE  TypeInv'
  <2>1. thread' \in [Thread -> ThreadState]
    <3> DEFINE next == IF why = "fatal" THEN [Idle EXCEPT !.at = "call", !.why = why] ELSE Idle
    <3>1. \/ thread' = [thread EXCEPT ![t] = next]
          \/ \E place \in {"bump", "stderr"} :
                thread' = [thread EXCEPT ![t] = [next EXCEPT !.at = place]]
      BY <1>4 DEF Log
    <3>2. next \in ThreadState
      BY DEF Idle, ThreadState
    <3> HIDE DEF next
    <3>3. \A place \in {"bump", "stderr"} : [next EXCEPT !.at = place] \in ThreadState
      BY <3>2 DEF ThreadState
    <3> QED BY <1>1, <3>1, <3>2, <3>3
  <2>2. /\ queue' \in Seq(Message) /\ Len(queue') <= Capacity
        /\ \A i \in DOMAIN queue' : queue'[i].kind = "line" => queue'[i].size \in LineSize
    <3>1. CASE queue' = queue
      BY <1>1, <3>1
    <3>2. CASE HasRoom /\ Send(LineMsg(size))
      BY <3>2, QueueTyped
    <3> QED BY <1>4, <3>1, <3>2 DEF Log
  <2>3. {sent', missed'} \subseteq Nat
    BY <1>1, <1>4 DEF Log
  <2> QED BY <1>1, <1>4, <2>1, <2>2, <2>3, TypesRest DEF Log, console, output
<1>5. ASSUME NEW t \in Thread, Bump(t) PROVE TypeInv'
  <2>1. thread' \in [Thread -> ThreadState]
    BY <1>1, <1>5, ThreadsTyped DEF Bump
  <2> QED BY <1>1, <1>5, <2>1, TypesRest DEF Bump, console, counts, output
<1>6. ASSUME NEW t \in Thread, WriteItself(t) PROVE TypeInv'
  <2>1. thread' \in [Thread -> ThreadState]
    <3>1. \A at \in {"prompt", "unwind"} : [thread[t] EXCEPT !.at = at] \in ThreadState
      BY <1>2 DEF ThreadState
    <3>2. \E new : /\ thread' = [thread EXCEPT ![t] = new]
                   /\ new \in {[thread[t] EXCEPT !.at = "prompt"],
                               [thread[t] EXCEPT !.at = "unwind"], Logged(t)}
      BY <1>6, WritesItself
    <3> QED BY <1>1, <3>1, <3>2, ThreadsTyped
  <2> QED BY <1>1, <1>6, <2>1, TypesRest DEF WriteItself, console, counts, output
<1>7. ASSUME NEW t \in Thread, NEW why \in {"log", "fatal"}, Flush(t, why) PROVE TypeInv'
  <2>1. thread' \in [Thread -> ThreadState]
    <3>1. \A at \in {"prompt", "idle"} : [thread[t] EXCEPT !.at = at] \in ThreadState
      BY <1>2 DEF ThreadState
    <3>2. \E new : /\ thread' = [thread EXCEPT ![t] = new]
                   /\ new \in {[thread[t] EXCEPT !.at = "prompt"],
                               [thread[t] EXCEPT !.at = "idle"], Flushing(t, why, FlushTimeout)}
      BY <1>1, <1>7 DEF Flush
    <3>3. Flushing(t, why, FlushTimeout) \in ThreadState
      BY ThreadsTyped, Constants
    <3> QED BY <1>1, <3>1, <3>2, <3>3
  <2> QED BY <1>1, <1>7, <2>1, TypesRest DEF Flush, console, counts, output
<1>8. ASSUME NEW t \in Thread, Panic(t) PROVE TypeInv'
  <2>1. BudgetEnd(t) \in -Episode .. ReportBudget /\ AtLeast(BudgetEnd(t), 0) \in Nat
    <3>1. Episode \in Nat /\ ReportBudget \in Nat /\ budget[t] \in -Episode .. ReportBudget
      BY <1>1, Constants
    <3> QED BY ONLY <3>1 DEF BudgetEnd, AtLeast
  <2>2. thread' \in [Thread -> ThreadState]
    <3>1. /\ [Idle EXCEPT !.at = "stderr", !.why = "panic"] \in ThreadState
          /\ \A left \in Nat :
                [Idle EXCEPT !.at = "report", !.why = "panic", !.left = left] \in ThreadState
      BY DEF Idle, ThreadState
    <3> QED BY <1>1, <1>8, <2>1, <3>1 DEF Panic
  <2>3. budget' \in [Thread -> -Episode .. ReportBudget]
    BY <1>1, <1>8, <2>1 DEF Panic
  <2>4. /\ UNCHANGED <<env, queue, writer, attached, failing, files, dropped, selected, ended>>
        /\ UNCHANGED <<sent, missed, tried, done, told, filed, deleted, waited, quiet>>
    BY <1>8 DEF Panic, console, counts, output
  <2>5. calls' \in Nat
    BY <1>1, <1>8 DEF Panic
  <2>6. TypeOK'
    BY <1>1, <2>2, <2>3, <2>4, <2>5 DEF TypeOK
  <2>7. SizesKnown'
    BY <1>1, <2>4 DEF SizesKnown
  <2> QED BY <2>6, <2>7 DEF TypeInv
<1>9. ASSUME NEW t \in Thread, Report(t) PROVE TypeInv'
  <2>1. thread' \in [Thread -> ThreadState]
    <3>1. thread[t].left \in Nat
      BY <1>2 DEF ThreadState
    <3>2. Flushing(t, "panic", thread[t].left) \in ThreadState
      BY <3>1, ThreadsTyped
    <3>3. \A mark \in Nat :
             [Flushing(t, "panic", thread[t].left) EXCEPT !.mark = mark] \in ThreadState
      BY <3>2 DEF ThreadState
    <3>4. sent' \in Nat
      BY <1>1, <1>9 DEF Report
    <3> QED BY <1>1, <1>9, <3>3, <3>4 DEF Report
  <2>2. /\ queue' \in Seq(Message) /\ Len(queue') <= Capacity
        /\ \A i \in DOMAIN queue' : queue'[i].kind = "line" => queue'[i].size \in LineSize
    BY <1>9, QueueTyped, Constants DEF Report
  <2> QED BY <1>1, <1>9, <2>1, <2>2, TypesRest DEF Report, console, output
<1>10. ASSUME NEW t \in Thread, SendFlush(t) PROVE TypeInv'
  <2>1. thread' \in [Thread -> ThreadState]
    <3>1. [thread[t] EXCEPT !.at = "ack"] \in ThreadState
      BY <1>2 DEF ThreadState
    <3> QED BY <1>1, <1>10, <3>1 DEF SendFlush
  <2>2. /\ queue' \in Seq(Message) /\ Len(queue') <= Capacity
        /\ \A i \in DOMAIN queue' : queue'[i].kind = "line" => queue'[i].size \in LineSize
    BY <1>10, QueueTyped DEF SendFlush
  <2> QED BY <1>1, <1>10, <2>1, <2>2, TypesRest DEF SendFlush, console, counts, output
<1>11. ASSUME NEW t \in Thread, EndWait(t) PROVE TypeInv'
  <2>1. thread' \in [Thread -> ThreadState]
    <3>1. \E written \in BOOLEAN : thread' = [thread EXCEPT ![t] = Over(t, written)]
      BY <1>1, <1>11 DEF EndWait
    <3> QED BY <1>1, <3>1, ThreadsTyped
  <2>2. /\ queue' \in Seq(Message) /\ Len(queue') <= Capacity
        /\ \A i \in DOMAIN queue' : queue'[i].kind = "line" => queue'[i].size \in LineSize
    <3>1. /\ queue' \in Seq(Message) /\ Len(queue') = Len(queue)
          /\ DOMAIN queue' = DOMAIN queue
      BY <1>11, QueueTyped DEF EndWait
    <3>2. \A i \in DOMAIN queue' : queue'[i] \in {queue[i], FlushMsg(Nobody)}
      BY <1>11 DEF EndWait, Unheard
    <3>3. FlushMsg(Nobody).kind # "line"
      BY DEF FlushMsg
    <3> QED BY <1>1, <3>1, <3>2, <3>3
  <2>3. writer' \in WriterState /\ writer'.at = writer.at /\ writer'.size = writer.size
    BY <1>1, <1>11 DEF EndWait, WriterState
  <2> QED BY <1>1, <1>11, <2>1, <2>2, <2>3, TypesRest DEF EndWait, console, counts, output
<1>12. ASSUME NEW t \in Thread, Unwind(t) PROVE TypeInv'
  <2>1. thread' \in [Thread -> ThreadState]
    BY <1>1, <1>2, <1>12 DEF Unwind
  <2> QED BY <1>1, <1>12, <2>1, TypesRest DEF Unwind, counts, output
<1>13. CASE TakeMessage
  <2>1. PICK msg : msg = Head(queue) /\ msg = queue[1] /\ msg \in Message /\ 1 \in DOMAIN queue
    BY <1>1, <1>13 DEF TakeMessage
  <2>2. /\ queue' \in Seq(Message) /\ Len(queue') <= Capacity
        /\ \A i \in DOMAIN queue' : queue'[i].kind = "line" => queue'[i].size \in LineSize
    <3>1. /\ queue' = Tail(queue) /\ queue # <<>> /\ Len(queue) \in Nat
          /\ DOMAIN queue = 1 .. Len(queue)
      BY <1>1, <1>13 DEF TakeMessage
    <3>2. /\ queue' \in Seq(Message) /\ Len(queue') = Len(queue) - 1
          /\ \A i \in DOMAIN queue' : i + 1 \in DOMAIN queue /\ queue'[i] = queue[i + 1]
      BY <1>1, <3>1
    <3>3. Len(queue') <= Capacity
      <4>1. Capacity \in Nat /\ Len(queue) <= Capacity
        BY <1>1, Constants
      <4> QED BY ONLY <3>1, <3>2, <4>1
    <3> QED BY <1>1, <3>2, <3>3
  <2>3. writer' \in WriterState /\ (writer'.at = "files" => writer'.size \in LineSize)
    <3>1. CASE msg.kind = "line"
      <4>1. writer' = [AtTop EXCEPT !.at = "files", !.size = msg.size] /\ msg.size \in LineSize
        BY <1>1, <1>13, <2>1, <3>1 DEF TakeMessage
      <4> QED BY <4>1 DEF AtTop, WriterState
    <3>2. CASE msg.kind = "flush"
      <4>1. writer' = Reporting(msg.of) /\ msg.of \in Thread \cup {Nobody}
        BY <1>13, <2>1, <3>2 DEF TakeMessage, Message
      <4> QED BY <1>1, <4>1, ReportTyped
    <3>3. CASE msg.kind \notin {"line", "flush"}
      <4>1. writer' = AtTop
        BY <1>13, <2>1, <3>3 DEF TakeMessage
      <4> QED BY <4>1 DEF AtTop, WriterState
    <3> QED BY <3>1, <3>2, <3>3
  <2>4. {attached', failing'} \subseteq BOOLEAN /\ dropped' \in Nat
    BY <1>1, <1>13 DEF TakeMessage
  <2> QED BY <1>1, <1>13, <2>2, <2>3, <2>4, TypesRest DEF TakeMessage, console, counts, output
<1>14. CASE MinuteReport
  <2>1. writer' \in WriterState /\ (writer'.at = "files" => writer'.size \in LineSize)
    BY <1>1, <1>14, ReportTyped DEF MinuteReport
  <2> QED BY <1>1, <1>14, <2>1, TypesRest DEF MinuteReport, console, counts, output
<1>15. CASE WriteFiles
  <2> DEFINE Outcomes(f, n, size) == Writes(f, n, size, "refusal" \in env)
  <2>1. ASSUME NEW f \in [Place -> File], NEW n \in Nat, NEW size \in LineSize,
               NEW o \in Outcomes(f, n, size)
        PROVE  o.files \in [Place -> File]
    BY <2>1, WritesTyped
  <2>2. writer.size \in LineSize /\ 1 \in LineSize /\ filed \in Nat
    BY <1>1, <1>15, Constants DEF WriteFiles
  <2>3. files' \in [Place -> File] /\ filed' \in Nat /\ failing' \in BOOLEAN
    <3>1. CASE ~attached
      BY <1>1, <1>15, <3>1 DEF WriteFiles
    <3>2. CASE attached
      <4>1. PICK o \in Outcomes(files, filed + 1, writer.size) :
               /\ failing' = (o.error # "none")
               /\ \/ /\ files' = o.files
                     /\ filed' \in {filed + 1, filed}
                  \/ \E second \in Outcomes(o.files, filed + 2, 1) :
                        files' = second.files /\ filed' \in {filed + 2, filed + 1}
        BY <1>15, <2>2, <3>2 DEF WriteFiles
      <4>2. o.files \in [Place -> File]
        <5>1. filed + 1 \in Nat /\ files \in [Place -> File]
          BY <1>1
        <5> QED BY <2>1, <2>2, <4>1, <5>1
      <4>3. \A second \in Outcomes(o.files, filed + 2, 1) : second.files \in [Place -> File]
        BY <2>1, <2>2, <4>2
      <4> QED BY <2>2, <4>1, <4>2, <4>3
    <3> QED BY <1>1, <3>1, <3>2
  <2>4. writer' \in WriterState /\ writer'.at = "console"
    <3>1. \/ writer' = [writer EXCEPT !.at = "console"]
          \/ \E b \in BOOLEAN : writer' = [writer EXCEPT !.at = "console", !.notice = b]
      BY <1>15 DEF WriteFiles
    <3> QED BY <1>1, <3>1 DEF WriterState
  <2>5. tried' \in Nat
    BY <1>1, <1>15 DEF WriteFiles
  <2> QED BY <1>1, <1>15, <2>3, <2>4, <2>5
          DEF WriteFiles, TypeInv, TypeOK, SizesKnown, console, counts, panics
<1>16. CASE WriteConsole
  <2>1. writer' \in WriterState /\ writer'.at # "files"
    <3>1. CASE writer.notice
      <4>1. writer' = [writer EXCEPT !.notice = FALSE] /\ writer.at = "console"
        BY <1>16, <3>1 DEF WriteConsole
      <4> QED BY <1>1, <4>1 DEF WriterState
    <3>2. CASE ~writer.notice
      <4>1. \E at \in {"top", "ack"} :
               writer' = [AtTop EXCEPT !.at = at, !.flush = writer.flush]
        BY <1>16, <3>2 DEF WriteConsole
      <4>2. writer.flush \in Thread \cup {Nobody, NoFlush}
        BY <1>1 DEF WriterState
      <4>3. AtTop \in WriterState
        BY DEF AtTop, WriterState
      <4>4. PICK at \in {"top", "ack"} :
               writer' = [AtTop EXCEPT !.at = at, !.flush = writer.flush]
        BY <4>1
      <4> QED BY ONLY <4>2, <4>3, <4>4 DEF WriterState
    <3> QED BY <3>1, <3>2
  <2>2. {told', done'} \subseteq Nat
    <3>1. writer.count \in Nat /\ told \in Nat /\ done \in Nat
      BY <1>1 DEF WriterState
    <3> QED BY <1>16, <3>1 DEF WriteConsole
  <2> QED BY <1>1, <1>16, <2>1, <2>2, TypesRest DEF WriteConsole, console, counts
<1>17. CASE Acknowledge
  <2>1. thread' \in [Thread -> ThreadState]
    <3>1. CASE thread' = thread
      BY <1>1, <3>1
    <3>2. CASE thread' = [thread EXCEPT ![writer.flush].acked = TRUE]
      <4>1. \A t \in Thread : [thread[t] EXCEPT !.acked = TRUE] \in ThreadState
        BY <1>2 DEF ThreadState
      <4> QED BY <1>1, <3>2, <4>1
    <3> QED BY <1>17, <3>1, <3>2 DEF Acknowledge
  <2>2. writer' \in WriterState /\ writer'.at = "top"
    BY <1>17 DEF Acknowledge, AtTop, WriterState
  <2> QED BY <1>1, <1>17, <2>1, <2>2, TypesRest DEF Acknowledge, console, counts, output
<1>18. CASE WriterEnds
  <2>1. writer' \in WriterState /\ writer'.at = "gone"
    BY <1>1, <1>18 DEF WriterEnds, WriterState
  <2>2. queue' = <<>> /\ queue' \in Seq(Message) /\ Len(queue') <= Capacity
    BY <1>18, Constants DEF WriterEnds
  <2> QED BY <1>1, <1>18, <2>1, <2>2, TypesRest DEF WriterEnds, console, counts, output
<1>19. CASE Select
  BY <1>1, <1>19, TypesRest DEF Select, counts, output
<1>20. CASE Delete
  <2>1. PICK i \in Place : /\ files' = [files EXCEPT ![i] = NoFile]
                           /\ deleted' = deleted \cup ToSet(files[i].lines)
    BY <1>20 DEF Delete
  <2>2. files' \in [Place -> File]
    BY <1>1, <2>1, FilesTyped
  <2>3. deleted' \subseteq Nat
    <3>1. files[i].lines \in Seq(Nat)
      BY <1>1 DEF File
    <3>2. \A k \in DOMAIN files[i].lines : files[i].lines[k] \in Nat
      BY <3>1
    <3>3. ToSet(files[i].lines) \subseteq Nat
      BY <3>2 DEF ToSet
    <3> QED BY <1>1, <2>1, <3>3
  <2> QED BY <1>1, <1>20, <2>2, <2>3
          DEF Delete, TypeInv, TypeOK, SizesKnown, console, counts, output, panics
<1>21. CASE Tick
  <2>1. ASSUME NEW t \in Thread, Waiting(t) PROVE thread[t].left - 1 \in Nat
    <3>1. thread[t].left \in Nat /\ thread[t].left # 0
      BY <1>2, <1>21, <2>1
         DEF Tick, ThreadDue, Waiting, Acknowledged, WriterGone, TimedOut, ThreadState
    <3> QED BY <3>1
  <2>2. thread' \in [Thread -> ThreadState]
    <3>1. ASSUME NEW t \in Thread PROVE thread'[t] \in ThreadState
      <4>1. CASE Waiting(t)
        <5>1. thread'[t] = [thread[t] EXCEPT !.left = thread[t].left - 1]
          BY <1>21, <4>1 DEF Tick
        <5> QED BY <1>2, <2>1, <4>1, <5>1 DEF ThreadState
      <4>2. CASE ~Waiting(t)
        BY <1>2, <1>21, <4>2 DEF Tick
      <4> QED BY <4>1, <4>2
    <3> QED BY <1>21, <3>1 DEF Tick
  <2>3. budget' \in [Thread -> -Episode .. ReportBudget]
    <3>1. ASSUME NEW t \in Thread
          PROVE  AtLeast(budget[t] - 1, -Episode) \in -Episode .. ReportBudget
      <4>1. Episode \in Nat /\ ReportBudget \in Nat /\ budget[t] \in -Episode .. ReportBudget
        BY <1>1, Constants
      <4> QED BY ONLY <4>1 DEF AtLeast
    <3> QED BY <1>21, <3>1 DEF Tick
  <2>4. quiet' \in [Thread -> 0 .. Episode]
    <3>1. ASSUME NEW t \in Thread
          PROVE  (IF quiet[t] < Episode THEN quiet[t] + 1 ELSE Episode) \in 0 .. Episode
      <4>1. Episode \in Nat /\ quiet[t] \in 0 .. Episode
        BY <1>1, Constants
      <4> QED BY ONLY <4>1
    <3> QED BY <1>21, <3>1, Constants DEF Tick
  <2>5. waited' \in [Thread -> Nat]
    BY <1>1, <1>21 DEF Tick
  <2> QED BY <1>1, <1>21, <2>2, <2>3, <2>4, <2>5
          DEF Tick, TypeInv, TypeOK, SizesKnown, console, counts, output
<1>22. CASE UNCHANGED vars
  BY <1>22 DEF vars, console, counts, output, panics, TypeInv, TypeOK, SizesKnown
<1>23. 1 \in LineSize
  BY Constants
<1> QED
  BY <1>3, <1>4, <1>5, <1>6, <1>7, <1>8, <1>9, <1>10, <1>11, <1>12, <1>13, <1>14, <1>15, <1>16,
     <1>17, <1>18, <1>19, <1>20, <1>21, <1>22, <1>23 DEF Next, Aborted

(* Only Attach ends the start, and until then no other thread does anything.  *)
LEMMA StartStep == ASSUME LoggingAssumption, TypeInv, StartsEmpty, Next PROVE StartsEmpty'
<1>1. thread \in [Thread -> ThreadState] /\ Main \in Thread
  BY Constants DEF TypeInv, TypeOK
<1>2. ASSUME NEW t \in Thread, NEW new, new.at # "start", thread[t].at # "idle",
             thread' = [thread EXCEPT ![t] = new]
      PROVE  StartsEmpty'
  <2>1. CASE t = Main
    BY <1>1, <1>2, <2>1 DEF StartsEmpty
  <2>2. CASE t # Main
    <3>1. thread[Main].at # "start" /\ thread'[Main] = thread[Main]
      BY <1>1, <1>2, <2>2 DEF StartsEmpty
    <3> QED BY <3>1 DEF StartsEmpty
  <2> QED BY <2>1, <2>2
<1>3. ASSUME thread[Main].at # "start", NEW t \in Thread, NEW new, new.at # "start",
             thread' = [thread EXCEPT ![t] = new]
      PROVE  StartsEmpty'
  <2>1. thread'[Main].at # "start"
    BY <1>1, <1>3
  <2> QED BY <2>1 DEF StartsEmpty
<1>4. CASE Attach
  <2>1. Idle.at # "start" /\ thread[Main].at # "idle" /\ thread' = [thread EXCEPT ![Main] = Idle]
    BY <1>4 DEF Attach, Idle
  <2> QED BY <1>1, <1>2, <2>1
<1>5. ASSUME NEW t \in Thread, NEW why, NEW size, Log(t, why, size) PROVE StartsEmpty'
  <2>1. \E new : new.at # "start" /\ thread' = [thread EXCEPT ![t] = new]
    BY <1>5 DEF Log, Idle
  <2> QED BY <1>3, <1>5, <2>1 DEF Log, Free
<1>6. ASSUME NEW t \in Thread, NEW why, Flush(t, why) PROVE StartsEmpty'
  <2>1. \E new : new.at # "start" /\ thread' = [thread EXCEPT ![t] = new]
    <3>1. \A at : [thread[t] EXCEPT !.at = at].at = at
      BY <1>1 DEF ThreadState
    <3>2. Flushing(t, why, FlushTimeout).at = "flush"
      BY <1>1 DEF Flushing, ThreadState
    <3> QED BY <1>1, <1>6, <3>1, <3>2 DEF Flush
  <2>2. CASE Free(t)
    BY <1>3, <2>1, <2>2 DEF Free
  <2>3. CASE thread[t].at = "call"
    BY <1>2, <2>1, <2>3
  <2> QED BY <1>6, <2>2, <2>3 DEF Flush
<1>7. ASSUME NEW t \in Thread, Panic(t) PROVE StartsEmpty'
  <2>1. \E new : new.at # "start" /\ thread' = [thread EXCEPT ![t] = new]
    BY <1>7 DEF Panic, Idle
  <2>2. CASE Free(t)
    BY <1>3, <2>1, <2>2 DEF Free
  <2>3. CASE thread[t].at = "unwind"
    BY <1>2, <2>1, <2>3
  <2> QED BY <1>7, <2>2, <2>3 DEF Panic
<1>8. ASSUME NEW t \in Thread,
             Bump(t) \/ WriteItself(t) \/ Report(t) \/ SendFlush(t) \/ EndWait(t)
      PROVE  StartsEmpty'
  <2>1. /\ \A at : [thread[t] EXCEPT !.at = at].at = at
        /\ Logged(t).at # "start"
        /\ \A written : Over(t, written).at # "start"
    BY <1>1 DEF Logged, Over, Idle, ThreadState
  <2>2. thread[t].at # "idle"
    BY <1>8 DEF Bump, WriteItself, Report, SendFlush, EndWait, Acknowledged, WriterGone,
                TimedOut, Waiting
  <2>3. CASE Bump(t)
    BY <1>1, <1>2, <2>1, <2>2, <2>3 DEF Bump
  <2>4. CASE WriteItself(t)
    <3>1. \E new : /\ thread' = [thread EXCEPT ![t] = new]
                   /\ new \in {[thread[t] EXCEPT !.at = "prompt"],
                               [thread[t] EXCEPT !.at = "unwind"], Logged(t)}
      BY <2>4, WritesItself
    <3> QED BY <1>2, <2>1, <2>2, <3>1
  <2>5. CASE Report(t)
    <3>1. PICK mark, left, drops :
             thread' = [thread EXCEPT ![t] =
                          [[thread[t] EXCEPT !.at = "flush", !.why = "panic", !.left = left,
                                             !.mark = sent, !.drops = drops]
                             EXCEPT !.mark = mark]]
      BY <1>1, <2>5 DEF Report, Flushing
    <3>2. [[thread[t] EXCEPT !.at = "flush", !.why = "panic", !.left = left,
                             !.mark = sent, !.drops = drops] EXCEPT !.mark = mark].at = "flush"
      BY <1>1 DEF ThreadState
    <3> QED BY <1>2, <2>2, <3>1, <3>2
  <2>6. CASE SendFlush(t)
    <3>1. thread' = [thread EXCEPT ![t] = [thread[t] EXCEPT !.at = "ack"]]
      BY <1>1, <2>6 DEF SendFlush
    <3> QED BY <1>2, <2>1, <2>2, <3>1
  <2>7. CASE EndWait(t)
    <3>1. \E written : thread' = [thread EXCEPT ![t] = Over(t, written)]
      BY <1>1, <2>7 DEF EndWait
    <3> QED BY <1>2, <2>1, <2>2, <3>1
  <2> QED BY <1>8, <2>3, <2>4, <2>5, <2>6, <2>7
<1>9. ASSUME NEW t \in Thread, Unwind(t) PROVE StartsEmpty'
  <2>1. CASE thread' = thread
    BY <1>9, <2>1 DEF Unwind, StartsEmpty
  <2>2. CASE thread' = [thread EXCEPT ![t] = Idle]
    <3>1. Idle.at # "start" /\ thread[t].at # "idle"
      BY <1>9 DEF Unwind, Idle
    <3> QED BY <1>2, <2>2, <3>1
  <2> QED BY <1>9, <2>1, <2>2 DEF Unwind
<1>10. ASSUME \A t \in Thread : thread'[t].at = thread[t].at, queue' \in {queue, <<>>}
       PROVE  StartsEmpty'
  BY <1>1, <1>10 DEF StartsEmpty
<1>11. CASE TakeMessage
  <2>1. thread[Main].at # "start" /\ thread' = thread
    BY <1>11 DEF TakeMessage, StartsEmpty
  <2> QED BY <2>1 DEF StartsEmpty
<1>12. CASE MinuteReport \/ WriteFiles \/ WriteConsole \/ WriterEnds \/ Select \/ Delete
  BY <1>10, <1>12 DEF MinuteReport, WriteFiles, WriteConsole, WriterEnds, Select, Delete
<1>13. CASE Acknowledge
  <2>1. \A t \in Thread : [thread[t] EXCEPT !.acked = TRUE].at = thread[t].at
    BY <1>1 DEF ThreadState
  <2> QED BY <1>1, <1>10, <1>13, <2>1 DEF Acknowledge
<1>14. CASE Tick
  <2>1. \A t \in Thread : \A left : [thread[t] EXCEPT !.left = left].at = thread[t].at
    BY <1>1 DEF ThreadState
  <2> QED BY <1>10, <1>14, <2>1 DEF Tick
<1>15. CASE UNCHANGED vars
  BY <1>15 DEF vars, StartsEmpty
<1> QED
  BY <1>4, <1>5, <1>6, <1>7, <1>8, <1>9, <1>11, <1>12, <1>13, <1>14, <1>15 DEF Next, Aborted

-----------------------------------------------------------------------------
(* A panic is brief.                                                          *)
LEMMA HeldInit == ASSUME LoggingAssumption, Init PROVE HeldInv
<1>1. ASSUME NEW t \in Thread
      PROVE  /\ thread[t].at \in {"start", "idle"} /\ budget[t] = -Episode /\ waited[t] = 0
             /\ Episode \in Nat /\ ReportBudget \in Nat
  BY <1>1, Constants DEF Init, Idle
<1>2. ASSUME NEW t \in Thread PROVE AtLeast(budget[t], 0) = 0
  <2>1. budget[t] = -Episode /\ Episode \in Nat /\ Episode > 0
    BY <1>1, Constants
  <2> QED BY ONLY <2>1 DEF AtLeast
<1> QED BY <1>1, <1>2 DEF HeldInv, Panicking, Waiting, AtConsole

(* No writer is started later.                                                *)
LEMMA NoneStays == ASSUME TypeInv, Next PROVE writer'.at # "none" => writer.at # "none"
<1>1. writer \in WriterState
  BY DEF TypeInv, TypeOK
<1>2. \A f : [writer EXCEPT !.flush = f].at = writer.at
  BY <1>1 DEF WriterState
<1>3. CASE TakeMessage \/ MinuteReport \/ WriteFiles \/ WriteConsole \/ Acknowledge \/ WriterEnds
  BY <1>3 DEF TakeMessage, MinuteReport, WriteFiles, WriteConsole, Acknowledge, WriterEnds, Running
<1>4. ASSUME NEW t \in Thread, EndWait(t) PROVE writer'.at = writer.at
  BY <1>2, <1>4 DEF EndWait
<1>5. CASE UNCHANGED writer
  BY <1>5
<1> QED
  BY <1>3, <1>4, <1>5
     DEF Next, Aborted, vars, Attach, Log, Bump, WriteItself, Flush, Panic, Report, SendFlush,
         Unwind, Select, Delete, Tick

(* A step of one thread that lets no time pass and begins no panic.           *)
LEMMA HeldRest ==
    ASSUME TypeInv, HeldInv, UNCHANGED panics, writer'.at # "none" => writer.at # "none",
           NEW t \in Thread, NEW new,
           thread' = [thread EXCEPT ![t] = new],
           new.at = "report" => thread[t].at = "report" /\ new.why = thread[t].why,
           new.at \in {"report", "flush", "ack"} /\ new.why = "panic"
              => Panicking(t) /\ new.left = thread[t].left,
           new.at = "stderr" /\ new.why = "panic" => writer.at = "none"
    PROVE  HeldInv'
<1>1. thread \in [Thread -> ThreadState]
  BY DEF TypeInv, TypeOK
<1>2. ASSUME NEW s \in Thread
      PROVE  /\ thread'[s].at = "report" => thread'[s].why = "panic"
             /\ Panicking(s)' => Panicking(s) /\ thread'[s].left = thread[s].left
             /\ writer.at # "none" => ~AtConsole(s)'
  <2>1. CASE s = t
    BY <1>1, <2>1 DEF Panicking, Waiting, AtConsole, HeldInv
  <2>2. CASE s # t
    BY <1>1, <2>2 DEF Panicking, Waiting, AtConsole, HeldInv
  <2> QED BY <2>1, <2>2
<1> QED BY <1>2 DEF HeldInv, panics, AtLeast

(* A step keeps the budget: what a panic waits is taken from what is left.    *)
LEMMA HeldStep == ASSUME LoggingAssumption, TypeInv, HeldInv, Next PROVE HeldInv'
<1>1. /\ thread \in [Thread -> ThreadState] /\ Main \in Thread
      /\ waited \in [Thread -> Nat] /\ quiet \in [Thread -> 0 .. Episode]
      /\ budget \in [Thread -> -Episode .. ReportBudget]
      /\ writer'.at # "none" => writer.at # "none"
  BY Constants, NoneStays DEF TypeInv, TypeOK
<1>2. ASSUME UNCHANGED panics,
             \A t \in Thread : /\ thread'[t].at = thread[t].at /\ thread'[t].why = thread[t].why
                               /\ thread'[t].left = thread[t].left
      PROVE  HeldInv'
  BY <1>1, <1>2 DEF HeldInv, Panicking, Waiting, AtConsole, panics, AtLeast
<1>3. CASE Attach
  BY <1>1, <1>3, HeldRest DEF Attach, Idle
<1>4. ASSUME NEW t \in Thread, NEW why \in {"log", "fatal"}, NEW size, Log(t, why, size)
      PROVE  HeldInv'
  <2>1. \E new : /\ thread' = [thread EXCEPT ![t] = new]
                 /\ new.at \in {"idle", "call", "bump", "stderr"} /\ new.why # "panic"
    <3>1. PICK new : /\ thread' = [thread EXCEPT ![t] = new]
                     /\ new.at \in {"idle", "call", "bump", "stderr"}
                     /\ new.why \in {"log", why}
      BY <1>4, Logs
    <3> QED BY <1>4, <3>1
  <2>2. UNCHANGED panics
    BY <1>4 DEF Log
  <2> QED BY <1>1, <2>1, <2>2, HeldRest
<1>5. ASSUME NEW t \in Thread, Bump(t) \/ WriteItself(t) \/ EndWait(t) \/ Unwind(t)
      PROVE  HeldInv'
  <2>1. \E new : /\ thread' = [thread EXCEPT ![t] = new]
                 /\ \/ new = thread[t]
                    \/ new.at \notin {"report", "flush", "ack", "stderr"}
    <3>1. /\ \A at : [thread[t] EXCEPT !.at = at].at = at
          /\ Logged(t).at \in {"call", "idle"} /\ Idle.at = "idle"
          /\ \A written : Over(t, written).at \notin {"report", "flush", "ack", "stderr"}
      BY <1>1 DEF Logged, Over, Idle, ThreadState
    <3>2. CASE Bump(t)
      BY <1>1, <3>1, <3>2 DEF Bump
    <3>3. CASE WriteItself(t)
      <4>1. PICK new : /\ thread' = [thread EXCEPT ![t] = new]
                       /\ new \in {[thread[t] EXCEPT !.at = "prompt"],
                                   [thread[t] EXCEPT !.at = "unwind"], Logged(t)}
        BY <3>3, WritesItself
      <4> QED BY <3>1, <4>1
    <3>4. CASE EndWait(t)
      <4>1. PICK written : thread' = [thread EXCEPT ![t] = Over(t, written)]
        BY <1>1, <3>4 DEF EndWait
      <4>2. PICK new : new = Over(t, written)
        OBVIOUS
      <4> QED BY <3>1, <4>1, <4>2
    <3>5. CASE Unwind(t)
      <4>1. thread = [thread EXCEPT ![t] = thread[t]]
        BY <1>1
      <4>2. CASE thread' = thread
        BY <4>1, <4>2
      <4>3. CASE thread' = [thread EXCEPT ![t] = Idle]
        BY <3>1, <4>3
      <4> QED BY <3>5, <4>2, <4>3 DEF Unwind
    <3> QED BY <1>5, <3>2, <3>3, <3>4, <3>5
  <2>2. UNCHANGED panics
    BY <1>5 DEF Bump, WriteItself, EndWait, Unwind
  <2>3. PICK new : /\ thread' = [thread EXCEPT ![t] = new]
                   /\ new = thread[t] \/ new.at \notin {"report", "flush", "ack", "stderr"}
    BY <2>1
  <2>4. CASE new = thread[t]
    BY <1>1, <1>2, <2>2, <2>3, <2>4
  <2>5. CASE new.at \notin {"report", "flush", "ack", "stderr"}
    BY <1>1, <2>2, <2>3, <2>5, HeldRest
  <2> QED BY <2>3, <2>4, <2>5
<1>6. ASSUME NEW t \in Thread, NEW why \in {"log", "fatal"}, Flush(t, why) PROVE HeldInv'
  <2>1. \E new : /\ thread' = [thread EXCEPT ![t] = new]
                 /\ new.at \in {"prompt", "idle"} \/ (new.at = "flush" /\ new.why = why)
    <3>1. \A at : [thread[t] EXCEPT !.at = at].at = at
      BY <1>1 DEF ThreadState
    <3>2. Flushing(t, why, FlushTimeout).at = "flush" /\ Flushing(t, why, FlushTimeout).why = why
      BY <1>1 DEF Flushing, ThreadState
    <3> QED BY <1>1, <1>6, <3>1, <3>2 DEF Flush
  <2> QED BY <1>1, <1>6, <2>1, HeldRest DEF Flush
<1>7. ASSUME NEW t \in Thread, Report(t) PROVE HeldInv'
  <2>1. thread[t].at = "report" /\ thread[t].why = "panic" /\ Panicking(t)
    BY <1>7 DEF Report, HeldInv, Panicking, Waiting
  <2>2. PICK new : /\ thread' = [thread EXCEPT ![t] = new]
                   /\ new = [Flushing(t, "panic", thread[t].left) EXCEPT !.mark = sent']
    BY <1>1, <1>7 DEF Report
  <2>3. new.at = "flush" /\ new.left = thread[t].left
    BY <1>1, <2>2 DEF Flushing, ThreadState
  <2> QED BY <1>1, <1>7, <2>1, <2>2, <2>3, HeldRest DEF Report
<1>8. ASSUME NEW t \in Thread, SendFlush(t) PROVE HeldInv'
  <2>1. thread' = [thread EXCEPT ![t] = [thread[t] EXCEPT !.at = "ack"]]
    BY <1>1, <1>8 DEF SendFlush
  <2>2. LET new == [thread[t] EXCEPT !.at = "ack"]
        IN  new.at = "ack" /\ new.why = thread[t].why /\ new.left = thread[t].left
    BY <1>1 DEF ThreadState
  <2> QED BY <1>1, <1>8, <2>1, <2>2, HeldRest DEF SendFlush, Panicking, Waiting
<1>9. ASSUME NEW t \in Thread, Panic(t) PROVE HeldInv'
  <2>1. CASE writer.at = "none"
    <3>1. [Idle EXCEPT !.at = "stderr", !.why = "panic"].at = "stderr"
      BY DEF Idle
    <3>2. UNCHANGED panics
      BY <1>9, <2>1 DEF Panic, panics
    <3> QED BY <1>1, <1>9, <2>1, <3>1, <3>2, HeldRest DEF Panic
  <2>2. CASE writer.at # "none"
    <3> DEFINE new == [Idle EXCEPT !.at = "report", !.why = "panic",
                                   !.left = AtLeast(BudgetEnd(t), 0)]
    <3>1. /\ budget' = [budget EXCEPT ![t] = BudgetEnd(t)]
          /\ thread' = [thread EXCEPT ![t] = new]
          /\ waited' = waited /\ quiet' = quiet
      BY <1>9, <2>2 DEF Panic
    <3>2. new.at = "report" /\ new.why = "panic" /\ new.left = AtLeast(BudgetEnd(t), 0)
      BY DEF Idle
    <3> HIDE DEF new
    <3>3. /\ waited[t] + AtLeast(BudgetEnd(t), 0) <= ReportBudget
          /\ waited[t] > 0 => quiet[t] < Episode /\ BudgetEnd(t) + quiet[t] >= 0
      <4>1. /\ waited[t] + AtLeast(budget[t], 0) <= ReportBudget
            /\ waited[t] > 0 => quiet[t] < Episode /\ budget[t] + quiet[t] >= 0
        BY <2>2 DEF HeldInv
      <4>2. /\ Episode \in Nat /\ ReportBudget \in Nat /\ budget[t] \in -Episode .. ReportBudget
            /\ waited[t] \in Nat /\ quiet[t] \in 0 .. Episode
        BY <1>1, Constants
      <4> QED BY ONLY <4>1, <4>2 DEF BudgetEnd, AtLeast
    <3>4. ASSUME NEW s \in Thread
          PROVE  /\ thread'[s].at = "report" => thread'[s].why = "panic"
                 /\ Panicking(s)' => thread'[s].left = AtLeast(budget'[s], 0)
                 /\ ~AtConsole(s)'
                 /\ waited'[s] + AtLeast(budget'[s], 0) <= ReportBudget
                 /\ waited'[s] > 0 => quiet'[s] < Episode /\ budget'[s] + quiet'[s] >= 0
      <4>1. CASE s = t
        BY <1>1, <3>1, <3>2, <3>3, <4>1 DEF AtConsole
      <4>2. CASE s # t
        BY <1>1, <2>2, <3>1, <4>2 DEF HeldInv, Panicking, Waiting, AtConsole
      <4> QED BY <4>1, <4>2
    <3> QED BY <3>4 DEF HeldInv, AtLeast
  <2> QED BY <2>1, <2>2
<1>10. CASE Acknowledge
  <2>1. \A t \in Thread : LET new == [thread[t] EXCEPT !.acked = TRUE]
                          IN  new.at = thread[t].at /\ new.why = thread[t].why
                              /\ new.left = thread[t].left
    BY <1>1 DEF ThreadState
  <2> QED BY <1>1, <1>2, <1>10, <2>1 DEF Acknowledge
<1>11. CASE TakeMessage \/ MinuteReport \/ WriteFiles \/ WriteConsole \/ WriterEnds
            \/ Select \/ Delete
  BY <1>2, <1>11 DEF TakeMessage, MinuteReport, WriteFiles, WriteConsole, WriterEnds, Select, Delete
<1>12. CASE Tick
  <2>1. SUFFICES ASSUME NEW t \in Thread
                 PROVE  /\ thread'[t].at = "report" => thread'[t].why = "panic"
                        /\ Panicking(t)' => thread'[t].left = AtLeast(budget'[t], 0)
                        /\ writer'.at # "none" =>
                              /\ ~AtConsole(t)'
                              /\ waited'[t] + AtLeast(budget'[t], 0) <= ReportBudget
                              /\ waited'[t] > 0 => quiet'[t] < Episode /\ budget'[t] + quiet'[t] >= 0
    BY DEF HeldInv, AtLeast
  <2>2. /\ Episode \in Nat /\ Episode > 0 /\ ReportBudget \in Nat
        /\ budget[t] \in -Episode .. ReportBudget
        /\ waited[t] \in Nat /\ quiet[t] \in 0 .. Episode /\ thread[t].left \in Nat
    BY <1>1, Constants DEF ThreadState
  <2>3. writer.at # "none" =>
           /\ ~AtConsole(t) /\ waited[t] + AtLeast(budget[t], 0) <= ReportBudget
           /\ waited[t] > 0 => quiet[t] < Episode /\ budget[t] + quiet[t] >= 0
    BY DEF HeldInv
  <2>4. budget'[t] = AtLeast(budget[t] - 1, -Episode) /\ UNCHANGED <<writer, selected>>
    BY <1>12 DEF Tick, console
  <2>5. /\ thread'[t].at = thread[t].at /\ thread'[t].why = thread[t].why
        /\ Waiting(t) => thread'[t].left = thread[t].left - 1
    <3>1. \A left : LET new == [thread[t] EXCEPT !.left = left]
                    IN  new.at = thread[t].at /\ new.why = thread[t].why /\ new.left = left
      BY <1>1 DEF ThreadState
    <3> QED BY <1>12, <3>1 DEF Tick
  <2>6. (Panicking(t)' <=> Panicking(t)) /\ (AtConsole(t)' <=> AtConsole(t))
    BY <2>5 DEF Panicking, AtConsole, Waiting
  <2>7. CASE Panicking(t)
    <3>1. thread[t].left = AtLeast(budget[t], 0) /\ thread[t].left # 0 /\ Held(t)
      BY <1>12, <2>7 DEF HeldInv, Panicking, Held, Tick, ThreadDue, Waiting, Acknowledged,
                         WriterGone, TimedOut
    <3>2. /\ quiet'[t] = 0 /\ thread'[t].left = thread[t].left - 1
          /\ waited'[t] = waited[t] + IF waited[t] > ReportBudget THEN 0 ELSE 1
      BY <1>12, <2>5, <2>7, <3>1 DEF Tick, Panicking
    <3>3. thread'[t].left = AtLeast(budget'[t], 0)
      BY ONLY <2>2, <2>4, <3>1, <3>2 DEF AtLeast
    <3>4. writer.at # "none" =>
             /\ waited'[t] + AtLeast(budget'[t], 0) <= ReportBudget
             /\ waited'[t] > 0 => quiet'[t] < Episode /\ budget'[t] + quiet'[t] >= 0
      BY ONLY <2>2, <2>3, <2>4, <3>1, <3>2 DEF AtLeast
    <3> QED BY <2>3, <2>4, <2>5, <2>6, <3>3, <3>4 DEF HeldInv
  <2>8. CASE ~Panicking(t)
    <3>1. ASSUME writer.at # "none"
          PROVE  /\ waited'[t] + AtLeast(budget'[t], 0) <= ReportBudget
                 /\ waited'[t] > 0 => quiet'[t] < Episode /\ budget'[t] + quiet'[t] >= 0
      <4>1. ~Held(t)
        BY <2>3, <2>8, <3>1 DEF Held
      <4>2. /\ quiet'[t] = IF quiet[t] < Episode THEN quiet[t] + 1 ELSE Episode
            /\ waited'[t] = IF quiet'[t] = Episode THEN 0 ELSE waited[t]
        BY <1>12, <4>1 DEF Tick
      <4> QED BY ONLY <2>2, <2>3, <2>4, <3>1, <4>2 DEF AtLeast
    <3> QED BY <2>3, <2>4, <2>5, <2>6, <2>8, <3>1 DEF HeldInv
  <2> QED BY <2>7, <2>8
<1>13. CASE UNCHANGED vars
  BY <1>2, <1>13 DEF vars
<1> QED
  BY <1>3, <1>4, <1>5, <1>6, <1>7, <1>8, <1>9, <1>10, <1>11, <1>12, <1>13 DEF Next, Aborted

-----------------------------------------------------------------------------
(* What a flush is told.  A step of a thread that no one answers leaves the   *)
(* writer alone, and queues a line, the attach or nothing.                    *)
Queues(msg) ==
    msg.of = Nobody /\ Send(msg) /\ sent' = sent + (IF msg.kind = "line" THEN 1 ELSE 0)
ByThread(t) ==
    /\ UNCHANGED <<writer, done, told>> /\ dropped' \in {dropped, dropped + 1}
    /\ UNCHANGED <<queue, sent>> \/ \E msg \in Message : Queues(msg)
    /\ \A s \in Thread \ {t} : thread'[s] = thread[s]
    /\ thread[t].at # "ack" /\ thread'[t].at # "ack" /\ thread'[t].acked = FALSE
    /\ thread'[t].at = "flush" => thread'[t].mark <= sent' /\ thread'[t].drops <= Lost'

(* The types, as the steps below use them.                                    *)
LEMMA ThreadStates ==
    ASSUME TypeInv
    PROVE  /\ thread \in [Thread -> ThreadState] /\ queue \in Seq(Message)
           /\ Len(queue) \in Nat /\ DOMAIN queue = 1 .. Len(queue)
           /\ writer \in WriterState /\ writer.count \in Nat
           /\ dropped \in Nat /\ sent \in Nat /\ missed \in Nat /\ done \in Nat /\ told \in Nat
           /\ Lost \in Nat
           /\ \A t \in Thread : /\ thread[t].mark \in Nat /\ thread[t].drops \in Nat
                                /\ thread[t].acked \in BOOLEAN
<1>1. /\ thread \in [Thread -> ThreadState] /\ queue \in Seq(Message) /\ writer \in WriterState
      /\ dropped \in Nat /\ sent \in Nat /\ missed \in Nat /\ done \in Nat /\ told \in Nat
  BY DEF TypeInv, TypeOK
<1>2. Len(queue) \in Nat /\ DOMAIN queue = 1 .. Len(queue)
  BY <1>1
<1>3. writer.count \in Nat
  BY <1>1 DEF WriterState
<1>4. \A t \in Thread : /\ thread[t].mark \in Nat /\ thread[t].drops \in Nat
                        /\ thread[t].acked \in BOOLEAN
  BY <1>1 DEF ThreadState
<1>5. Lost \in Nat
  BY <1>1, <1>3 DEF Lost
<1> QED BY <1>1, <1>2, <1>3, <1>4, <1>5

(* Such a step, from what becomes of its thread.                              *)
LEMMA ActsAlone ==
    ASSUME TypeInv, NEW t \in Thread, NEW new,
           UNCHANGED <<writer, done, told>>, dropped' \in {dropped, dropped + 1},
           UNCHANGED <<queue, sent>> \/ \E msg \in Message : Queues(msg),
           thread' = [thread EXCEPT ![t] = new], thread[t].at # "ack",
           new.at # "ack", new.acked = FALSE,
           new.at = "flush" => new.mark <= sent' /\ new.drops <= Lost'
    PROVE  ByThread(t)
<1>1. thread \in [Thread -> ThreadState]
  BY DEF TypeInv, TypeOK
<1>2. thread'[t] = new /\ \A s \in Thread \ {t} : thread'[s] = thread[s]
  BY <1>1
<1> HIDE DEF Lost
<1> QED BY <1>2 DEF ByThread

(* The steps, by what they do to a flush.                                     *)
LEMMA Actions ==
    ASSUME LoggingAssumption, Next
    PROVE  \/ Aborted \/ Attach
           \/ \E t \in Thread :
                 \/ \E why \in {"log", "fatal"}, size \in LineSize : Log(t, why, size)
                 \/ Bump(t) \/ WriteItself(t) \/ Panic(t) \/ Report(t) \/ Unwind(t)
                 \/ \E why \in {"log", "fatal"} : Flush(t, why)
                 \/ SendFlush(t) \/ EndWait(t)
           \/ TakeMessage \/ MinuteReport \/ WriteFiles \/ WriteConsole \/ Acknowledge
           \/ WriterEnds \/ Select \/ Delete \/ Tick
<1>1. 1 \in LineSize
  BY Constants
<1> QED BY <1>1 DEF Next

(* The steps of a thread that no one answers are such steps.                  *)
LEMMA ThreadsAct ==
    ASSUME LoggingAssumption, TypeInv, OneFlush, NEW t \in Thread,
           \/ t = Main /\ Attach
           \/ \E why \in {"log", "fatal"}, size \in LineSize : Log(t, why, size)
           \/ Bump(t) \/ WriteItself(t) \/ Panic(t) \/ Report(t) \/ Unwind(t)
           \/ \E why \in {"log", "fatal"} : Flush(t, why)
    PROVE  ByThread(t)
<1>1. /\ thread \in [Thread -> ThreadState] /\ dropped \in Nat /\ sent \in Nat /\ Lost \in Nat
      /\ thread[t].mark \in Nat /\ thread[t].drops \in Nat
  BY ThreadStates
<1>2. thread[t].at # "ack" => thread[t].acked = FALSE
  BY ThreadStates DEF OneFlush
<1>3. ASSUME UNCHANGED <<writer, done, told>>, dropped' \in {dropped, dropped + 1},
             UNCHANGED <<queue, sent>> \/ \E msg \in Message : Queues(msg),
             thread[t].at # "ack", NEW new, thread' = [thread EXCEPT ![t] = new],
             new.acked = FALSE, new.at # "ack",
             new.at = "flush" => new.mark <= sent' /\ new.drops <= Lost'
      PROVE  ByThread(t)
  BY <1>3, ActsAlone
<1>4. CASE t = Main /\ Attach
  <2>1. PICK new : new = Idle /\ thread' = [thread EXCEPT ![t] = new]
    BY <1>4 DEF Attach
  <2>2. thread[t].at # "ack" /\ new.acked = FALSE /\ new.at = "idle"
    BY <1>4, <2>1 DEF Attach, Idle
  <2>3. CASE queue' = queue
    BY <1>3, <1>4, <2>1, <2>2, <2>3 DEF Attach, counts, output
  <2>4. CASE Send(AttachMsg)
    <3>1. AttachMsg \in Message /\ AttachMsg.of = Nobody /\ AttachMsg.kind # "line"
      BY QueueTyped DEF AttachMsg
    <3>2. UNCHANGED <<writer, done, told, sent, dropped>>
      BY <1>4 DEF Attach, counts, output
    <3>3. Queues(AttachMsg)
      BY <1>1, <2>4, <3>1, <3>2 DEF Queues
    <3> QED BY <1>3, <2>1, <2>2, <3>1, <3>2, <3>3
  <2> QED BY <1>4, <2>3, <2>4 DEF Attach
<1>5. ASSUME NEW why \in {"log", "fatal"}, NEW size \in LineSize, Log(t, why, size)
      PROVE  ByThread(t)
  <2>1. UNCHANGED <<writer, done, told, dropped>> /\ thread[t].at # "ack"
    BY <1>5 DEF Log, Free, output
  <2>2. PICK new : /\ thread' = [thread EXCEPT ![t] = new] /\ new.acked = FALSE
                   /\ new.at # "flush" /\ new.at # "ack"
                   /\ \/ Send(LineMsg(size)) /\ sent' = sent + 1
                      \/ queue' = queue /\ sent' = sent
    BY <1>5, Logs
  <2>3. LineMsg(size) \in Message /\ LineMsg(size).of = Nobody /\ LineMsg(size).kind = "line"
    BY QueueTyped DEF LineMsg
  <2>4. CASE Send(LineMsg(size)) /\ sent' = sent + 1
    BY <1>3, <2>1, <2>2, <2>3, <2>4 DEF Queues
  <2>5. CASE queue' = queue /\ sent' = sent
    BY <1>3, <2>1, <2>2, <2>5
  <2> QED BY <2>2, <2>4, <2>5
<1>6. CASE Bump(t)
  <2>1. /\ thread' = [thread EXCEPT ![t] = Logged(t)] /\ thread[t].at = "bump"
        /\ dropped' = dropped + 1 /\ UNCHANGED <<writer, done, told, queue, sent>>
    BY <1>6 DEF Bump, counts, output
  <2>2. PICK new : new = Logged(t)
    OBVIOUS
  <2>3. new.acked = FALSE /\ new.at \in {"call", "idle"}
    BY <1>1, <1>2, <2>1, <2>2 DEF Logged, Idle, ThreadState
  <2> QED BY <1>3, <2>1, <2>2, <2>3
<1>7. CASE WriteItself(t)
  <2>1. PICK new : /\ thread' = [thread EXCEPT ![t] = new]
                   /\ new \in {[thread[t] EXCEPT !.at = "prompt"],
                               [thread[t] EXCEPT !.at = "unwind"], Logged(t)}
    BY <1>7, WritesItself
  <2>2. thread[t].at # "ack" /\ UNCHANGED <<writer, done, told, queue, sent, dropped>>
    BY <1>7 DEF WriteItself, counts, output
  <2>3. new.acked = FALSE /\ new.at # "flush" /\ new.at # "ack"
    BY <1>1, <1>2, <2>1, <2>2 DEF Logged, Idle, ThreadState
  <2> QED BY <1>3, <2>1, <2>2, <2>3
<1>8. CASE Panic(t)
  <2>1. thread[t].at # "ack" /\ UNCHANGED <<writer, done, told, queue, sent, dropped>>
    BY <1>8 DEF Panic, Free, counts, output
  <2>2. \E new : /\ thread' = [thread EXCEPT ![t] = new] /\ new.acked = FALSE
                 /\ new.at # "flush" /\ new.at # "ack"
    <3>1. LET new == [Idle EXCEPT !.at = "stderr", !.why = "panic"]
          IN  new.acked = FALSE /\ new.at = "stderr"
      BY DEF Idle
    <3>2. \A left : LET new == [Idle EXCEPT !.at = "report", !.why = "panic", !.left = left]
                    IN  new.acked = FALSE /\ new.at = "report"
      BY DEF Idle
    <3>3. \E new : /\ thread' = [thread EXCEPT ![t] = new]
                   /\ \/ new = [Idle EXCEPT !.at = "stderr", !.why = "panic"]
                      \/ \E left : new = [Idle EXCEPT !.at = "report", !.why = "panic",
                                                       !.left = left]
      BY <1>8 DEF Panic
    <3> QED BY <3>1, <3>2, <3>3
  <2> QED BY <1>3, <2>1, <2>2
<1>9. CASE Report(t)
  <2>1. /\ thread[t].at # "ack" /\ UNCHANGED <<writer, done, told, dropped>>
        /\ Send(LineMsg(1)) /\ sent' = sent + 1
    BY <1>9 DEF Report, output
  <2>2. PICK new : /\ thread' = [thread EXCEPT ![t] = new]
                   /\ new = [Flushing(t, "panic", thread[t].left) EXCEPT !.mark = sent']
    BY <1>1, <1>9 DEF Report
  <2>3. new.acked = FALSE /\ new.at = "flush" /\ new.mark = sent' /\ new.drops = Lost
    BY <1>1, <1>2, <2>1, <2>2, ThreadStates DEF Flushing, ThreadState, Lost
  <2>4. Lost' = Lost
    BY <2>1 DEF Lost
  <2>5. /\ LineMsg(1) \in Message /\ LineMsg(1).of = Nobody /\ LineMsg(1).kind = "line"
    BY QueueTyped, Constants DEF LineMsg
  <2>6. sent' \in Nat /\ Queues(LineMsg(1))
    BY <1>1, <2>1, <2>5 DEF Queues
  <2>7. new.mark <= sent' /\ new.drops <= Lost' /\ new.at # "ack"
    BY <1>1, <2>3, <2>4, <2>6
  <2>8. \E msg \in Message : Queues(msg)
    BY <2>5, <2>6
  <2> QED BY <1>3, <2>1, <2>2, <2>3, <2>7, <2>8
<1>10. CASE Unwind(t)
  <2>1. thread[t].at = "unwind" /\ UNCHANGED <<writer, done, told, queue, sent, dropped>>
    BY <1>10 DEF Unwind, counts, output
  <2>2. CASE thread' = thread
    <3>1. thread' = [thread EXCEPT ![t] = thread[t]]
      BY <1>1, <2>2
    <3>2. PICK new : new = thread[t]
      OBVIOUS
    <3> QED BY <1>2, <1>3, <2>1, <3>1, <3>2
  <2>3. CASE thread' = [thread EXCEPT ![t] = Idle]
    <3>1. PICK new : new = Idle
      OBVIOUS
    <3>2. new.acked = FALSE /\ new.at = "idle"
      BY <3>1 DEF Idle
    <3> QED BY <1>3, <2>1, <2>3, <3>1, <3>2
  <2> QED BY <1>10, <2>2, <2>3 DEF Unwind
<1>11. ASSUME NEW why \in {"log", "fatal"}, Flush(t, why) PROVE ByThread(t)
  <2>1. thread[t].at # "ack" /\ UNCHANGED <<writer, done, told, queue, sent, dropped>>
    BY <1>11 DEF Flush, Free, counts, output
  <2>2. Lost' = Lost
    BY <2>1 DEF Lost
  <2>3. CASE Running
    <3>1. PICK new : new = Flushing(t, why, FlushTimeout)
      OBVIOUS
    <3>2. thread' = [thread EXCEPT ![t] = new]
      BY <1>11, <2>3, <3>1 DEF Flush
    <3>3. new.acked = FALSE /\ new.at = "flush" /\ new.mark = sent /\ new.drops = Lost
      BY <1>1, <1>2, <2>1, <3>1, ThreadStates DEF Flushing, ThreadState, Lost
    <3>4. new.mark <= sent' /\ new.drops <= Lost' /\ new.at # "ack"
      BY <1>1, <2>1, <2>2, <3>3
    <3> QED BY <1>3, <2>1, <3>2, <3>3, <3>4
  <2>4. CASE ~Running
    <3>1. PICK new : new = [thread[t] EXCEPT !.at = IF why = "fatal" THEN "prompt" ELSE "idle"]
      OBVIOUS
    <3>2. thread' = [thread EXCEPT ![t] = new]
      BY <1>1, <1>11, <2>4, <3>1 DEF Flush
    <3>3. new.acked = FALSE /\ new.at \in {"prompt", "idle"}
      BY <1>1, <1>2, <2>1, <3>1 DEF ThreadState
    <3> QED BY <1>3, <2>1, <3>2, <3>3
  <2> QED BY <2>3, <2>4
<1> QED BY <1>4, <1>5, <1>6, <1>7, <1>8, <1>9, <1>10, <1>11


(* A step that leaves what a flush waits for.                                 *)
LEMMA FlushRest ==
    ASSUME FlushInv, UNCHANGED <<queue, sent, done, told, dropped>>,
           \A t \in Thread : /\ thread'[t].at = thread[t].at /\ thread'[t].mark = thread[t].mark
                             /\ thread'[t].drops = thread[t].drops
                             /\ thread'[t].acked = thread[t].acked,
           writer'.flush = writer.flush, writer'.count = writer.count, InWriter' = InWriter,
           writer'.at \in {"top", "ack"} => writer.at = writer'.at, Running' <=> Running
    PROVE  FlushInv'
<1>1. OneFlush'
  BY DEF FlushInv, OneFlush
<1>2. CountsRight'
  BY DEF FlushInv, CountsRight, Lost
<1>3. ASSUME NEW c, Written(c) PROVE Written(c)'
  <2>1. queue' = queue /\ sent' = sent /\ done' = done
    OBVIOUS
  <2>2. c[0] = done' + InWriter' /\ c[Len(queue')] = sent'
    BY <1>3, <2>1 DEF Written
  <2>3. ASSUME NEW i \in DOMAIN queue'
        PROVE  /\ c[i] = c[i - 1] + LineIn(i)'
               /\ queue'[i].of \in Thread => thread'[queue'[i].of].mark <= c[i]
    BY <1>3, <2>1 DEF Written, LineIn
  <2> QED BY <2>2, <2>3 DEF Written
<1>4. LinesCounted'
  BY <1>3 DEF FlushInv, LinesCounted
<1>5. Promised'
  BY DEF FlushInv, Promised
<1> QED BY <1>1, <1>2, <1>4, <1>5 DEF FlushInv

(* The queue with a message that no one waits for.                            *)
LEMMA FlushByThread ==
    ASSUME LoggingAssumption, TypeInv, FlushInv, NEW t \in Thread, ByThread(t)
    PROVE  FlushInv'
<1>1. /\ queue \in Seq(Message) /\ Len(queue) \in Nat /\ DOMAIN queue = 1 .. Len(queue)
      /\ dropped \in Nat /\ sent \in Nat /\ told \in Nat /\ writer.count \in Nat
      /\ \A s \in Thread : /\ thread[s].mark \in Nat /\ thread[s].drops \in Nat
                           /\ thread[s].acked \in BOOLEAN
  BY ThreadStates
<1>2. /\ writer' = writer /\ done' = done /\ told' = told /\ dropped' \in {dropped, dropped + 1}
      /\ \A s \in Thread \ {t} : thread'[s] = thread[s]
      /\ thread[t].at # "ack" /\ thread'[t].at # "ack" /\ thread'[t].acked = FALSE
      /\ thread'[t].at = "flush" => thread'[t].mark <= sent' /\ thread'[t].drops <= Lost'
  BY DEF ByThread
<1>3. sent' \in Nat /\ sent' >= sent
  BY <1>1 DEF ByThread, Queues
<1>4. Lost \in Nat /\ Lost' \in Nat /\ Lost' >= Lost
  BY <1>1, <1>2 DEF Lost
<1>5. \A i \in DOMAIN queue' : queue'[i].of \in Thread =>
         i \in DOMAIN queue /\ queue'[i] = queue[i]
  <2>1. CASE queue' = queue
    BY <2>1
  <2>2. ASSUME NEW msg \in Message, Queues(msg)
        PROVE  \A i \in DOMAIN queue' : queue'[i].of \in Thread =>
                  i \in DOMAIN queue /\ queue'[i] = queue[i]
    <3>1. /\ DOMAIN queue' = 1 .. Len(queue) + 1 /\ queue'[Len(queue) + 1] = msg
          /\ \A i \in 1 .. Len(queue) : queue'[i] = queue[i]
      BY <1>1, <2>2 DEF Queues, Send
    <3>2. msg.of \notin Thread
      BY <2>2, Constants DEF Queues
    <3> QED BY <1>1, <3>1, <3>2
  <2> QED BY <2>1, <2>2 DEF ByThread
<1>6. \A s \in Thread : \/ writer.flush = s
                        \/ \E i \in DOMAIN queue : queue[i].of = s
                        => thread'[s] = thread[s] /\ thread[s].at = "ack"
  BY <1>2 DEF FlushInv, OneFlush
<1>7. OneFlush'
  <2>1. SUFFICES ASSUME NEW s \in Thread
                 PROVE  /\ thread'[s].acked => thread'[s].at = "ack"
                        /\ \/ \E i \in DOMAIN queue' : queue'[i].of = s
                           \/ writer'.flush = s
                           => thread'[s].at = "ack" /\ ~thread'[s].acked
                        /\ \A i, j \in DOMAIN queue' :
                              queue'[i].of = s /\ queue'[j].of = s => i = j
                        /\ writer'.flush = s => \A i \in DOMAIN queue' : queue'[i].of # s
    BY DEF OneFlush
  <2>2. /\ thread[s].acked => thread[s].at = "ack"
        /\ \/ \E i \in DOMAIN queue : queue[i].of = s
           \/ writer.flush = s
           => thread[s].at = "ack" /\ ~thread[s].acked
        /\ \A i, j \in DOMAIN queue : queue[i].of = s /\ queue[j].of = s => i = j
        /\ writer.flush = s => \A i \in DOMAIN queue : queue[i].of # s
    BY DEF FlushInv, OneFlush
  <2>3. thread'[s].acked => thread'[s].at = "ack"
    BY <1>2, <2>2
  <2>4. \A i \in DOMAIN queue' : queue'[i].of = s => i \in DOMAIN queue /\ queue[i].of = s
    BY <1>5
  <2> QED BY <1>2, <1>6, <2>2, <2>3, <2>4
<1>8. CountsRight'
  <2>1. \A i \in DOMAIN queue' : queue'[i].of \in Thread => queue'[i].kind = "flush"
    BY <1>5 DEF FlushInv, CountsRight
  <2>2. ASSUME NEW s \in Thread, thread'[s].at \in {"flush", "ack"}
        PROVE  thread'[s].mark <= sent' /\ thread'[s].drops <= Lost'
    <3>1. CASE s = t
      BY <1>2, <2>2, <3>1
    <3>2. CASE s # t
      <4>1. thread'[s] = thread[s] /\ thread[s].mark <= sent /\ thread[s].drops <= Lost
        BY <1>2, <2>2, <3>2 DEF FlushInv, CountsRight
      <4> QED BY <1>1, <1>3, <1>4, <4>1
    <3> QED BY <3>1, <3>2
  <2>3. writer'.at \in {"top", "ack"} => writer'.count = 0
    BY <1>2 DEF FlushInv, CountsRight
  <2> QED BY <2>1, <2>2, <2>3 DEF CountsRight
<1>9. LinesCounted'
  <2>1. SUFFICES ASSUME Running PROVE \E c \in [0 .. Len(queue') -> Nat] : Written(c)'
    BY <1>2 DEF LinesCounted, Running
  <2>2. PICK c \in [0 .. Len(queue) -> Nat] : Written(c)
    BY <2>1 DEF FlushInv, LinesCounted
  <2>3. /\ c[0] = done + InWriter /\ c[Len(queue)] = sent
        /\ \A i \in DOMAIN queue :
              /\ c[i] = c[i - 1] + LineIn(i)
              /\ queue[i].of \in Thread => thread[queue[i].of].mark <= c[i]
    BY <2>2 DEF Written
  <2>4. InWriter' = InWriter
    BY <1>2 DEF InWriter
  <2>5. CASE UNCHANGED <<queue, sent>>
    <3>1. ASSUME NEW i \in DOMAIN queue'
          PROVE  /\ c[i] = c[i - 1] + LineIn(i)'
                 /\ queue'[i].of \in Thread => thread'[queue'[i].of].mark <= c[i]
      BY <1>6, <2>3, <2>5 DEF LineIn
    <3> QED BY <1>2, <2>3, <2>4, <2>5, <3>1 DEF Written
  <2>6. ASSUME NEW msg \in Message, Queues(msg)
        PROVE  \E d \in [0 .. Len(queue') -> Nat] : Written(d)'
    <3>1. /\ DOMAIN queue' = 1 .. Len(queue) + 1 /\ queue'[Len(queue) + 1] = msg
          /\ Len(queue') = Len(queue) + 1
          /\ \A i \in 1 .. Len(queue) : queue'[i] = queue[i]
          /\ sent' = sent + (IF msg.kind = "line" THEN 1 ELSE 0) /\ msg.of \notin Thread
      BY <1>1, <2>6, Constants DEF Queues, Send
    <3>0. PICK d : d = [i \in 0 .. Len(queue) + 1 |->
                             IF i = Len(queue) + 1 THEN sent' ELSE c[i]]
      OBVIOUS
    <3>2. /\ \A i \in 0 .. Len(queue) : d[i] = c[i] /\ c[i] \in Nat
          /\ d[Len(queue) + 1] = sent'
          /\ d \in [0 .. Len(queue') -> Nat]
      <4>1. /\ \A i \in 0 .. Len(queue) + 1 : d[i] = IF i = Len(queue) + 1 THEN sent' ELSE c[i]
            /\ DOMAIN d = 0 .. Len(queue) + 1
        BY <3>0
      <4>2. \A i \in 0 .. Len(queue) : c[i] \in Nat
        OBVIOUS
      <4>3. \A i \in 0 .. Len(queue) + 1 : d[i] \in Nat
        BY <1>1, <1>3, <4>1, <4>2
      <4>4. d \in [0 .. Len(queue) + 1 -> Nat]
        BY <3>0, <4>1, <4>3
      <4>5. d \in [0 .. Len(queue') -> Nat]
        BY <3>1, <4>4
      <4>6. \A i \in 0 .. Len(queue) : d[i] = c[i]
        BY <1>1, <4>1
      <4>7. d[Len(queue) + 1] = sent'
        BY <1>1, <4>1
      <4> QED BY <4>2, <4>5, <4>6, <4>7
    <3>3. d[0] = done' + InWriter' /\ d[Len(queue')] = sent'
      BY <1>1, <1>2, <2>3, <2>4, <3>1, <3>2
    <3>4. ASSUME NEW i \in DOMAIN queue'
          PROVE  /\ d[i] = d[i - 1] + LineIn(i)'
                 /\ queue'[i].of \in Thread => thread'[queue'[i].of].mark <= d[i]
      <4>1. CASE i \in 1 .. Len(queue)
        <5>1. queue'[i] = queue[i] /\ i - 1 \in 0 .. Len(queue) /\ i \in 0 .. Len(queue)
          BY <1>1, <3>1, <4>1
        <5>2. d[i] = c[i] /\ d[i - 1] = c[i - 1] /\ LineIn(i)' = LineIn(i)
          BY <3>2, <5>1 DEF LineIn
        <5> QED BY <1>1, <1>6, <2>3, <4>1, <5>1, <5>2
      <4>2. CASE i = Len(queue) + 1
        <5>1. d[i] = sent' /\ d[i - 1] = sent /\ queue'[i] = msg
          BY <1>1, <2>3, <3>1, <3>2, <4>2
        <5> QED BY <3>1, <5>1 DEF LineIn
      <4> QED BY <1>1, <3>1, <4>1, <4>2
    <3>5. Written(d)'
      BY <3>3, <3>4 DEF Written
    <3> QED BY <3>2, <3>5
  <2> QED BY <2>2, <2>5, <2>6 DEF ByThread
<1>10. Promised'
  <2>1. ASSUME NEW s \in Thread, writer'.flush = s
        PROVE  thread'[s].mark <= done' /\ thread'[s].drops <= told' + writer'.count
    BY <1>2, <1>6, <2>1 DEF FlushInv, Promised
  <2>2. ASSUME NEW s \in Thread, thread'[s].acked
        PROVE  thread'[s].mark <= done' /\ thread'[s].drops <= told'
    <3>1. s # t /\ thread'[s] = thread[s]
      BY <1>2, <2>2
    <3> QED BY <1>2, <2>2, <3>1 DEF FlushInv, Promised
  <2> QED BY <2>1, <2>2 DEF Promised
<1> QED BY <1>7, <1>8, <1>9, <1>10 DEF FlushInv

(* At the start nothing is logged and no one waits.                           *)
LEMMA FlushInit == ASSUME LoggingAssumption, Init PROVE FlushInv
<1>1. /\ queue = <<>> /\ sent = 0 /\ done = 0 /\ told = 0 /\ dropped = 0
      /\ writer.flush = NoFlush /\ writer.count = 0 /\ writer.at \in {"none", "top"}
      /\ InWriter = 0
  BY DEF Init, AtTop, InWriter
<1>2. \A t \in Thread : thread[t].at \in {"start", "idle"} /\ thread[t].acked = FALSE
  BY DEF Init, Idle
<1>3. NoFlush \notin Thread
  BY Constants
<1>4. OneFlush /\ CountsRight /\ Promised
  BY <1>1, <1>2, <1>3 DEF OneFlush, CountsRight, Promised
<1>5. LinesCounted
  <2>1. PICK c \in [0 .. Len(queue) -> Nat] : c = [i \in 0 .. Len(queue) |-> 0]
    OBVIOUS
  <2>2. Len(queue) = 0 /\ DOMAIN queue = {} /\ c[0] = 0
    BY <1>1, <2>1
  <2>3. Written(c)
    BY <1>1, <2>2 DEF Written
  <2> QED BY <2>3 DEF LinesCounted
<1> QED BY <1>4, <1>5 DEF FlushInv

(* The message of a flush is behind all that was logged before.               *)
LEMMA FlushSent ==
    ASSUME LoggingAssumption, TypeInv, FlushInv, NEW t \in Thread, SendFlush(t)
    PROVE  FlushInv'
<1>1. /\ thread \in [Thread -> ThreadState] /\ queue \in Seq(Message)
      /\ Len(queue) \in Nat /\ DOMAIN queue = 1 .. Len(queue) /\ sent \in Nat
      /\ \A s \in Thread : thread[s].acked \in BOOLEAN
  BY ThreadStates
<1>2. /\ UNCHANGED <<writer, done, told, dropped, sent>>
      /\ thread[t].at = "flush" /\ Running
      /\ queue' = Append(queue, FlushMsg(t))
      /\ \A s \in Thread \ {t} : thread'[s] = thread[s]
      /\ thread'[t] = [thread[t] EXCEPT !.at = "ack"]
  BY <1>1 DEF SendFlush, Send, counts, output
<1>3. /\ thread'[t].at = "ack" /\ thread'[t].mark = thread[t].mark
      /\ thread'[t].drops = thread[t].drops /\ thread'[t].acked = thread[t].acked
      /\ thread[t].acked = FALSE
  BY <1>1, <1>2 DEF ThreadState, FlushInv, OneFlush
<1>4. /\ DOMAIN queue' = 1 .. Len(queue) + 1 /\ Len(queue') = Len(queue) + 1
      /\ \A i \in 1 .. Len(queue) : queue'[i] = queue[i]
      /\ queue'[Len(queue) + 1].of = t /\ queue'[Len(queue) + 1].kind = "flush"
  BY <1>1, <1>2, QueueTyped DEF FlushMsg
<1>5. writer.flush # t /\ \A i \in DOMAIN queue : queue[i].of # t
  BY <1>2 DEF FlushInv, OneFlush
<1>6. OneFlush'
  <2>1. SUFFICES ASSUME NEW s \in Thread
                 PROVE  /\ thread'[s].acked => thread'[s].at = "ack"
                        /\ \/ \E i \in DOMAIN queue' : queue'[i].of = s
                           \/ writer'.flush = s
                           => thread'[s].at = "ack" /\ ~thread'[s].acked
                        /\ \A i, j \in DOMAIN queue' :
                              queue'[i].of = s /\ queue'[j].of = s => i = j
                        /\ writer'.flush = s => \A i \in DOMAIN queue' : queue'[i].of # s
    BY DEF OneFlush
  <2>2. /\ thread[s].acked => thread[s].at = "ack"
        /\ \/ \E i \in DOMAIN queue : queue[i].of = s
           \/ writer.flush = s
           => thread[s].at = "ack" /\ ~thread[s].acked
        /\ \A i, j \in DOMAIN queue : queue[i].of = s /\ queue[j].of = s => i = j
        /\ writer.flush = s => \A i \in DOMAIN queue : queue[i].of # s
    BY DEF FlushInv, OneFlush
  <2>3. CASE s = t
    <3>1. \A i \in DOMAIN queue' : queue'[i].of = t => i = Len(queue) + 1
      BY <1>1, <1>4, <1>5
    <3> QED BY <1>2, <1>3, <1>5, <2>3, <3>1
  <2>4. CASE s # t
    <3>1. \A i \in DOMAIN queue' : queue'[i].of = s => i \in DOMAIN queue /\ queue[i].of = s
      BY <1>1, <1>4, <2>4
    <3> QED BY <1>2, <2>2, <2>4, <3>1
  <2> QED BY <2>3, <2>4
<1>7. CountsRight'
  <2>1. \A i \in DOMAIN queue' : queue'[i].of \in Thread => queue'[i].kind = "flush"
    BY <1>1, <1>4 DEF FlushInv, CountsRight
  <2>2. Lost' = Lost
    BY <1>2 DEF Lost
  <2>3. \A s \in Thread : thread'[s].at \in {"flush", "ack"} =>
           thread'[s].mark <= sent' /\ thread'[s].drops <= Lost'
    BY <1>2, <1>3, <2>2 DEF FlushInv, CountsRight
  <2> QED BY <1>2, <2>1, <2>3 DEF FlushInv, CountsRight
<1>8. LinesCounted'
  <2>1. PICK c \in [0 .. Len(queue) -> Nat] : Written(c)
    BY <1>2 DEF FlushInv, LinesCounted
  <2>2. /\ c[0] = done + InWriter /\ c[Len(queue)] = sent
        /\ \A i \in DOMAIN queue :
              /\ c[i] = c[i - 1] + LineIn(i)
              /\ queue[i].of \in Thread => thread[queue[i].of].mark <= c[i]
    BY <2>1 DEF Written
  <2>3. InWriter' = InWriter
    BY <1>2 DEF InWriter
  <2>4. PICK d : d = [i \in 0 .. Len(queue) + 1 |-> IF i = Len(queue) + 1 THEN sent ELSE c[i]]
    OBVIOUS
  <2>5. /\ \A i \in 0 .. Len(queue) : d[i] = c[i] /\ c[i] \in Nat
        /\ d[Len(queue) + 1] = sent
        /\ d \in [0 .. Len(queue') -> Nat]
    <3>1. /\ \A i \in 0 .. Len(queue) + 1 : d[i] = IF i = Len(queue) + 1 THEN sent ELSE c[i]
          /\ DOMAIN d = 0 .. Len(queue) + 1
      BY <2>4
    <3>2. \A i \in 0 .. Len(queue) : c[i] \in Nat
      OBVIOUS
    <3>3. \A i \in 0 .. Len(queue) + 1 : d[i] \in Nat
      BY <1>1, <3>1, <3>2
    <3>4. d \in [0 .. Len(queue) + 1 -> Nat]
      BY <2>4, <3>1, <3>3
    <3> QED BY <1>1, <1>4, <3>1, <3>2, <3>4
  <2>6. d[0] = done' + InWriter' /\ d[Len(queue')] = sent'
    BY <1>1, <1>2, <1>4, <2>2, <2>3, <2>5
  <2>7. ASSUME NEW i \in DOMAIN queue'
        PROVE  /\ d[i] = d[i - 1] + LineIn(i)'
               /\ queue'[i].of \in Thread => thread'[queue'[i].of].mark <= d[i]
    <3>1. CASE i \in 1 .. Len(queue)
      <4>1. queue'[i] = queue[i] /\ i - 1 \in 0 .. Len(queue) /\ i \in 0 .. Len(queue)
        BY <1>1, <1>4, <3>1
      <4>2. d[i] = c[i] /\ d[i - 1] = c[i - 1] /\ LineIn(i)' = LineIn(i)
        BY <2>5, <4>1 DEF LineIn
      <4>3. queue[i].of # t
        BY <1>1, <1>5, <3>1
      <4> QED BY <1>1, <1>2, <2>2, <3>1, <4>1, <4>2, <4>3
    <3>2. CASE i = Len(queue) + 1
      <4>1. d[i] = sent /\ d[i - 1] = sent /\ LineIn(i)' = 0
        BY <1>1, <1>4, <2>2, <2>5, <3>2 DEF LineIn
      <4>2. thread'[queue'[i].of].mark <= sent
        BY <1>2, <1>3, <1>4, <3>2 DEF FlushInv, CountsRight
      <4> QED BY <1>1, <4>1, <4>2
    <3> QED BY <1>1, <1>4, <3>1, <3>2
  <2>8. Written(d)'
    BY <2>6, <2>7 DEF Written
  <2> QED BY <2>5, <2>8 DEF LinesCounted
<1>9. Promised'
  <2>1. ASSUME NEW s \in Thread
        PROVE  /\ thread'[s].mark = thread[s].mark /\ thread'[s].drops = thread[s].drops
               /\ thread'[s].acked = thread[s].acked
    BY <1>2, <1>3
  <2> QED BY <1>2, <2>1 DEF FlushInv, Promised
<1> QED BY <1>6, <1>7, <1>8, <1>9 DEF FlushInv

(* A wait that ends leaves no message that its thread waits for.              *)
LEMMA FlushEnds ==
    ASSUME LoggingAssumption, TypeInv, FlushInv, NEW t \in Thread, EndWait(t)
    PROVE  FlushInv'
<1>1. /\ thread \in [Thread -> ThreadState] /\ queue \in Seq(Message)
      /\ Len(queue) \in Nat /\ DOMAIN queue = 1 .. Len(queue) /\ writer \in WriterState
  BY ThreadStates
<1>2. Nobody \notin Thread
  BY Constants
<1>3. /\ UNCHANGED <<done, told, dropped, sent>> /\ queue' = Unheard(queue, t)
      /\ writer' = [writer EXCEPT !.flush = IF writer.flush = t THEN Nobody ELSE writer.flush]
      /\ \A s \in Thread \ {t} : thread'[s] = thread[s]
      /\ \E written : thread'[t] = Over(t, written)
  BY <1>1 DEF EndWait, counts, output
<1>4. thread'[t].at \notin {"flush", "ack"} /\ thread'[t].acked = FALSE
  <2>1. \A written : Over(t, written).at \notin {"flush", "ack"} /\ Over(t, written).acked = FALSE
    BY <1>1 DEF Over, Idle, ThreadState
  <2> QED BY <1>3, <2>1
<1>5. /\ writer'.at = writer.at /\ writer'.own = writer.own /\ writer'.count = writer.count
      /\ \A s \in Thread : writer'.flush = s => s # t /\ writer.flush = s
  BY <1>1, <1>2, <1>3 DEF WriterState
<1>6. /\ DOMAIN queue' = DOMAIN queue /\ Len(queue') = Len(queue)
      /\ \A i \in DOMAIN queue :
            queue'[i] = IF queue[i].of = t THEN FlushMsg(Nobody) ELSE queue[i]
  BY <1>1, <1>3, QueueTyped DEF Unheard
<1>7. \A i \in DOMAIN queue : /\ queue'[i].of \in Thread => queue'[i] = queue[i] /\ queue[i].of # t
                              /\ queue'[i].kind = queue[i].kind
  BY <1>2, <1>6 DEF FlushMsg, FlushInv, CountsRight
<1>8. OneFlush'
  <2>1. SUFFICES ASSUME NEW s \in Thread
                 PROVE  /\ thread'[s].acked => thread'[s].at = "ack"
                        /\ \/ \E i \in DOMAIN queue' : queue'[i].of = s
                           \/ writer'.flush = s
                           => thread'[s].at = "ack" /\ ~thread'[s].acked
                        /\ \A i, j \in DOMAIN queue' :
                              queue'[i].of = s /\ queue'[j].of = s => i = j
                        /\ writer'.flush = s => \A i \in DOMAIN queue' : queue'[i].of # s
    BY DEF OneFlush
  <2>2. /\ thread[s].acked => thread[s].at = "ack"
        /\ \/ \E i \in DOMAIN queue : queue[i].of = s
           \/ writer.flush = s
           => thread[s].at = "ack" /\ ~thread[s].acked
        /\ \A i, j \in DOMAIN queue : queue[i].of = s /\ queue[j].of = s => i = j
        /\ writer.flush = s => \A i \in DOMAIN queue : queue[i].of # s
    BY DEF FlushInv, OneFlush
  <2>3. \A i \in DOMAIN queue' : queue'[i].of = s =>
           s # t /\ i \in DOMAIN queue /\ queue[i].of = s
    BY <1>6, <1>7
  <2> QED BY <1>3, <1>4, <1>5, <2>2, <2>3
<1>9. CountsRight'
  <2>1. \A i \in DOMAIN queue' : queue'[i].of \in Thread => queue'[i].kind = "flush"
    BY <1>6, <1>7 DEF FlushInv, CountsRight
  <2>2. Lost' = Lost
    BY <1>3, <1>5 DEF Lost
  <2>3. \A s \in Thread : thread'[s].at \in {"flush", "ack"} =>
           thread'[s].mark <= sent' /\ thread'[s].drops <= Lost'
    BY <1>3, <1>4, <2>2 DEF FlushInv, CountsRight
  <2> QED BY <1>5, <2>1, <2>3 DEF FlushInv, CountsRight
<1>10. LinesCounted'
  <2>1. SUFFICES ASSUME Running PROVE \E c \in [0 .. Len(queue') -> Nat] : Written(c)'
    BY <1>5 DEF LinesCounted, Running
  <2>2. PICK c \in [0 .. Len(queue) -> Nat] : Written(c)
    BY <2>1 DEF FlushInv, LinesCounted
  <2>3. InWriter' = InWriter
    BY <1>5 DEF InWriter
  <2>4. ASSUME NEW i \in DOMAIN queue
        PROVE  /\ c[i] = c[i - 1] + LineIn(i)'
               /\ queue'[i].of \in Thread => thread'[queue'[i].of].mark <= c[i]
    <3>1. /\ c[i] = c[i - 1] + LineIn(i)
          /\ queue[i].of \in Thread => thread[queue[i].of].mark <= c[i]
      BY <2>2 DEF Written
    <3> QED BY <1>3, <1>7, <3>1 DEF LineIn
  <2>5. c[0] = done' + InWriter' /\ c[Len(queue')] = sent'
    BY <1>3, <1>6, <2>2, <2>3 DEF Written
  <2>6. Written(c)'
    BY <1>6, <2>4, <2>5 DEF Written
  <2> QED BY <1>6, <2>6
<1>11. Promised'
  <2>1. ASSUME NEW s \in Thread, s # t
        PROVE  /\ writer'.flush = s => thread'[s].mark <= done'
                                       /\ thread'[s].drops <= told' + writer'.count
               /\ thread'[s].acked => thread'[s].mark <= done' /\ thread'[s].drops <= told'
    BY <1>3, <1>5, <2>1 DEF FlushInv, Promised
  <2> QED BY <1>4, <1>5, <2>1 DEF Promised
<1> QED BY <1>8, <1>9, <1>10, <1>11 DEF FlushInv

(* The writer takes a message: a flush is told what was counted before.       *)
LEMMA FlushTaken ==
    ASSUME LoggingAssumption, TypeInv, FlushInv, TakeMessage
    PROVE  FlushInv'
<1>1. /\ thread \in [Thread -> ThreadState] /\ queue \in Seq(Message)
      /\ Len(queue) \in Nat /\ DOMAIN queue = 1 .. Len(queue) /\ writer \in WriterState
      /\ dropped \in Nat /\ told \in Nat /\ done \in Nat /\ sent \in Nat
      /\ \A s \in Thread : thread[s].mark \in Nat /\ thread[s].drops \in Nat
  BY ThreadStates
<1>2. PICK msg : msg = queue[1]
  OBVIOUS
<1>3. /\ writer.at = "top" /\ queue # <<>> /\ queue' = Tail(queue)
      /\ writer' = CASE msg.kind = "line"  -> [AtTop EXCEPT !.at = "files", !.size = msg.size]
                     [] msg.kind = "flush" -> Reporting(msg.of)
                     [] OTHER -> AtTop
      /\ dropped' = IF msg.kind = "flush" THEN 0 ELSE dropped
      /\ thread' = thread /\ done' = done /\ told' = told /\ sent' = sent
  <2>1. Head(queue) = msg /\ UNCHANGED <<thread, done, told, sent>>
    BY <1>1, <1>2 DEF TakeMessage, counts, output
  <2> QED BY <2>1 DEF TakeMessage
<1>4. /\ Len(queue) > 0 /\ DOMAIN queue' = 1 .. Len(queue) - 1 /\ Len(queue') = Len(queue) - 1
      /\ \A i \in 1 .. Len(queue) - 1 : queue'[i] = queue[i + 1]
      /\ 1 \in DOMAIN queue /\ msg \in Message
      /\ msg.kind \in {"line", "attach", "flush"} /\ msg.of \in Thread \cup {Nobody}
  <2>1. Len(queue) > 0 /\ 1 \in DOMAIN queue
    BY <1>1, <1>3
  <2>2. msg \in Message
    BY <1>1, <1>2, <2>1
  <2> QED BY <1>1, <1>3, <2>1, <2>2 DEF Message
<1>5. writer.count = 0 /\ InWriter = 0
  BY <1>3 DEF FlushInv, CountsRight, InWriter
<1>6. /\ msg.kind = "line" => /\ writer'.at = "files" /\ writer'.own = FALSE
                              /\ writer'.count = 0 /\ writer'.flush = NoFlush
      /\ msg.kind = "flush" => /\ writer'.flush = msg.of /\ writer'.count = dropped
                               /\ \/ dropped = 0 /\ writer'.at \in {"top", "ack"}
                                  \/ writer'.at = "files" /\ writer'.own = TRUE
      /\ msg.kind = "attach" => /\ writer'.at = "top" /\ writer'.count = 0
                                /\ writer'.flush = NoFlush
  BY <1>3 DEF AtTop, Reporting
<1>7. Lost' = Lost
  BY <1>1, <1>3, <1>4, <1>5, <1>6 DEF Lost
<1>8. InWriter' = LineIn(1)
  BY <1>2, <1>4, <1>6 DEF InWriter, LineIn
<1>9. \A s \in Thread : writer'.flush = s => msg.kind = "flush" /\ queue[1].of = s
  BY <1>2, <1>4, <1>6, Constants
<1>10. OneFlush'
  <2>1. SUFFICES ASSUME NEW s \in Thread
                 PROVE  /\ thread[s].acked => thread[s].at = "ack"
                        /\ \/ \E i \in DOMAIN queue' : queue'[i].of = s
                           \/ writer'.flush = s
                           => thread[s].at = "ack" /\ ~thread[s].acked
                        /\ \A i, j \in DOMAIN queue' :
                              queue'[i].of = s /\ queue'[j].of = s => i = j
                        /\ writer'.flush = s => \A i \in DOMAIN queue' : queue'[i].of # s
    BY <1>3 DEF OneFlush
  <2>2. /\ thread[s].acked => thread[s].at = "ack"
        /\ \/ \E i \in DOMAIN queue : queue[i].of = s
           => thread[s].at = "ack" /\ ~thread[s].acked
        /\ \A i, j \in DOMAIN queue : queue[i].of = s /\ queue[j].of = s => i = j
    BY DEF FlushInv, OneFlush
  <2>3. \A i \in DOMAIN queue' : i + 1 \in DOMAIN queue /\ queue'[i] = queue[i + 1]
    BY <1>1, <1>4
  <2>4. \A i, j \in DOMAIN queue' : queue'[i].of = s /\ queue'[j].of = s => i = j
    <3>1. SUFFICES ASSUME NEW i \in DOMAIN queue', NEW j \in DOMAIN queue',
                          queue'[i].of = s, queue'[j].of = s
                   PROVE  i = j
      OBVIOUS
    <3>2. i + 1 = j + 1
      BY <2>2, <2>3, <3>1
    <3> QED BY <1>1, <1>4, <3>2
  <2>5. writer'.flush = s => \A i \in DOMAIN queue' : queue'[i].of # s
    <3>1. SUFFICES ASSUME writer'.flush = s, NEW i \in DOMAIN queue', queue'[i].of = s
                   PROVE  FALSE
      OBVIOUS
    <3>2. i + 1 = 1
      BY <1>4, <1>9, <2>2, <2>3, <3>1
    <3> QED BY <1>1, <1>4, <3>2
  <2>6. writer'.flush = s \/ (\E i \in DOMAIN queue' : queue'[i].of = s)
           => \E i \in DOMAIN queue : queue[i].of = s
    BY <1>4, <1>9, <2>3
  <2> QED BY <2>2, <2>4, <2>5, <2>6
<1>11. CountsRight'
  <2>1. \A i \in DOMAIN queue' : queue'[i].of \in Thread => queue'[i].kind = "flush"
    <3>1. \A i \in DOMAIN queue' : i + 1 \in DOMAIN queue /\ queue'[i] = queue[i + 1]
      BY <1>1, <1>4
    <3> QED BY <3>1 DEF FlushInv, CountsRight
  <2>2. writer'.at \in {"top", "ack"} => writer'.count = 0
    BY <1>4, <1>6
  <2> QED BY <1>3, <1>7, <2>1, <2>2 DEF FlushInv, CountsRight
<1>12. Running /\ \E c \in [0 .. Len(queue) -> Nat] : Written(c)
  BY <1>3 DEF FlushInv, LinesCounted, Running
<1>13. PICK c \in [0 .. Len(queue) -> Nat] : Written(c)
  BY <1>12
<1>14. /\ c[0] = done /\ c[Len(queue)] = sent
       /\ \A i \in DOMAIN queue : /\ c[i] = c[i - 1] + LineIn(i)
                                  /\ queue[i].of \in Thread => thread[queue[i].of].mark <= c[i]
  BY <1>1, <1>5, <1>13 DEF Written
<1>15. c[1] = done + LineIn(1)
  <2>1. c[1] = c[1 - 1] + LineIn(1)
    BY <1>4, <1>14
  <2> QED BY <1>14, <2>1
<1>16. LinesCounted'
  <2>1. PICK d : d = [i \in 0 .. Len(queue) - 1 |-> c[i + 1]]
    OBVIOUS
  <2>2. /\ \A i \in 0 .. Len(queue) - 1 : d[i] = c[i + 1] /\ i + 1 \in 0 .. Len(queue)
        /\ d \in [0 .. Len(queue') -> Nat]
    <3>1. \A i \in 0 .. Len(queue) - 1 : i + 1 \in 0 .. Len(queue)
      BY <1>1
    <3>2. \A i \in 0 .. Len(queue) - 1 : c[i + 1] \in Nat
      BY <3>1
    <3> QED BY <1>4, <2>1, <3>1, <3>2
  <2>3. d[0] = done' + InWriter' /\ d[Len(queue')] = sent'
    <3>1. d[0] = c[0 + 1] /\ d[Len(queue) - 1] = c[Len(queue) - 1 + 1]
      BY <1>1, <1>4, <2>2
    <3>2. 0 + 1 = 1 /\ Len(queue) - 1 + 1 = Len(queue)
      BY <1>1
    <3> QED BY <1>3, <1>4, <1>8, <1>14, <1>15, <3>1, <3>2
  <2>4. ASSUME NEW i \in DOMAIN queue'
        PROVE  /\ d[i] = d[i - 1] + LineIn(i)'
               /\ queue'[i].of \in Thread => thread'[queue'[i].of].mark <= d[i]
    <3>1. /\ i + 1 \in DOMAIN queue /\ queue'[i] = queue[i + 1]
          /\ i \in 0 .. Len(queue) - 1 /\ i - 1 \in 0 .. Len(queue) - 1
          /\ i - 1 + 1 = i /\ i + 1 - 1 = i
      BY <1>1, <1>4
    <3>2. d[i] = c[i + 1] /\ d[i - 1] = c[i]
      BY <2>2, <3>1
    <3>3. /\ c[i + 1] = c[i + 1 - 1] + LineIn(i + 1)
          /\ queue[i + 1].of \in Thread => thread[queue[i + 1].of].mark <= c[i + 1]
      BY <1>14, <3>1
    <3>4. LineIn(i)' = LineIn(i + 1)
      BY <3>1 DEF LineIn
    <3> QED BY <1>3, <3>1, <3>2, <3>3, <3>4
  <2>5. Written(d)'
    BY <2>3, <2>4 DEF Written
  <2> QED BY <2>2, <2>5 DEF LinesCounted
<1>17. Promised'
  <2>1. ASSUME NEW s \in Thread, writer'.flush = s
        PROVE  thread'[s].mark <= done' /\ thread'[s].drops <= told' + writer'.count
    <3>1. msg.kind = "flush" /\ queue[1].of = s /\ LineIn(1) = 0
      BY <1>2, <1>9, <2>1 DEF LineIn
    <3>2. thread[s].mark <= done
      BY <1>1, <1>4, <1>14, <1>15, <3>1
    <3>3. thread[s].at = "ack"
      BY <1>4, <3>1 DEF FlushInv, OneFlush
    <3>4. thread[s].drops <= dropped + writer.count + told
      BY <3>3 DEF FlushInv, CountsRight, Lost
    <3>5. writer'.count = dropped
      BY <1>6, <3>1
    <3> QED BY <1>1, <1>3, <1>5, <3>2, <3>4, <3>5
  <2>2. \A s \in Thread : thread'[s].acked => thread'[s].mark <= done' /\ thread'[s].drops <= told'
    BY <1>3 DEF FlushInv, Promised
  <2> QED BY <2>1, <2>2 DEF Promised
<1> QED BY <1>10, <1>11, <1>16, <1>17 DEF FlushInv

(* The counter goes to the writer, and from there to what was reported.       *)
LEMMA FlushCounts ==
    ASSUME LoggingAssumption, TypeInv, FlushInv, UNCHANGED <<thread, queue, sent>>,
           Running' <=> Running, writer'.flush \in {writer.flush, NoFlush},
           {done', told', dropped', writer'.count} \subseteq Nat,
           writer'.at \in {"top", "ack"} => writer'.count = 0,
           Lost' = Lost, done' + InWriter' = done + InWriter, done' >= done, told' >= told,
           told' + writer'.count >= told + writer.count
    PROVE  FlushInv'
<1>1. /\ \A s \in Thread : thread[s].mark \in Nat /\ thread[s].drops \in Nat
      /\ told \in Nat /\ done \in Nat /\ writer.count \in Nat /\ NoFlush \notin Thread
  BY ThreadStates, Constants
<1>2. OneFlush'
  BY <1>1 DEF FlushInv, OneFlush
<1>3. CountsRight'
  BY DEF FlushInv, CountsRight
<1>4. ASSUME NEW c, Written(c) PROVE Written(c)'
  <2>1. c[0] = done' + InWriter' /\ c[Len(queue')] = sent'
    BY <1>4 DEF Written
  <2>2. ASSUME NEW i \in DOMAIN queue'
        PROVE  /\ c[i] = c[i - 1] + LineIn(i)'
               /\ queue'[i].of \in Thread => thread'[queue'[i].of].mark <= c[i]
    BY <1>4 DEF Written, LineIn
  <2> QED BY <2>1, <2>2 DEF Written
<1>5. LinesCounted'
  BY <1>4 DEF FlushInv, LinesCounted
<1>6. Promised'
  <2>1. ASSUME NEW s \in Thread, writer'.flush = s
        PROVE  thread'[s].mark <= done' /\ thread'[s].drops <= told' + writer'.count
    <3>1. writer.flush = s
      BY <1>1, <2>1
    <3>2. thread[s].mark <= done /\ thread[s].drops <= told + writer.count
      BY <3>1 DEF FlushInv, Promised
    <3> QED BY <1>1, <3>2
  <2>2. ASSUME NEW s \in Thread, thread'[s].acked
        PROVE  thread'[s].mark <= done' /\ thread'[s].drops <= told'
    <3>1. thread[s].mark <= done /\ thread[s].drops <= told
      BY <2>2 DEF FlushInv, Promised
    <3> QED BY <1>1, <3>1
  <2> QED BY <2>1, <2>2 DEF Promised
<1> QED BY <1>2, <1>3, <1>5, <1>6 DEF FlushInv

(* The writer acknowledges when nothing it counted is left to be written.     *)
LEMMA FlushAcknowledged ==
    ASSUME LoggingAssumption, TypeInv, FlushInv, Acknowledge
    PROVE  FlushInv'
<1>1. /\ thread \in [Thread -> ThreadState] /\ writer \in WriterState /\ told \in Nat
      /\ \A s \in Thread : thread[s].acked \in BOOLEAN /\ thread[s].drops \in Nat
      /\ NoFlush \notin Thread /\ Nobody \notin Thread
  BY ThreadStates, Constants
<1>2. /\ UNCHANGED <<queue, sent, done, told, dropped>>
      /\ writer.at = "ack" /\ writer.count = 0 /\ InWriter = 0 /\ Running
  BY DEF Acknowledge, counts, output, FlushInv, CountsRight, InWriter, Running
<1>3. /\ writer'.at = "top" /\ writer'.count = 0 /\ writer'.flush = NoFlush
      /\ InWriter' = 0
  BY DEF Acknowledge, AtTop, InWriter
<1>4. ASSUME NEW s \in Thread
      PROVE  /\ thread'[s].at = thread[s].at /\ thread'[s].mark = thread[s].mark
             /\ thread'[s].drops = thread[s].drops
             /\ thread'[s].acked = (thread[s].acked \/ writer.flush = s)
  <2>1. LET new == [thread[s] EXCEPT !.acked = TRUE]
        IN  /\ new.at = thread[s].at /\ new.mark = thread[s].mark
            /\ new.drops = thread[s].drops /\ new.acked = TRUE
    BY <1>1 DEF ThreadState
  <2>2. CASE writer.flush = s
    <3>1. thread'[s] = [thread[s] EXCEPT !.acked = TRUE]
      BY <1>1, <2>2 DEF Acknowledge
    <3> QED BY <2>1, <2>2, <3>1
  <2>3. CASE writer.flush # s
    <3>1. thread'[s] = thread[s]
      BY <1>1, <2>3 DEF Acknowledge
    <3> QED BY <1>1, <2>3, <3>1
  <2> QED BY <2>2, <2>3
<1>5. OneFlush'
  <2>1. SUFFICES ASSUME NEW s \in Thread
                 PROVE  /\ thread'[s].acked => thread'[s].at = "ack"
                        /\ \/ \E i \in DOMAIN queue' : queue'[i].of = s
                           \/ writer'.flush = s
                           => thread'[s].at = "ack" /\ ~thread'[s].acked
                        /\ \A i, j \in DOMAIN queue' :
                              queue'[i].of = s /\ queue'[j].of = s => i = j
                        /\ writer'.flush = s => \A i \in DOMAIN queue' : queue'[i].of # s
    BY DEF OneFlush
  <2>2. /\ thread[s].acked => thread[s].at = "ack"
        /\ \/ \E i \in DOMAIN queue : queue[i].of = s
           \/ writer.flush = s
           => thread[s].at = "ack" /\ ~thread[s].acked
        /\ \A i, j \in DOMAIN queue : queue[i].of = s /\ queue[j].of = s => i = j
        /\ writer.flush = s => \A i \in DOMAIN queue : queue[i].of # s
    BY DEF FlushInv, OneFlush
  <2> QED BY <1>1, <1>2, <1>3, <1>4, <2>2
<1>6. CountsRight'
  <2>1. Lost' = Lost
    BY <1>2, <1>3 DEF Lost
  <2> QED BY <1>2, <1>3, <1>4, <2>1 DEF FlushInv, CountsRight
<1>7. ASSUME NEW c, Written(c) PROVE Written(c)'
  <2>1. c[0] = done' + InWriter' /\ c[Len(queue')] = sent'
    BY <1>2, <1>3, <1>7 DEF Written
  <2>2. ASSUME NEW i \in DOMAIN queue'
        PROVE  /\ c[i] = c[i - 1] + LineIn(i)'
               /\ queue'[i].of \in Thread => thread'[queue'[i].of].mark <= c[i]
    BY <1>2, <1>4, <1>7 DEF Written, LineIn
  <2> QED BY <2>1, <2>2 DEF Written
<1>8. LinesCounted'
  BY <1>2, <1>7 DEF FlushInv, LinesCounted
<1>9. Promised'
  <2>1. ASSUME NEW s \in Thread, thread'[s].acked
        PROVE  thread'[s].mark <= done' /\ thread'[s].drops <= told'
    <3>1. thread[s].mark <= done /\ thread[s].drops <= told
      <4>1. CASE thread[s].acked
        BY <4>1 DEF FlushInv, Promised
      <4>2. CASE writer.flush = s
        <5>1. thread[s].mark <= done /\ thread[s].drops <= told + writer.count
          BY <4>2 DEF FlushInv, Promised
        <5> QED BY <1>1, <1>2, <5>1
      <4> QED BY <1>4, <2>1, <4>1, <4>2
    <3> QED BY <1>2, <1>4, <3>1
  <2> QED BY <1>1, <1>3, <2>1 DEF Promised
<1> QED BY <1>5, <1>6, <1>8, <1>9 DEF FlushInv

(* Every step keeps what a flush was promised.                                *)
LEMMA FlushStep == ASSUME LoggingAssumption, TypeInv, FlushInv, Next PROVE FlushInv'
<1>1. /\ thread \in [Thread -> ThreadState] /\ writer \in WriterState /\ Main \in Thread
      /\ dropped \in Nat /\ told \in Nat /\ done \in Nat /\ writer.count \in Nat
  BY ThreadStates, Constants
<1>2. CASE Attach
  BY <1>1, <1>2, ThreadsAct, FlushByThread DEF FlushInv
<1>3. ASSUME NEW t \in Thread,
             \/ \E why \in {"log", "fatal"}, size \in LineSize : Log(t, why, size)
             \/ Bump(t) \/ WriteItself(t) \/ Panic(t) \/ Report(t) \/ Unwind(t)
             \/ \E why \in {"log", "fatal"} : Flush(t, why)
      PROVE  FlushInv'
  BY <1>3, ThreadsAct, FlushByThread DEF FlushInv
<1>4. CASE MinuteReport
  <2>1. /\ UNCHANGED <<thread, queue, sent, done, told>>
        /\ writer' = Reporting(NoFlush) /\ dropped' = 0 /\ dropped # 0
        /\ writer.at = "top" /\ writer.count = 0
    BY <1>1, <1>4 DEF MinuteReport, counts, output, FlushInv, CountsRight
  <2>2. /\ writer'.at = "files" /\ writer'.count = dropped /\ writer'.own = TRUE
        /\ writer'.flush = NoFlush
    BY <2>1 DEF Reporting, AtTop
  <2>3. InWriter = 0 /\ InWriter' = 0 /\ Running /\ Running'
    BY <2>1, <2>2 DEF InWriter, Running
  <2>4. Lost' = Lost
    BY <1>1, <2>1, <2>2 DEF Lost
  <2> QED BY <1>1, <2>1, <2>2, <2>3, <2>4, FlushCounts
<1>5. CASE WriteFiles
  <2>1. /\ UNCHANGED <<thread, queue, sent, done, told, dropped>> /\ writer.at = "files"
        /\ \E notice : \/ writer' = [writer EXCEPT !.at = "console"]
                       \/ writer' = [writer EXCEPT !.at = "console", !.notice = notice]
    BY <1>5 DEF WriteFiles, counts
  <2>2. /\ writer'.at = "console" /\ writer'.flush = writer.flush
        /\ writer'.count = writer.count /\ writer'.own = writer.own
    BY <1>1, <2>1 DEF WriterState
  <2>3. InWriter' = InWriter /\ Running /\ Running'
    BY <2>1, <2>2 DEF InWriter, Running
  <2> QED BY <2>1, <2>2, <2>3, FlushRest
<1>6. CASE WriteConsole
  <2>1. UNCHANGED <<thread, queue, sent, dropped>> /\ writer.at = "console"
    BY <1>6 DEF WriteConsole, counts
  <2>2. CASE writer.notice
    <3>1. /\ UNCHANGED <<done, told>> /\ writer' = [writer EXCEPT !.notice = FALSE]
      BY <1>6, <2>2 DEF WriteConsole
    <3>2. /\ writer'.at = writer.at /\ writer'.flush = writer.flush
          /\ writer'.count = writer.count /\ writer'.own = writer.own
      BY <1>1, <3>1 DEF WriterState
    <3>3. InWriter' = InWriter /\ (Running' <=> Running)
      BY <3>2 DEF InWriter, Running
    <3> QED BY <2>1, <3>1, <3>2, <3>3, FlushRest
  <2>3. CASE ~writer.notice
    <3>1. /\ writer' = [AtTop EXCEPT !.at = IF writer.flush = NoFlush THEN "top" ELSE "ack",
                                     !.flush = writer.flush]
          /\ told' = told + writer.count /\ done' = done + IF writer.own THEN 0 ELSE 1
      BY <1>6, <2>3 DEF WriteConsole
    <3>2. /\ writer'.at \in {"top", "ack"} /\ writer'.flush = writer.flush
          /\ writer'.count = 0
      BY <3>1 DEF AtTop
    <3>3. InWriter = (IF writer.own THEN 0 ELSE 1) /\ InWriter' = 0 /\ Running /\ Running'
      BY <2>1, <3>2 DEF InWriter, Running
    <3>4. done' + InWriter' = done + InWriter /\ done' >= done /\ done' \in Nat
      BY <1>1, <3>1, <3>3
    <3>5. told' \in Nat /\ told' >= told /\ told' + writer'.count >= told + writer.count
      BY <1>1, <3>1, <3>2
    <3>6. Lost' = Lost
      BY <1>1, <2>1, <3>1, <3>2 DEF Lost
    <3> QED BY <1>1, <2>1, <3>2, <3>3, <3>4, <3>5, <3>6, FlushCounts
  <2> QED BY <2>2, <2>3
<1>7. CASE WriterEnds
  <2>1. /\ UNCHANGED <<thread, sent, done, told, dropped>> /\ queue' = <<>>
        /\ writer' = [writer EXCEPT !.at = "gone"]
    BY <1>7 DEF WriterEnds, counts, output
  <2>2. writer'.at = "gone" /\ writer'.flush = writer.flush /\ writer'.count = writer.count
    BY <1>1, <2>1 DEF WriterState
  <2>3. DOMAIN queue' = {}
    BY <2>1
  <2>4. OneFlush'
    BY <2>1, <2>2, <2>3 DEF FlushInv, OneFlush
  <2>5. CountsRight'
    BY <2>1, <2>2, <2>3 DEF FlushInv, CountsRight, Lost
  <2>6. LinesCounted'
    BY <2>2 DEF LinesCounted, Running
  <2>7. Promised'
    BY <2>1, <2>2 DEF FlushInv, Promised
  <2> QED BY <2>4, <2>5, <2>6, <2>7 DEF FlushInv
<1>8. CASE Tick
  <2>1. \A t \in Thread : LET new == [thread[t] EXCEPT !.left = thread[t].left - 1]
                          IN  /\ new.at = thread[t].at /\ new.mark = thread[t].mark
                              /\ new.drops = thread[t].drops /\ new.acked = thread[t].acked
    BY <1>1 DEF ThreadState
  <2>2. \A t \in Thread : /\ thread'[t].at = thread[t].at /\ thread'[t].mark = thread[t].mark
                          /\ thread'[t].drops = thread[t].drops
                          /\ thread'[t].acked = thread[t].acked
    BY <1>8, <2>1 DEF Tick
  <2>3. UNCHANGED <<queue, writer, sent, done, told, dropped>>
    BY <1>8 DEF Tick, counts, output
  <2>4. InWriter' = InWriter /\ (Running' <=> Running)
    BY <2>3 DEF InWriter, Running
  <2> QED BY <2>2, <2>3, <2>4, FlushRest
<1>9. ASSUME UNCHANGED <<thread, queue, writer, sent, done, told, dropped>> PROVE FlushInv'
  <2>1. InWriter' = InWriter /\ (Running' <=> Running)
    BY <1>9 DEF InWriter, Running
  <2> QED BY <1>9, <2>1, FlushRest
<1>10. CASE Select \/ Delete \/ UNCHANGED vars
  BY <1>9, <1>10 DEF Select, Delete, counts, output, vars
<1>11. CASE Aborted
  BY <1>10, <1>11 DEF Aborted
<1>12. ASSUME NEW t \in Thread, SendFlush(t) \/ EndWait(t) PROVE FlushInv'
  BY <1>12, FlushSent, FlushEnds
<1>13. CASE TakeMessage \/ Acknowledge
  BY <1>13, FlushTaken, FlushAcknowledged
<1> QED
  BY <1>2, <1>3, <1>4, <1>5, <1>6, <1>7, <1>8, <1>10, <1>11, <1>12, <1>13, Actions

-----------------------------------------------------------------------------
(* The lines that were dropped: the set of threads about to count one.        *)
LEMMA CountInit == ASSUME LoggingAssumption, Init PROVE CountInv
<1>1. Bumping = {}
  BY DEF Init, Bumping, Idle
<1>2. missed = 0 /\ dropped = 0 /\ told = 0 /\ writer.count = 0
  BY DEF Init, AtTop
<1>3. IsFiniteSet(Bumping) /\ Cardinality(Bumping) = 0
  BY <1>1, FS_EmptySet
<1> QED BY <1>2, <1>3 DEF CountInv, Counted, Bumping

(* A step after which the same threads are about to count.                    *)
LEMMA CountRest ==
    ASSUME CountInv, missed' = missed, Lost' = Lost,
           \A t \in Thread : thread'[t].at = "bump" <=> thread[t].at = "bump",
           {dropped, dropped', told, told', writer.count, writer'.count} \subseteq Nat
    PROVE  CountInv'
<1>1. Bumping' = Bumping
  BY DEF Bumping
<1>2. missed = Cardinality(Bumping) + dropped + writer.count + told
  BY DEF CountInv, Counted, Bumping
<1>3. IsFiniteSet(Bumping) /\ Cardinality(Bumping) \in Nat
  BY FS_CardinalityType DEF CountInv
<1>4. missed' = Cardinality(Bumping') + dropped' + writer'.count + told'
  <2> DEFINE n == Cardinality(Bumping)
  <2>1. n \in Nat /\ missed = n + dropped + writer.count + told /\ Cardinality(Bumping') = n
    BY <1>1, <1>2, <1>3
  <2> HIDE DEF n
  <2> QED BY <2>1 DEF Lost
<1> QED BY <1>1, <1>3, <1>4 DEF CountInv, Counted, Bumping

(* A dropped line goes from its thread to the counter, to the writer and out. *)
LEMMA CountStep ==
    ASSUME LoggingAssumption, TypeInv, TypeInv', FlushInv, CountInv, Next
    PROVE  CountInv'
<1>1. /\ thread \in [Thread -> ThreadState] /\ writer \in WriterState /\ Main \in Thread
      /\ {dropped, dropped', told, told', writer.count, writer'.count} \subseteq Nat
      /\ missed \in Nat
  BY ThreadStates, Constants DEF TypeInv, TypeOK, WriterState
<1>2. /\ missed = Cardinality(Bumping) + dropped + writer.count + told
      /\ IsFiniteSet(Bumping) /\ Cardinality(Bumping) \in Nat
  BY FS_CardinalityType DEF CountInv, Counted, Bumping
<1>3. ASSUME UNCHANGED <<missed, dropped, writer, told>>, NEW t \in Thread, NEW new,
             thread' = [thread EXCEPT ![t] = new], thread[t].at # "bump", new.at # "bump"
      PROVE  CountInv'
  <2>1. \A s \in Thread : thread'[s].at = "bump" <=> thread[s].at = "bump"
    BY <1>1, <1>3
  <2>2. Lost' = Lost
    BY <1>3 DEF Lost
  <2> QED BY <1>1, <1>3, <2>1, <2>2, CountRest
<1>4. CASE Attach
  <2>1. Idle.at # "bump"
    BY DEF Idle
  <2> QED BY <1>1, <1>3, <1>4, <2>1 DEF Attach, counts, output
<1>5. ASSUME NEW t \in Thread, NEW why \in {"log", "fatal"}, NEW size \in LineSize, Log(t, why, size)
      PROVE  CountInv'
  <2>1. UNCHANGED <<writer, told, dropped>> /\ thread[t].at = "idle"
    BY <1>5 DEF Log, Free, output
  <2>2. PICK new : /\ thread' = [thread EXCEPT ![t] = new]
                   /\ \/ new.at \in {"idle", "call"} /\ missed' = missed
                      \/ new.at = "bump" /\ missed' = missed + 1
                      \/ new.at = "stderr" /\ missed' = missed + 0
    BY <1>5, Logs
  <2>3. CASE new.at # "bump"
    <3>1. missed' = missed
      BY <1>1, <2>2, <2>3
    <3> QED BY <1>3, <2>1, <2>2, <2>3, <3>1
  <2>4. CASE new.at = "bump"
    <3>1. Bumping' = Bumping \cup {t} /\ t \notin Bumping
      BY <1>1, <2>1, <2>2, <2>4 DEF Bumping
    <3>2. IsFiniteSet(Bumping') /\ Cardinality(Bumping') = Cardinality(Bumping) + 1
      BY <1>2, <3>1, FS_AddElement
    <3>3. missed' = Cardinality(Bumping') + dropped' + writer'.count + told'
      BY <1>1, <1>2, <2>1, <2>2, <2>4, <3>2
    <3> QED BY <3>2, <3>3 DEF CountInv, Counted, Bumping
  <2> QED BY <2>3, <2>4
<1>6. ASSUME NEW t \in Thread, Bump(t) PROVE CountInv'
  <2>1. /\ UNCHANGED <<writer, told, missed>> /\ dropped' = dropped + 1
        /\ thread[t].at = "bump" /\ thread' = [thread EXCEPT ![t] = Logged(t)]
    BY <1>6 DEF Bump, counts, output
  <2>2. Logged(t).at # "bump"
    BY <1>1 DEF Logged, Idle, ThreadState
  <2>3. Bumping' = Bumping \ {t} /\ t \in Bumping
    BY <1>1, <2>1, <2>2 DEF Bumping
  <2>4. IsFiniteSet(Bumping') /\ Cardinality(Bumping') = Cardinality(Bumping) - 1
    BY <1>2, <2>3, FS_RemoveElement
  <2>5. missed' = Cardinality(Bumping') + dropped' + writer'.count + told'
    BY <1>1, <1>2, <2>1, <2>4
  <2> QED BY <2>4, <2>5 DEF CountInv, Counted, Bumping
<1>7. ASSUME NEW t \in Thread, WriteItself(t) PROVE CountInv'
  <2>1. PICK new : /\ thread' = [thread EXCEPT ![t] = new]
                   /\ new \in {[thread[t] EXCEPT !.at = "prompt"],
                               [thread[t] EXCEPT !.at = "unwind"], Logged(t)}
    BY <1>7, WritesItself
  <2>2. new.at # "bump"
    BY <1>1, <2>1 DEF Logged, Idle, ThreadState
  <2>3. thread[t].at # "bump" /\ UNCHANGED <<writer, told, missed, dropped>>
    BY <1>7 DEF WriteItself, counts, output
  <2> QED BY <1>3, <2>1, <2>2, <2>3
<1>8. ASSUME NEW t \in Thread, NEW why \in {"log", "fatal"}, Flush(t, why) PROVE CountInv'
  <2>1. thread[t].at # "bump" /\ UNCHANGED <<writer, told, missed, dropped>>
    BY <1>8 DEF Flush, Free, counts, output
  <2>2. PICK new : new = IF Running THEN Flushing(t, why, FlushTimeout)
                         ELSE [thread[t] EXCEPT !.at = IF why = "fatal" THEN "prompt" ELSE "idle"]
    OBVIOUS
  <2>3. thread' = [thread EXCEPT ![t] = new]
    BY <1>1, <1>8, <2>2 DEF Flush
  <2>4. new.at # "bump"
    BY <1>1, <2>2 DEF Flushing, ThreadState
  <2> QED BY <1>3, <2>1, <2>3, <2>4
<1>9. ASSUME NEW t \in Thread, Panic(t) PROVE CountInv'
  <2>1. thread[t].at # "bump" /\ UNCHANGED <<writer, told, missed, dropped>>
    BY <1>9 DEF Panic, Free, counts, output
  <2>2. \A at, left : /\ [Idle EXCEPT !.at = at, !.why = "panic"].at = at
                      /\ [Idle EXCEPT !.at = at, !.why = "panic", !.left = left].at = at
    BY DEF Idle
  <2>3. PICK new : /\ thread' = [thread EXCEPT ![t] = new]
                   /\ \/ new = [Idle EXCEPT !.at = "stderr", !.why = "panic"]
                      \/ \E left : new = [Idle EXCEPT !.at = "report", !.why = "panic",
                                                      !.left = left]
    BY <1>9 DEF Panic
  <2>4. new.at # "bump"
    BY <2>2, <2>3
  <2> QED BY <1>3, <2>1, <2>3, <2>4
<1>10. ASSUME NEW t \in Thread, Report(t) \/ SendFlush(t) PROVE CountInv'
  <2>1. thread[t].at # "bump" /\ UNCHANGED <<writer, told, missed, dropped>>
    BY <1>10 DEF Report, SendFlush, counts, output
  <2>2. CASE Report(t)
    <3>1. PICK new : /\ thread' = [thread EXCEPT ![t] = new]
                     /\ new = [Flushing(t, "panic", thread[t].left) EXCEPT !.mark = sent']
      BY <1>1, <2>2 DEF Report
    <3>2. new.at # "bump"
      BY <1>1, <3>1 DEF Flushing, ThreadState
    <3> QED BY <1>3, <2>1, <3>1, <3>2
  <2>3. CASE SendFlush(t)
    <3>1. PICK new : new = [thread[t] EXCEPT !.at = "ack"] /\ thread' = [thread EXCEPT ![t] = new]
      BY <1>1, <2>3 DEF SendFlush
    <3>2. new.at # "bump"
      BY <1>1, <3>1 DEF ThreadState
    <3> QED BY <1>3, <2>1, <3>1, <3>2
  <2> QED BY <1>10, <2>2, <2>3
<1>11. ASSUME NEW t \in Thread, EndWait(t) PROVE CountInv'
  <2>1. /\ thread[t].at # "bump" /\ UNCHANGED <<told, missed, dropped>>
        /\ writer'.count = writer.count
    BY <1>1, <1>11 DEF EndWait, Acknowledged, WriterGone, TimedOut, Waiting, counts, output,
                       WriterState
  <2>2. PICK written : thread' = [thread EXCEPT ![t] = Over(t, written)]
    BY <1>1, <1>11 DEF EndWait
  <2>3. Over(t, written).at # "bump"
    BY <1>1 DEF Over, Idle, ThreadState
  <2>4. \A s \in Thread : thread'[s].at = "bump" <=> thread[s].at = "bump"
    BY <1>1, <2>1, <2>2, <2>3
  <2>5. Lost' = Lost
    BY <2>1 DEF Lost
  <2> QED BY <1>1, <2>1, <2>4, <2>5, CountRest
<1>12. ASSUME NEW t \in Thread, Unwind(t) PROVE CountInv'
  <2>1. thread[t].at # "bump" /\ UNCHANGED <<writer, told, missed, dropped>>
    BY <1>12 DEF Unwind, counts, output
  <2>2. \A s \in Thread : thread'[s].at = "bump" <=> thread[s].at = "bump"
    BY <1>1, <1>12 DEF Unwind, Idle
  <2>3. Lost' = Lost
    BY <2>1 DEF Lost
  <2> QED BY <1>1, <2>1, <2>2, <2>3, CountRest
<1>13. ASSUME missed' = missed, Lost' = Lost,
              \A t \in Thread : thread'[t].at = thread[t].at
       PROVE  CountInv'
  BY <1>1, <1>13, CountRest
<1>14. CASE TakeMessage
  <2>1. PICK msg : msg = Head(queue)
    OBVIOUS
  <2>2. /\ UNCHANGED <<thread, told, missed>> /\ writer.at = "top"
        /\ writer' = CASE msg.kind = "line"  -> [AtTop EXCEPT !.at = "files", !.size = msg.size]
                       [] msg.kind = "flush" -> Reporting(msg.of)
                       [] OTHER -> AtTop
        /\ dropped' = IF msg.kind = "flush" THEN 0 ELSE dropped
    BY <1>14, <2>1 DEF TakeMessage, counts, output
  <2>3. writer.count = 0
    BY <2>2 DEF FlushInv, CountsRight
  <2>4. dropped' + writer'.count = dropped
    BY <1>1, <2>2 DEF AtTop, Reporting
  <2>5. Lost' = Lost
    BY <1>1, <2>2, <2>3, <2>4 DEF Lost
  <2> QED BY <1>13, <2>2, <2>5
<1>15. CASE MinuteReport
  <2>1. /\ UNCHANGED <<thread, told, missed>> /\ writer.at = "top"
        /\ writer' = Reporting(NoFlush) /\ dropped' = 0 /\ dropped # 0
    BY <1>1, <1>15 DEF MinuteReport, counts, output
  <2>2. writer.count = 0 /\ writer'.count = dropped
    BY <2>1 DEF FlushInv, CountsRight, Reporting, AtTop
  <2>3. Lost' = Lost
    BY <1>1, <2>1, <2>2 DEF Lost
  <2> QED BY <1>13, <2>1, <2>3
<1>16. CASE WriteFiles
  <2>1. /\ UNCHANGED <<thread, told, missed, dropped>>
        /\ \E notice : \/ writer' = [writer EXCEPT !.at = "console"]
                       \/ writer' = [writer EXCEPT !.at = "console", !.notice = notice]
    BY <1>16 DEF WriteFiles, counts
  <2>2. writer'.count = writer.count
    BY <1>1, <2>1 DEF WriterState
  <2>3. Lost' = Lost
    BY <2>1, <2>2 DEF Lost
  <2> QED BY <1>13, <2>1, <2>3
<1>17. CASE WriteConsole
  <2>1. UNCHANGED <<thread, missed, dropped>>
    BY <1>17 DEF WriteConsole, counts
  <2>2. \/ told' = told /\ writer'.count = writer.count
        \/ told' = told + writer.count /\ writer'.count = 0
    BY <1>1, <1>17 DEF WriteConsole, AtTop, WriterState
  <2>3. Lost' = Lost
    BY <1>1, <2>1, <2>2 DEF Lost
  <2> QED BY <1>13, <2>1, <2>3
<1>18. CASE Acknowledge
  <2>1. /\ UNCHANGED <<missed, dropped, told>> /\ writer.at = "ack" /\ writer' = AtTop
    BY <1>18 DEF Acknowledge, counts, output
  <2>2. \A t \in Thread : thread'[t].at = thread[t].at
    <3>1. \A t \in Thread : [thread[t] EXCEPT !.acked = TRUE].at = thread[t].at
      BY <1>1 DEF ThreadState
    <3> QED BY <1>1, <1>18, <3>1 DEF Acknowledge
  <2>3. Lost' = Lost
    BY <2>1 DEF Lost, FlushInv, CountsRight, AtTop
  <2> QED BY <1>13, <2>1, <2>2, <2>3
<1>19. CASE WriterEnds
  <2>1. UNCHANGED <<thread, missed, dropped, told>> /\ writer'.count = writer.count
    BY <1>1, <1>19 DEF WriterEnds, counts, output, WriterState
  <2>2. Lost' = Lost
    BY <2>1 DEF Lost
  <2> QED BY <1>13, <2>1, <2>2
<1>20. CASE Tick
  <2>1. UNCHANGED <<missed, dropped, told, writer>>
    BY <1>20 DEF Tick, counts, output
  <2>2. \A t \in Thread : thread'[t].at = thread[t].at
    <3>1. \A t \in Thread : [thread[t] EXCEPT !.left = thread[t].left - 1].at = thread[t].at
      BY <1>1 DEF ThreadState
    <3> QED BY <1>20, <3>1 DEF Tick
  <2>3. Lost' = Lost
    BY <2>1 DEF Lost
  <2> QED BY <1>13, <2>1, <2>2, <2>3
<1>21. CASE Select \/ Delete \/ UNCHANGED vars
  <2>1. UNCHANGED <<thread, missed, dropped, told, writer>>
    BY <1>21 DEF Select, Delete, vars, counts, output
  <2>2. Lost' = Lost
    BY <2>1 DEF Lost
  <2> QED BY <1>13, <2>1, <2>2
<1>22. CASE Aborted
  BY <1>21, <1>22 DEF Aborted
<1> QED
  BY <1>4, <1>5, <1>6, <1>7, <1>8, <1>9, <1>10, <1>11, <1>12, <1>14, <1>15, <1>16, <1>17,
     <1>18, <1>19, <1>20, <1>21, <1>22, Actions

-----------------------------------------------------------------------------
(* The files.  What the lines of one are, and what is kept in all.            *)
LEMMA LinesOf ==
    ASSUME NEW f \in [Place -> File]
    PROVE  /\ \A i \in Place : /\ f[i] \in File /\ Len(f[i].lines) \in Nat
                               /\ DOMAIN f[i].lines = 1 .. Len(f[i].lines)
                               /\ f[i].size \in Nat /\ f[i].refused \in BOOLEAN
           /\ NoFile.lines = <<>> /\ NoFile.size = 0 /\ DOMAIN NoFile.lines = {}
           /\ \A x : x \in KeptIn(f) <=>
                        \E i \in Place : \E k \in DOMAIN f[i].lines : x = f[i].lines[k]
<1>1. \A i \in Place : /\ f[i] \in File /\ f[i].lines \in Seq(Nat)
                       /\ f[i].size \in Nat /\ f[i].refused \in BOOLEAN
  BY DEF File
<1>2. \A i \in Place : /\ Len(f[i].lines) \in Nat
                       /\ DOMAIN f[i].lines = 1 .. Len(f[i].lines)
  BY <1>1
<1>3. NoFile.lines = <<>> /\ NoFile.size = 0
  BY DEF NoFile
<1>4. DOMAIN NoFile.lines = {}
  BY <1>3
<1>5. \A x : x \in KeptIn(f) <=> \E i \in Place : x \in ToSet(f[i].lines)
  BY DEF KeptIn
<1>6. \A i \in Place : \A x : x \in ToSet(f[i].lines) <=>
                                  \E k \in DOMAIN f[i].lines : x = f[i].lines[k]
  BY DEF ToSet
<1>7. \A x : x \in KeptIn(f) <=>
                \E i \in Place : \E k \in DOMAIN f[i].lines : x = f[i].lines[k]
  <2> TAKE x
  <2>1. x \in KeptIn(f) <=> \E i \in Place : x \in ToSet(f[i].lines)
    BY <1>5
  <2>2. ASSUME NEW i \in Place
        PROVE  x \in ToSet(f[i].lines) <=> \E k \in DOMAIN f[i].lines : x = f[i].lines[k]
    BY <1>6
  <2> QED BY <2>1, <2>2
<1> QED BY <1>1, <1>2, <1>3, <1>4, <1>7

(* A rotation moves files from one place to the next, and loses at most the   *)
(* oldest.                                                                    *)
LEMMA Rotated ==
    ASSUME LoggingAssumption, NEW f \in [Place -> File], NEW stop \in Place
    PROVE  /\ Rotate(f, stop) \in [Place -> File]
           /\ \A i \in Place :
                 \/ Rotate(f, stop)[i] = NoFile
                 \/ i > stop /\ f[i - 1] # NoFile /\ Rotate(f, stop)[i] = f[i - 1]
                 \/ i < stop /\ Rotate(f, stop)[i] = f[i]
                 \/ /\ i = KeptFiles - 1 /\ Rotate(f, stop)[i] = f[i]
                    /\ i = stop \/ f[i - 1] = NoFile
           /\ \A i \in Place : i < stop => Rotate(f, stop)[i] = f[i]
           /\ \A i \in Place : i >= stop /\ i + 1 \in Place /\ f[i] # NoFile
                                  => Rotate(f, stop)[i + 1] = f[i]
           /\ stop = 0 => Rotate(f, stop)[0] = NoFile
<1>1. /\ KeptFiles \in Nat /\ KeptFiles >= 2 /\ stop \in Nat
      /\ \A i \in Place : /\ i \in Nat /\ i <= KeptFiles - 1
                          /\ i # 0 => i - 1 \in Place
                          /\ i + 1 \in Place \/ i = KeptFiles - 1
  BY Constants DEF Place
<1>2. \A i \in Place :
         /\ i > stop /\ f[i - 1] # NoFile => Rotate(f, stop)[i] = f[i - 1]
         /\ ~(i > stop /\ f[i - 1] # NoFile) /\ i + 1 \in Place /\ i >= stop
               => Rotate(f, stop)[i] = NoFile
         /\ ~(i > stop /\ f[i - 1] # NoFile) /\ ~(i + 1 \in Place /\ i >= stop)
               => Rotate(f, stop)[i] = f[i]
  BY DEF Rotate
<1>3. Rotate(f, stop) \in [Place -> File]
  <2>1. \A i \in Place : i > stop => f[i - 1] \in File
    BY <1>1
  <2> QED BY <2>1, FilesTyped DEF Rotate
<1>4. ASSUME NEW i \in Place
      PROVE  /\ \/ Rotate(f, stop)[i] = NoFile
                \/ i > stop /\ f[i - 1] # NoFile /\ Rotate(f, stop)[i] = f[i - 1]
                \/ i < stop /\ Rotate(f, stop)[i] = f[i]
                \/ /\ i = KeptFiles - 1 /\ Rotate(f, stop)[i] = f[i]
                   /\ i = stop \/ f[i - 1] = NoFile
             /\ i < stop => Rotate(f, stop)[i] = f[i]
  <2>1. CASE i > stop /\ f[i - 1] # NoFile
    BY <1>1, <1>2, <2>1
  <2>2. CASE ~(i > stop /\ f[i - 1] # NoFile) /\ i + 1 \in Place /\ i >= stop
    BY <1>1, <1>2, <2>2
  <2>3. CASE ~(i > stop /\ f[i - 1] # NoFile) /\ ~(i + 1 \in Place /\ i >= stop)
    <3>1. Rotate(f, stop)[i] = f[i]
      BY <1>2, <2>3
    <3>2. KeptFiles \in Nat /\ stop \in Nat /\ i \in Nat /\ (i < stop \/ i >= stop)
      BY <1>1
    <3>3. i < stop \/ (i >= stop /\ i = KeptFiles - 1)
      BY <1>1, <2>3, <3>2
    <3>4. i >= stop => i = stop \/ i > stop
      BY <3>2
    <3> QED BY <2>3, <3>1, <3>3, <3>4
  <2> QED BY <2>1, <2>2, <2>3
<1>5. ASSUME NEW i \in Place, i >= stop, i + 1 \in Place, f[i] # NoFile
      PROVE  Rotate(f, stop)[i + 1] = f[i]
  <2>1. PICK j : j = i + 1
    OBVIOUS
  <2>2. j \in Place /\ j > stop /\ j - 1 = i
    BY <1>1, <1>5, <2>1
  <2>3. f[j - 1] = f[i]
    BY <2>2
  <2>4. Rotate(f, stop)[j] = f[j - 1]
    <3>1. f[j - 1] # NoFile
      BY <1>5, <2>3
    <3> QED BY <1>2, <2>2, <3>1
  <2> QED BY <2>1, <2>3, <2>4
<1>6. stop = 0 => Rotate(f, stop)[0] = NoFile
  <2>1. 0 \in Place /\ 0 + 1 \in Place /\ ~(0 > 0) /\ 0 >= 0
    BY Constants
  <2> QED BY <1>2, <2>1
<1> QED BY <1>3, <1>4, <1>5, <1>6

(* Rotated files are as sound as they were.                                   *)
LEMMA RotateSound ==
    ASSUME LoggingAssumption, NEW f \in [Place -> File], NEW stop \in Place,
           NEW last \in Nat, NEW gone, Sound(f, last, gone)
    PROVE  Sound(Rotate(f, stop), last, gone)
<1>1. PICK g \in [Place -> File] : g = Rotate(f, stop)
  BY Rotated
<1>2. /\ \A i \in Place :
            \/ g[i] = NoFile
            \/ i > stop /\ f[i - 1] # NoFile /\ g[i] = f[i - 1]
            \/ i < stop /\ g[i] = f[i]
            \/ i = KeptFiles - 1 /\ g[i] = f[i] /\ (i = stop \/ f[i - 1] = NoFile)
      /\ \A i \in Place : i < stop => g[i] = f[i]
      /\ \A i \in Place : i >= stop /\ i + 1 \in Place /\ f[i] # NoFile => g[i + 1] = f[i]
  BY <1>1, Rotated
<1>3. /\ KeptFiles \in Nat /\ KeptFiles >= 2 /\ stop \in Nat /\ Limit \in Nat
      /\ \A i \in Place : /\ i \in Nat /\ i <= KeptFiles - 1
                          /\ i # 0 => i - 1 \in Place
                          /\ i + 1 \in Place \/ i = KeptFiles - 1
  BY Constants DEF Place
<1>4. /\ NoFile.size = 0 /\ DOMAIN NoFile.lines = {}
      /\ \A i \in Place : f[i].size \in Nat
  BY LinesOf
(* Where a file was before.                                                   *)
<1>5. ASSUME NEW i \in Place, g[i] # NoFile
      PROVE  /\ \E p \in Place : g[i] = f[p] /\ (p = i - 1 \/ p = i)
  <2>1. CASE i > stop /\ f[i - 1] # NoFile /\ g[i] = f[i - 1]
    <3>1. i - 1 \in Place
      BY <1>3, <2>1
    <3> QED BY <2>1, <3>1
  <2> QED BY <1>2, <1>5, <2>1
<1>6. /\ \A i \in Place : g[i] = NoFile \/ g[i].size > 0
      /\ \A i \in Place : \A k \in DOMAIN g[i].lines : g[i].lines[k] \in 1 .. last
      /\ \A i \in Place : g[i].size <= Limit \/ Len(g[i].lines) = 1 \/ g[i].refused
  BY <1>3, <1>4, <1>5 DEF Sound
(* The order of the files, unlike their places, does not change.              *)
<1>7. ASSUME NEW i \in Place, NEW j \in Place, i > j, g[i] # NoFile, g[j] # NoFile
      PROVE  \E p, q \in Place : p > q /\ g[i] = f[p] /\ g[j] = f[q]
  <2>1. CASE g[i] = f[i]
    <3>1. PICK q \in Place : g[j] = f[q] /\ (q = j - 1 \/ q = j)
      BY <1>5, <1>7
    <3>2. i > q
      BY <1>3, <1>7, <3>1
    <3> QED BY <2>1, <3>1, <3>2
  <2>2. CASE i > stop /\ g[i] = f[i - 1]
    <3>1. i - 1 \in Place /\ i - 1 >= j
      BY <1>3, <1>7, <2>2
    <3>2. CASE j > stop /\ g[j] = f[j - 1]
      <4>1. j - 1 \in Place /\ i - 1 > j - 1
        BY <1>3, <1>7, <3>2
      <4> QED BY <2>2, <3>1, <3>2, <4>1
    <3>3. CASE j < stop /\ g[j] = f[j]
      <4>1. i - 1 > j
        BY <1>3, <2>2, <3>3
      <4> QED BY <2>2, <3>1, <3>3, <4>1
    <3>4. j # KeptFiles - 1
      BY <1>3, <1>7
    <3> QED BY <1>2, <1>7, <3>2, <3>3, <3>4
  <2> QED BY <1>2, <1>7, <2>1, <2>2
<1>8. ASSUME NEW i \in Place, NEW j \in Place,
             NEW k \in DOMAIN g[i].lines, NEW l \in DOMAIN g[j].lines,
             i > j \/ (i = j /\ k < l)
      PROVE  g[i].lines[k] < g[j].lines[l]
  <2>1. g[i] # NoFile /\ g[j] # NoFile
    BY <1>4
  <2>2. CASE i > j
    <3>1. PICK p \in Place, q \in Place : p > q /\ g[i] = f[p] /\ g[j] = f[q]
      BY <1>7, <2>1, <2>2
    <3> QED BY <3>1 DEF Sound
  <2>3. CASE i = j /\ k < l
    <3>1. PICK p \in Place : g[i] = f[p]
      BY <1>5, <2>1
    <3>2. k \in DOMAIN f[p].lines /\ l \in DOMAIN f[p].lines /\ g[j] = f[p]
      BY <2>3, <3>1
    <3> QED BY <2>3, <3>1, <3>2 DEF Sound
  <2> QED BY <1>8, <2>2, <2>3
(* A file that is lost was the oldest.                                        *)
<1>9. \A x \in KeptIn(g) : x \in KeptIn(f)
  <2>1. SUFFICES ASSUME NEW x \in KeptIn(g) PROVE x \in KeptIn(f)
    OBVIOUS
  <2>2. PICK i \in Place : \E k \in DOMAIN g[i].lines : x = g[i].lines[k]
    BY LinesOf
  <2>3. g[i] # NoFile
    BY <1>4, <2>2
  <2>4. PICK p \in Place : g[i] = f[p]
    BY <1>5, <2>3
  <2> QED BY <2>2, <2>4, LinesOf
<1>10. ASSUME NEW m \in 1 .. last, m \in KeptIn(f), m \notin KeptIn(g), NEW x \in KeptIn(g)
       PROVE  m < x
  <2>0. PICK p \in Place : \E k \in DOMAIN f[p].lines : m = f[p].lines[k]
    BY <1>10, LinesOf
  <2>1. PICK k \in DOMAIN f[p].lines : m = f[p].lines[k]
    BY <2>0
  <2>2. f[p] # NoFile /\ \A i \in Place : g[i] # f[p]
    <3>1. \A i \in Place : g[i] = f[p] => m \in KeptIn(g)
      BY <2>1, LinesOf
    <3> QED BY <1>4, <1>10, <2>1, <3>1
  <2>3. p >= stop /\ p = KeptFiles - 1
    BY <1>2, <1>3, <2>2
  <2>3a. PICK i \in Place : \E l \in DOMAIN g[i].lines : x = g[i].lines[l]
    BY LinesOf
  <2>4. PICK l \in DOMAIN g[i].lines : x = g[i].lines[l]
    BY <2>3a
  <2>5. g[i] # NoFile
    BY <1>4, <2>4
  <2>6. PICK q \in Place : g[i] = f[q]
    BY <1>5, <2>5
  <2>7. q # p /\ p > q
    BY <1>3, <2>2, <2>3, <2>6
  <2>8. l \in DOMAIN f[q].lines /\ x = f[q].lines[l]
    BY <2>4, <2>6
  <2> QED BY <2>1, <2>7, <2>8 DEF Sound
<1>11. \A m \in 1 .. last : m \in KeptIn(g) \cup gone \/ \A x \in KeptIn(g) : m < x
  BY <1>9, <1>10 DEF Sound
<1>12. Sound(g, last, gone)
  BY <1>6, <1>8, <1>11 DEF Sound
<1> QED BY <1>1, <1>12

(* A line behind all others: only a file that is new, or was not rotated, may *)
(* be larger than its limit.                                                  *)
LEMMA LongerSound ==
    ASSUME LoggingAssumption, NEW f \in [Place -> File], NEW last \in Nat, NEW gone,
           NEW size \in LineSize, NEW refused \in BOOLEAN, Sound(f, last, gone),
           f[0] = NoFile \/ refused \/ f[0].size + size <= Limit
    PROVE  /\ [f EXCEPT ![0] = Longer(f[0], last + 1, size, refused)] \in [Place -> File]
           /\ Sound([f EXCEPT ![0] = Longer(f[0], last + 1, size, refused)], last + 1, gone)
<1>1. PICK new : new = Longer(f[0], last + 1, size, refused)
  OBVIOUS
<1>2. PICK g : g = [f EXCEPT ![0] = new]
  OBVIOUS
<1>3. /\ 0 \in Place /\ Limit \in Nat /\ size \in Nat /\ size > 0
      /\ \A i \in Place : i \in Nat
      /\ new \in File /\ g \in [Place -> File]
      /\ g[0] = new /\ \A i \in Place \ {0} : g[i] = f[i]
  BY <1>1, <1>2, Constants, FilesTyped
<1>4. /\ \A i \in Place : /\ Len(f[i].lines) \in Nat /\ f[i].size \in Nat
                          /\ DOMAIN f[i].lines = 1 .. Len(f[i].lines)
                          /\ f[i].refused \in BOOLEAN
      /\ NoFile.size = 0 /\ NoFile.lines = <<>> /\ f[0].lines \in Seq(Nat)
  BY <1>3, LinesOf DEF File
<1>5. PICK n \in Nat : n = Len(f[0].lines)
  BY <1>3, <1>4
<1>6. /\ Len(new.lines) = n + 1 /\ DOMAIN new.lines = 1 .. n + 1
      /\ DOMAIN f[0].lines = 1 .. n
      /\ \A k \in 1 .. n : new.lines[k] = f[0].lines[k]
      /\ new.lines[n + 1] = last + 1
      /\ new.size = f[0].size + size /\ new.refused = (f[0].refused \/ refused)
  <2>1. new.lines = Append(f[0].lines, last + 1)
    BY <1>1 DEF Longer
  <2>2. new.size = f[0].size + size /\ new.refused = (f[0].refused \/ refused)
    BY <1>1 DEF Longer
  <2> QED BY <1>3, <1>4, <1>5, <2>1, <2>2
<1>7. /\ \A i \in Place : f[i] = NoFile \/ f[i].size > 0
      /\ \A i \in Place : \A k \in DOMAIN f[i].lines : f[i].lines[k] \in 1 .. last
      /\ \A i, j \in Place : \A k \in DOMAIN f[i].lines, l \in DOMAIN f[j].lines :
            i > j \/ (i = j /\ k < l) => f[i].lines[k] < f[j].lines[l]
      /\ \A m \in 1 .. last :
            m \in KeptIn(f) \cup gone \/ \A x \in KeptIn(f) : m < x
      /\ \A i \in Place : f[i].size <= Limit \/ Len(f[i].lines) = 1 \/ f[i].refused
  BY DEF Sound
<1>8. \A i \in Place : g[i] = NoFile \/ g[i].size > 0
  <2>1. f[0].size \in Nat /\ new.size > 0
    BY <1>3, <1>4, <1>6
  <2> QED BY <1>3, <1>7, <2>1
(* A line is an old one, at its old place, or the new one.                    *)
<1>9. ASSUME NEW i \in Place, NEW k \in DOMAIN g[i].lines
      PROVE  \/ k \in DOMAIN f[i].lines /\ g[i].lines[k] = f[i].lines[k]
             \/ i = 0 /\ k = n + 1 /\ g[i].lines[k] = last + 1
  <2>1. CASE i = 0
    <3>1. k \in 1 .. n \/ k = n + 1
      BY <1>3, <1>6, <2>1
    <3> QED BY <1>3, <1>6, <2>1, <3>1
  <2>2. CASE i # 0
    BY <1>3, <2>2
  <2> QED BY <2>1, <2>2
<1>10. ASSUME NEW i \in Place, NEW k \in DOMAIN f[i].lines
       PROVE  k \in DOMAIN g[i].lines /\ g[i].lines[k] = f[i].lines[k]
  <2>1. CASE i = 0
    BY <1>3, <1>6, <2>1
  <2>2. CASE i # 0
    BY <1>3, <2>2
  <2> QED BY <2>1, <2>2
<1>11. \A i \in Place : \A k \in DOMAIN g[i].lines : g[i].lines[k] \in 1 .. last + 1
  BY <1>7, <1>9
<1>12. ASSUME NEW i \in Place, NEW j \in Place,
              NEW k \in DOMAIN g[i].lines, NEW l \in DOMAIN g[j].lines,
              i > j \/ (i = j /\ k < l)
       PROVE  g[i].lines[k] < g[j].lines[l]
  <2>1. CASE k \in DOMAIN f[i].lines /\ g[i].lines[k] = f[i].lines[k]
    <3>1. CASE l \in DOMAIN f[j].lines /\ g[j].lines[l] = f[j].lines[l]
      BY <1>7, <1>12, <2>1, <3>1
    <3>2. CASE g[j].lines[l] = last + 1
      BY <1>7, <2>1, <3>2
    <3> QED BY <1>9, <3>1, <3>2
  <2>2. CASE i = 0 /\ k = n + 1 /\ g[i].lines[k] = last + 1
    <3>1. j = 0 /\ k < l
      BY <1>3, <1>12, <2>2
    <3> QED BY <1>3, <1>6, <2>2, <3>1
  <2> QED BY <1>9, <2>1, <2>2
<1>13. \A x : x \in KeptIn(g) <=> x \in KeptIn(f) \/ x = last + 1
  <2> TAKE x
  <2>1. ASSUME x \in KeptIn(g) PROVE x \in KeptIn(f) \/ x = last + 1
    <3>1. PICK i \in Place : \E k \in DOMAIN g[i].lines : x = g[i].lines[k]
      BY <1>3, <2>1, LinesOf
    <3>2. PICK k \in DOMAIN g[i].lines : x = g[i].lines[k]
      BY <3>1
    <3> QED BY <1>9, <3>2, LinesOf
  <2>2. ASSUME x \in KeptIn(f) PROVE x \in KeptIn(g)
    <3>1. PICK i \in Place : \E k \in DOMAIN f[i].lines : x = f[i].lines[k]
      BY <2>2, LinesOf
    <3>2. PICK k \in DOMAIN f[i].lines : x = f[i].lines[k]
      BY <3>1
    <3> QED BY <1>3, <1>10, <3>2, LinesOf
  <2>3. last + 1 \in KeptIn(g)
    <3>1. n + 1 \in DOMAIN g[0].lines /\ g[0].lines[n + 1] = last + 1
      BY <1>3, <1>6
    <3> QED BY <1>3, <3>1, LinesOf
  <2> QED BY <2>1, <2>2, <2>3
<1>14. ASSUME NEW m \in 1 .. last + 1
       PROVE  m \in KeptIn(g) \cup gone \/ \A x \in KeptIn(g) : m < x
  <2>1. CASE m = last + 1
    BY <1>13, <2>1
  <2>2. CASE m \in 1 .. last
    <3>1. m < last + 1
      BY <2>2
    <3> QED BY <1>7, <1>13, <2>2, <3>1
  <2> QED BY <2>1, <2>2
<1>15. \A i \in Place : g[i].size <= Limit \/ Len(g[i].lines) = 1 \/ g[i].refused
  <2>1. new.size <= Limit \/ Len(new.lines) = 1 \/ new.refused
    <3>1. CASE f[0] = NoFile
      <4>1. n = 0
        BY <1>4, <1>5, <3>1
      <4> QED BY <1>6, <4>1
    <3>2. CASE refused
      BY <1>6, <3>2
    <3>3. CASE f[0].size + size <= Limit
      BY <1>6, <3>3
    <3> QED BY <3>1, <3>2, <3>3
  <2> QED BY <1>3, <1>7, <2>1
<1>16. Sound(g, last + 1, gone)
  BY <1>8, <1>11, <1>12, <1>14, <1>15 DEF Sound
<1> QED BY <1>1, <1>2, <1>3, <1>16

(* A write leaves sound files, whatever is refused.                           *)
LEMMA WritesSound ==
    ASSUME LoggingAssumption, NEW f \in [Place -> File], NEW last \in Nat, NEW gone,
           NEW size \in LineSize, NEW refusals, Sound(f, last, gone),
           NEW o \in Writes(f, last + 1, size, refusals)
    PROVE  Sound(o.files, IF o.error = "write" THEN last ELSE last + 1, gone)
<1> DEFINE turned == IF Rotates(f, size)
                     THEN {[files |-> Rotate(f, i), refused |-> i # 0] : i \in Stops(f, refusals)}
                     ELSE {[files |-> f, refused |-> FALSE]}
<1>1. /\ 0 \in Place /\ Limit \in Nat /\ size \in Nat /\ f[0].size \in Nat
      /\ Stops(f, refusals) \subseteq Place
  BY Constants, LinesOf DEF Stops
<1>2. ASSUME NEW t \in turned
      PROVE  /\ t.files \in [Place -> File] /\ t.refused \in BOOLEAN
             /\ Sound(t.files, last, gone)
             /\ t.files[0] = NoFile \/ t.refused \/ t.files[0].size + size <= Limit
  <2>1. CASE Rotates(f, size)
    <3>1. PICK i \in Stops(f, refusals) : t = [files |-> Rotate(f, i), refused |-> i # 0]
      BY <2>1
    <3>2. i \in Place /\ t.files = Rotate(f, i) /\ t.refused = (i # 0)
      BY <1>1, <3>1
    <3>3. t.files \in [Place -> File] /\ Sound(t.files, last, gone)
      BY <3>2, Rotated, RotateSound
    <3>4. i = 0 => t.files[0] = NoFile
      BY <3>2, Rotated
    <3> QED BY <3>2, <3>3, <3>4
  <2>2. CASE ~Rotates(f, size)
    <3>1. t.files = f /\ t.refused = FALSE
      BY <2>2
    <3>2. f[0] = NoFile \/ f[0].size + size <= Limit
      BY <1>1, <2>2 DEF Rotates, Sound
    <3> QED BY <3>1, <3>2
  <2> QED BY <2>1, <2>2
<1> HIDE DEF turned
<1>3. o \in {[files |-> [t.files EXCEPT ![0] = Longer(@, last + 1, size, t.refused)],
              error |-> IF t.refused THEN "rotate" ELSE "none"] : t \in turned}
         \cup {[files |-> g, error |-> "write"] : g \in {f} \cup {t.files : t \in turned}}
  BY DEF Writes, turned
<1>4. CASE \E t \in turned :
              o = [files |-> [t.files EXCEPT ![0] = Longer(@, last + 1, size, t.refused)],
                   error |-> IF t.refused THEN "rotate" ELSE "none"]
  <2>1. PICK t \in turned :
              o = [files |-> [t.files EXCEPT ![0] = Longer(@, last + 1, size, t.refused)],
                   error |-> IF t.refused THEN "rotate" ELSE "none"]
    BY <1>4
  <2>2. Sound([t.files EXCEPT ![0] = Longer(t.files[0], last + 1, size, t.refused)],
              last + 1, gone)
    BY <1>2, LongerSound
  <2>3. /\ o.files = [t.files EXCEPT ![0] = Longer(t.files[0], last + 1, size, t.refused)]
        /\ o.error # "write"
    BY <1>1, <1>2, <2>1
  <2> QED BY <2>2, <2>3
<1>5. CASE \E g \in {f} \cup {t.files : t \in turned} : o = [files |-> g, error |-> "write"]
  <2>1. PICK g \in {f} \cup {t.files : t \in turned} : o = [files |-> g, error |-> "write"]
    BY <1>5
  <2>2. Sound(g, last, gone)
    BY <1>2
  <2> QED BY <2>1, <2>2
<1> QED BY <1>3, <1>4, <1>5

(* At the start, and when the user deletes a file.                            *)
LEMMA FilesInit == ASSUME LoggingAssumption, Init PROVE FilesInv
<1>1. /\ KeptFiles \in Nat /\ Limit \in Nat /\ deleted = {}
      /\ \A i \in Place : i \in Nat /\ i <= KeptFiles - 1
      /\ \/ files = EarlierFiles /\ filed = KeptFiles
         \/ files = NoFiles /\ filed = 0
  BY Constants DEF Init, Place
<1>2. CASE files = NoFiles /\ filed = 0
  <2>1. \A i \in Place : files[i] = NoFile
    BY <1>2 DEF NoFiles
  <2>2. NoFile.size = 0 /\ DOMAIN NoFile.lines = {}
    BY LinesOf, FilesTyped
  <2>3. 1 .. filed = {}
    BY <1>2
  <2> QED BY <1>1, <2>1, <2>2, <2>3 DEF FilesInv, Sound
<1>3. CASE files = EarlierFiles /\ filed = KeptFiles
  <2>1. ASSUME NEW i \in Place
        PROVE  /\ files[i].lines = <<KeptFiles - i>> /\ files[i].size = 1
               /\ DOMAIN files[i].lines = {1} /\ files[i].lines[1] = KeptFiles - i
               /\ Len(files[i].lines) = 1
    <3>1. files[i] = Longer(NoFile, KeptFiles - i, 1, FALSE)
      BY <1>3 DEF EarlierFiles
    <3>2. files[i].lines = Append(<<>>, KeptFiles - i) /\ files[i].size = 0 + 1
      BY <3>1 DEF Longer, NoFile
    <3>3. files[i].lines = <<KeptFiles - i>> /\ files[i].size = 1
      BY <3>2
    <3> QED BY <3>3
  <2>2. \A i \in Place : files[i].lines[1] \in 1 .. filed
    BY <1>1, <1>3, <2>1
  <2>3. \A i, j \in Place : i > j => files[i].lines[1] < files[j].lines[1]
    BY <1>1, <2>1
  <2>4. ASSUME NEW m \in 1 .. filed PROVE m \in KeptIn(files)
    <3>1. PICK i : i = KeptFiles - m
      OBVIOUS
    <3>2. i \in Place /\ m = KeptFiles - i
      BY <1>1, <1>3, <3>1 DEF Place
    <3>3. files \in [Place -> File]
      BY <1>3, FilesTyped
    <3> QED BY <2>1, <3>2, <3>3, LinesOf
  <2> QED BY <2>1, <2>2, <2>3, <2>4 DEF FilesInv, Sound
<1> QED BY <1>1, <1>2, <1>3

(* The lines of a file that the user deletes are not missed.                  *)
LEMMA DeleteSound ==
    ASSUME LoggingAssumption, TypeInv, FilesInv, Delete
    PROVE  FilesInv'
<1>1. PICK p \in Place : /\ files' = [files EXCEPT ![p] = NoFile]
                         /\ deleted' = deleted \cup ToSet(files[p].lines)
  BY DEF Delete
<1>2. files \in [Place -> File] /\ files' \in [Place -> File] /\ filed' = filed /\ Limit \in Nat
  BY <1>1, FilesTyped, Constants DEF TypeInv, TypeOK, Delete, output
<1>3. /\ files'[p] = NoFile /\ \A i \in Place \ {p} : files'[i] = files[i]
      /\ NoFile.size = 0 /\ DOMAIN NoFile.lines = {}
  BY <1>1, <1>2, LinesOf
<1>4. /\ \A i \in Place : files'[i] = NoFile \/ files'[i].size > 0
      /\ \A i \in Place : \A k \in DOMAIN files'[i].lines : files'[i].lines[k] \in 1 .. filed
      /\ \A i \in Place : \/ files'[i].size <= Limit \/ Len(files'[i].lines) = 1
                          \/ files'[i].refused
  BY <1>2, <1>3 DEF FilesInv, Sound
<1>5. ASSUME NEW i \in Place, NEW j \in Place,
             NEW k \in DOMAIN files'[i].lines, NEW l \in DOMAIN files'[j].lines,
             i > j \/ (i = j /\ k < l)
      PROVE  files'[i].lines[k] < files'[j].lines[l]
  <2>1. i # p /\ j # p
    BY <1>3
  <2> QED BY <1>3, <1>5, <2>1 DEF FilesInv, Sound
<1>6. \A x : x \in KeptIn(files') => x \in KeptIn(files)
  <2>1. SUFFICES ASSUME NEW x, x \in KeptIn(files') PROVE x \in KeptIn(files)
    OBVIOUS
  <2>2. PICK i \in Place : \E k \in DOMAIN files'[i].lines : x = files'[i].lines[k]
    BY <1>2, <2>1, LinesOf
  <2>3. files'[i] = files[i]
    BY <1>3, <2>2
  <2> QED BY <1>2, <2>2, <2>3, LinesOf
<1>7. \A x : x \in KeptIn(files) => x \in KeptIn(files') \cup deleted'
  <2>1. SUFFICES ASSUME NEW x, x \in KeptIn(files) PROVE x \in KeptIn(files') \cup deleted'
    OBVIOUS
  <2>2. PICK i \in Place : \E k \in DOMAIN files[i].lines : x = files[i].lines[k]
    BY <1>2, <2>1, LinesOf
  <2>3. CASE i = p
    BY <1>1, <2>2, <2>3 DEF ToSet
  <2>4. CASE i # p
    <3>1. files'[i] = files[i]
      BY <1>3, <2>4
    <3> QED BY <1>2, <2>2, <3>1, LinesOf
  <2> QED BY <2>3, <2>4
<1>8. \A m \in 1 .. filed :
         m \in KeptIn(files') \cup deleted' \/ \A x \in KeptIn(files') : m < x
  BY <1>1, <1>6, <1>7 DEF FilesInv, Sound
<1>9. Sound(files', filed, deleted')
  BY <1>4, <1>5, <1>8 DEF Sound
<1> QED BY <1>2, <1>9 DEF FilesInv

(* Every step leaves sound files, also the write that ends a streak of errors *)
(* and writes its notice.                                                     *)
LEMMA FilesStep == ASSUME LoggingAssumption, TypeInv, FilesInv, Next PROVE FilesInv'
<1>1. ASSUME UNCHANGED <<files, filed, deleted>> PROVE FilesInv'
  BY <1>1 DEF FilesInv
<1>2. CASE WriteFiles
  <2>1. files \in [Place -> File] /\ filed \in Nat /\ writer.size \in LineSize /\ 1 \in LineSize
    BY <1>2, Constants DEF TypeInv, TypeOK, SizesKnown, WriteFiles
  <2>2. deleted' = deleted /\ Sound(files, filed, deleted)
    BY <1>2 DEF WriteFiles, FilesInv
  <2>3. CASE ~attached
    BY <1>1, <1>2, <2>2, <2>3 DEF WriteFiles
  <2>4. CASE attached
    <3> DEFINE refusals == "refusal" \in env
               Kept(n, o) == IF o.error = "write" THEN n - 1 ELSE n
               After(o) ==
                  IF o.error = "none" /\ failing
                  THEN \E second \in Writes(o.files, filed + 2, 1, refusals) :
                          files' = second.files /\ filed' = Kept(filed + 2, second)
                  ELSE files' = o.files /\ filed' = Kept(filed + 1, o)
    <3>1. PICK o \in Writes(files, filed + 1, writer.size, refusals) : After(o)
      <4>1. \E o \in Writes(files, filed + 1, writer.size, refusals) :
               /\ failing' = (o.error # "none")
               /\ writer' = [writer EXCEPT !.at = "console", !.notice = failing' # failing]
               /\ After(o)
        <5>1. attached = TRUE
          BY <2>4 DEF TypeInv, TypeOK
        <5> QED BY <1>2, <5>1, Zenon DEF WriteFiles
      <4> QED BY <4>1
    <3> HIDE DEF refusals
    <3>2. /\ Sound(o.files, IF o.error = "write" THEN filed ELSE filed + 1, deleted)
          /\ o.files \in [Place -> File]
      BY <2>1, <2>2, WritesSound, WritesTyped
    <3>3. CASE o.error = "none" /\ failing
      <4>1. PICK second \in Writes(o.files, filed + 2, 1, refusals) :
                     files' = second.files /\ filed' = Kept(filed + 2, second)
        BY <3>1, <3>3, Zenon
      <4>2. PICK last \in Nat : last = filed + 1
        BY <2>1
      <4>3. last + 1 = filed + 2 /\ filed + 2 - 1 = last
        BY <2>1, <4>2
      <4>4. Sound(o.files, last, deleted) /\ second \in Writes(o.files, last + 1, 1, refusals)
        BY <3>2, <3>3, <4>2, <4>3
      <4>5. Sound(second.files, IF second.error = "write" THEN last ELSE last + 1, deleted)
        BY <2>1, <3>2, <4>4, WritesSound
      <4> QED BY <2>2, <4>1, <4>3, <4>5 DEF FilesInv
    <3>4. CASE ~(o.error = "none" /\ failing)
      <4>1. /\ files' = o.files
            /\ filed' = IF o.error = "write" THEN filed ELSE filed + 1
        BY <2>1, <3>1, <3>4
      <4> QED BY <2>2, <3>2, <4>1 DEF FilesInv
    <3> QED BY <3>3, <3>4
  <2> QED BY <2>3, <2>4
<1>3. CASE Attach \/ UNCHANGED vars
  BY <1>1, <1>3 DEF Attach, vars, output
<1>4. ASSUME NEW t \in Thread,
             \/ \E why \in {"log", "fatal"}, size \in LineSize : Log(t, why, size)
             \/ Bump(t) \/ WriteItself(t) \/ Panic(t) \/ Report(t) \/ Unwind(t)
             \/ \E why \in {"log", "fatal"} : Flush(t, why)
             \/ SendFlush(t) \/ EndWait(t)
      PROVE  FilesInv'
  BY <1>1, <1>4 DEF Log, Bump, WriteItself, Panic, Report, Unwind, Flush, SendFlush, EndWait,
                    output
<1>5. CASE TakeMessage \/ MinuteReport \/ WriteConsole \/ Acknowledge \/ WriterEnds
           \/ Select \/ Tick
  BY <1>1, <1>5 DEF TakeMessage, MinuteReport, WriteConsole, Acknowledge, WriterEnds, Select,
                    Tick, output
<1>6. CASE Aborted
  BY <1>3, <1>6 DEF Aborted
<1> QED BY <1>2, <1>3, <1>4, <1>5, <1>6, Actions, DeleteSound

(* Sound files are whole.                                                     *)
LEMMA SoundIsWhole == ASSUME TypeInv, FilesInv PROVE FilesWhole
<1>1. files \in [Place -> File] /\ filed \in Nat
  BY DEF TypeInv, TypeOK
<1>2. KeptLines = KeptIn(files)
  BY DEF KeptLines, KeptIn
<1>3. NotTooLarge
  BY DEF FilesInv, Sound, NotTooLarge
<1>4. ASSUME NEW i \in Place, NEW j \in Place,
             NEW k \in DOMAIN files[i].lines, NEW l \in DOMAIN files[j].lines,
             i > j \/ (i = j /\ k < l)
      PROVE  /\ files[i].lines[k] < files[j].lines[l]
             /\ files[i].lines[k] + 1 .. files[j].lines[l] - 1 \subseteq KeptLines \cup deleted
  <2>1. PICK before \in 1 .. filed : before = files[i].lines[k]
    BY DEF FilesInv, Sound
  <2>2. PICK after \in 1 .. filed : after = files[j].lines[l]
    BY DEF FilesInv, Sound
  <2>3. before < after
    BY <1>4, <2>1, <2>2 DEF FilesInv, Sound
  <2>4. before \in KeptIn(files)
    BY <1>1, <2>1, LinesOf
  <2>5. ASSUME NEW m \in before + 1 .. after - 1 PROVE m \in KeptLines \cup deleted
    <3>1. m \in 1 .. filed /\ ~(m < before)
      BY <1>1
    <3> QED BY <1>2, <2>4, <3>1 DEF FilesInv, Sound
  <2> QED BY <2>1, <2>2, <2>3, <2>5
<1> QED BY <1>3, <1>4 DEF FilesWhole, InOrder

-----------------------------------------------------------------------------
(* The inductive invariant.                                                   *)
LEMMA InitInv == LoggingAssumption /\ Init => IInv
<1> SUFFICES ASSUME LoggingAssumption, Init PROVE IInv
  OBVIOUS
<1>1. StartsEmpty
  BY Constants DEF Init, StartsEmpty, Idle
<1> QED BY <1>1, TypesInit, HeldInit, FlushInit, CountInit, FilesInit DEF IInv

(* Every step keeps it.                                                       *)
LEMMA StepInv == LoggingAssumption /\ IInv /\ [Next]_vars => IInv'
<1>1. ASSUME LoggingAssumption, IInv, Next PROVE IInv'
  <2>1. TypeInv'
    BY <1>1, TypesStep DEF IInv
  <2> QED BY <1>1, <2>1, StartStep, HeldStep, FlushStep, CountStep, FilesStep DEF IInv
<1>2. ASSUME LoggingAssumption, IInv, UNCHANGED vars PROVE IInv'
  <2>1. TypeInv'
    BY <1>2 DEF IInv, TypeInv, TypeOK, SizesKnown, vars, console, counts, output, panics
  <2>2. StartsEmpty' /\ HeldInv' /\ FilesInv'
    BY <1>2 DEF IInv, StartsEmpty, HeldInv, FilesInv, Panicking, Waiting, AtConsole,
                vars, output, panics
  <2>3. FlushInv' /\ CountInv'
    BY <1>2 DEF IInv, FlushInv, OneFlush, CountsRight, LinesCounted, Promised, Written, InWriter,
                LineIn, Lost, Running, CountInv, Counted, Bumping, vars, counts, output
  <2> QED BY <2>1, <2>2, <2>3 DEF IInv
<1> QED BY <1>1, <1>2

(* The log's state has its types, the files and what is queued for them       *)
(* included, and its queue never holds more than it may (logging::start).     *)
THEOREM TypesKept == ASSUME LoggingAssumption PROVE Spec => []TypeOK
<1>1. IInv => TypeOK
  BY DEF IInv, TypeInv
<1> QED BY <1>1, LoggingAssumption, InitInv, StepInv, PTL DEF Spec

(* Panics hold a thread for longer than one budget, in any number and at any  *)
(* distance, whatever the writer, the console and the queue do, only where no *)
(* writer could be started (budget_end, report_on, report).                   *)
THEOREM PanicsAreBrief == ASSUME LoggingAssumption PROVE Spec => []HeldBriefly
<1>1. IInv => HeldBriefly
  <2> SUFFICES ASSUME IInv, NEW t \in Thread, writer.at # "none"
               PROVE  ~(waited[t] > ReportBudget)
    BY DEF HeldBriefly
  <2>1. /\ waited[t] + AtLeast(budget[t], 0) <= ReportBudget
        /\ waited[t] \in Nat /\ budget[t] \in -Episode .. ReportBudget
    BY DEF IInv, HeldInv, TypeInv, TypeOK
  <2>2. Episode \in Nat /\ ReportBudget \in Nat
    BY Constants
  <2> QED BY ONLY <2>1, <2>2 DEF AtLeast
<1> QED BY <1>1, LoggingAssumption, InitInv, StepInv, PTL DEF Spec

(* A flush that is acknowledged has its lines written and the lines dropped   *)
(* before it reported, and no dropped line is counted twice or not at all;    *)
(* for any number of threads, flushes and drops (flush_by, run, bump, take).  *)
THEOREM FlushesTellTruth == ASSUME LoggingAssumption PROVE Spec => []FlushTold
<1>1. IInv => FlushTold
  <2> SUFFICES ASSUME IInv PROVE FlushTold
    OBVIOUS
  <2>1. ASSUME NEW t \in Thread, thread[t].acked
        PROVE  done >= thread[t].mark /\ told >= thread[t].drops
    <3>1. thread[t].mark <= done /\ thread[t].drops <= told
      BY <2>1 DEF IInv, FlushInv, Promised
    <3> QED BY <3>1, ThreadStates DEF IInv
  <2>2. Counted
    BY DEF IInv, CountInv
  <2> QED BY <2>1, <2>2 DEF FlushTold, Acked
<1> QED BY <1>1, LoggingAssumption, InitInv, StepInv, PTL DEF Spec

(* The files together hold their lines in order and without a gap, but for    *)
(* what the user deleted, and keep to their limit; for any limit, number of   *)
(* files and sizes, and for every rename and write that is refused            *)
(* (Sink::rotate, write_line).                                                *)
THEOREM FilesAreWhole == ASSUME LoggingAssumption PROVE Spec => []FilesWhole
<1>1. IInv => FilesWhole
  BY SoundIsWhole DEF IInv
<1> QED BY <1>1, LoggingAssumption, InitInv, StepInv, PTL DEF Spec
=============================================================================
