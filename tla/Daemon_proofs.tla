----------------------------- MODULE Daemon_proofs -----------------------------
(* Proofs about Daemon, for every set of clients, capacity of the queue,      *)
(* number of requests and saves and choice of environments: its types, that   *)
(* keys are never held up by the end of the process, that no wake-up is lost, *)
(* that what swch hears is true, and that the last save is live.              *)
EXTENDS Daemon, SequenceTheorems, TLAPS

Kind == {"switch", "reload", "reinstall"}
Value(kind, latest) == CASE kind = "switch" -> BOOLEAN
                         [] kind = "reload" -> 0 .. latest
                         [] OTHER           -> {None}
Requests == [from : Caller, kind : Kind, value : BOOLEAN \cup Nat \cup {None}, n : Nat,
             heard : BOOLEAN]
CallState == [at : {"idle", "sent", "waiting", "ok", "no answer", "busy", "shutting down"},
              n : Nat, replied : BOOLEAN, carried : BOOLEAN]

(* The types of the queue, the callers and the watcher, which TypeOK leaves   *)
(* out; no request and no loaded list is newer than the last save.            *)
TypeInv ==
    /\ TypeOK
    /\ requests \in Seq(Requests)
    /\ \A i \in DOMAIN requests : requests[i].value \in Value(requests[i].kind, saves)
    /\ call \in [Caller -> CallState]
    /\ watcher \in [at : {"idle", "debounce", "loaded", "waiting"}, list : Nat \cup {None}]
    /\ watcher.at = "loaded" => watcher.list \in 0 .. saves
    /\ saves \in 0 .. MaxSaves /\ disk \in (0 .. saves) \cup {None}
-----------------------------------------------------------------------------
(* The queue without its first request, with one more, and with those of a    *)
(* caller unheard.                                                            *)
LEMMA TailOfQueue ==
    ASSUME NEW S, NEW q \in Seq(S), q # <<>>
    PROVE  /\ Tail(q) \in Seq(S) /\ Len(Tail(q)) = Len(q) - 1 /\ Len(q) \in Nat \ {0}
           /\ DOMAIN q = 1 .. Len(q) /\ DOMAIN Tail(q) = 1 .. Len(q) - 1
           /\ Head(q) = q[1] /\ 1 \in DOMAIN q /\ Head(q) \in S
           /\ \A i \in DOMAIN Tail(q) : i + 1 \in DOMAIN q /\ Tail(q)[i] = q[i + 1]
<1>1. /\ Tail(q) \in Seq(S) /\ Len(Tail(q)) = Len(q) - 1 /\ Len(q) \in Nat \ {0}
      /\ \A i \in 1 .. Len(Tail(q)) : Tail(q)[i] = q[i + 1]
      /\ Head(q) = q[1] /\ Head(q) \in S
  BY HeadTailProperties, EmptySeq
<1>2. DOMAIN q = 1 .. Len(q) /\ DOMAIN Tail(q) = 1 .. Len(Tail(q))
  BY <1>1, LenProperties
<1> QED
  BY <1>1, <1>2

LEMMA AppendToQueue ==
    ASSUME NEW S, NEW q \in Seq(S), NEW e \in S
    PROVE  /\ Append(q, e) \in Seq(S) /\ Len(Append(q, e)) = Len(q) + 1 /\ Len(q) \in Nat
           /\ DOMAIN q = 1 .. Len(q) /\ DOMAIN Append(q, e) = 1 .. Len(q) + 1
           /\ Append(q, e) # <<>>
           /\ \A i \in DOMAIN q : Append(q, e)[i] = q[i]
           /\ Append(q, e)[Len(q) + 1] = e
<1>1. /\ Append(q, e) \in Seq(S) /\ Len(Append(q, e)) = Len(q) + 1 /\ Len(q) \in Nat
      /\ \A i \in 1 .. Len(q) : Append(q, e)[i] = q[i]
      /\ Append(q, e)[Len(q) + 1] = e
  BY AppendProperties, LenProperties
<1>2. DOMAIN q = 1 .. Len(q) /\ DOMAIN Append(q, e) = 1 .. Len(Append(q, e))
  BY <1>1, LenProperties
<1> QED
  BY <1>1, <1>2, EmptySeq

Silenced(c) ==
    [i \in DOMAIN requests |-> IF requests[i].from = c THEN [requests[i] EXCEPT !.heard = FALSE]
                               ELSE requests[i]]

LEMMA SilencedQueue ==
    ASSUME NEW c, requests \in Seq(Requests)
    PROVE  /\ Silenced(c) \in Seq(Requests) /\ Len(Silenced(c)) = Len(requests)
           /\ DOMAIN Silenced(c) = DOMAIN requests
           /\ \A i \in DOMAIN requests :
                 /\ Silenced(c)[i].from = requests[i].from
                 /\ Silenced(c)[i].kind = requests[i].kind
                 /\ Silenced(c)[i].value = requests[i].value
                 /\ Silenced(c)[i].n = requests[i].n
                 /\ Silenced(c)[i].heard = (requests[i].heard /\ requests[i].from # c)
           /\ Silenced(c) = <<>> <=> requests = <<>>
<1>1. /\ DOMAIN requests = 1 .. Len(requests) /\ Len(requests) \in Nat
      /\ \A i \in DOMAIN requests : requests[i] \in Requests
  BY LenProperties, ElementOfSeq
<1>2. \A i \in DOMAIN requests :
         /\ Silenced(c)[i] \in Requests
         /\ Silenced(c)[i].from = requests[i].from
         /\ Silenced(c)[i].kind = requests[i].kind
         /\ Silenced(c)[i].value = requests[i].value
         /\ Silenced(c)[i].n = requests[i].n
         /\ Silenced(c)[i].heard = (requests[i].heard /\ requests[i].from # c)
  <2> TAKE i \in DOMAIN requests
  <2>1. CASE requests[i].from = c
    BY <1>1, <2>1 DEF Silenced, Requests
  <2>2. CASE requests[i].from # c
    BY <1>1, <2>2 DEF Silenced, Requests
  <2> QED  BY <2>1, <2>2
<1>3. Silenced(c) \in [1 .. Len(requests) -> Requests]
  BY <1>1, <1>2 DEF Silenced
<1>4. Silenced(c) \in Seq(Requests)
  BY <1>1, <1>3, SeqDef
<1>5. DOMAIN Silenced(c) = DOMAIN requests /\ Len(Silenced(c)) = Len(requests)
  BY <1>1, <1>3, <1>4, LenProperties
<1> QED
  BY <1>1, <1>2, <1>4, <1>5, EmptySeq
-----------------------------------------------------------------------------
(* What TypeInv says of the queue and of who uses it.                         *)
QueueType ==
    /\ requests \in Seq(Requests) /\ Len(requests) <= Capacity
    /\ \A i \in DOMAIN requests : requests[i].value \in Value(requests[i].kind, saves)
    /\ \A i \in DOMAIN requests : requests[i].from \in Caller
CallerType ==
    /\ call \in [Caller -> CallState]
    /\ watcher \in [at : {"idle", "debounce", "loaded", "waiting"}, list : Nat \cup {None}]
    /\ watcher.at = "loaded" => watcher.list \in 0 .. saves

(* A hook has a name, which is not that of none.                              *)
LEMMA HookNames == 1 \in Hooks /\ None \notin Hooks /\ None # "runs"
BY DaemonAssumption DEF Hooks

(* What a removal may change.                                                 *)
LEMMA UnhookType ==
    ASSUME NEW all, Unhook(all), hook \in Hooks \cup {None}, leftover \subseteq Hooks,
           all \subseteq Hooks
    PROVE  installed' \subseteq all /\ leftover' \subseteq Hooks
BY HookNames DEF Unhook

LEMMA InitType == Init => TypeInv
<1> SUFFICES ASSUME Init PROVE TypeInv
  OBVIOUS
<1>1. requests = <<>> /\ <<>> \in Seq(Requests) /\ Len(<<>>) = 0 /\ DOMAIN requests = {}
  BY EmptySeq DEF Init
<1>2. call \in [Caller -> CallState]
  BY DEF Init, CallState
<1>3. TypeOK
  <2>1. /\ guards \subseteq Guard /\ order \in {<<>>, DropOrder, NormalOrder}
        /\ hook \in Hooks \cup {None} /\ installed \subseteq Hooks
        /\ leftover \subseteq Hooks /\ Len(requests) <= Capacity
        /\ posted \subseteq {"wake", "quit"} /\ signals \subseteq {"left", "returned"}
        /\ disk \in 0 .. MaxSaves \cup {None} /\ live \in 0 .. saves
    BY <1>1, DaemonAssumption DEF Init
  <2> QED
    BY <1>1, <2>1 DEF Init, TypeOK
<1> QED
  BY <1>1, <1>2, <1>3, DaemonAssumption DEF Init, TypeInv

(* The main thread's start and end, a second start, and a save change neither *)
(* the queue nor the callers.                                                 *)
LEMMA StartType == TypeInv /\ Start => TypeInv'
<1> SUFFICES ASSUME TypeInv, Start PROVE TypeInv'
  OBVIOUS
<1>0. UNCHANGED <<env, bound, requests, busy, posted, signals, call, instance, second, file,
                  watch>>
  BY DEF Start
<1>1. /\ at' \in {"executor", "main", "watchdog", "window", "install", "serve", "watcher",
                  "drain", "end"}
      /\ guards' \subseteq Guard /\ failed' \in BOOLEAN
      /\ order' \in {order, DropOrder}
      /\ hook' \in Hooks \cup {None} /\ installed' \subseteq Hooks /\ leftover' \subseteq Hooks
      /\ pipe' \in {"none", "bound", "served", pipe}
  BY HookNames DEF Start, Bind, StartExecutor, StartMain, StartWatchdog, StartWindow, StartWatcher,
         Install, Serve, StartGuard, StartOptional, Return, Goes, Uninstall, Unhook, TypeInv,
         TypeOK, Guard, hooks
<1> QED
  BY <1>0, <1>1 DEF TypeInv, TypeOK, bound, file, watch, Value

(* A request that is carried out is noted with its caller alone.              *)
LEMMA CarriedCall ==
    ASSUME NEW r, r.from \in Caller, call \in [Caller -> CallState], Carried(r)
    PROVE  /\ call' \in [Caller -> CallState]
           /\ \A c \in Caller : call'[c].at = call[c].at /\ call'[c].n = call[c].n
           /\ \A c \in Caller \ {r.from} : call'[c] = call[c]
           /\ call'[r.from].replied = (call[r.from].replied \/ r.heard)
           /\ call'[r.from].carried = (call[r.from].carried \/ call[r.from].n = r.n)
<1> DEFINE replied == call[r.from].replied \/ r.heard
           carried == call[r.from].carried \/ call[r.from].n = r.n
           noted   == [call[r.from] EXCEPT !.replied = replied, !.carried = carried]
<1>1. call' = [call EXCEPT ![r.from] = noted]
  BY DEF Carried, CallState
<1>2. replied \in BOOLEAN /\ carried \in BOOLEAN
  BY DEF CallState
<1> HIDE DEF replied, carried
<1>3. /\ noted \in CallState /\ noted.at = call[r.from].at /\ noted.n = call[r.from].n
      /\ noted.replied = replied /\ noted.carried = carried
  BY <1>2 DEF CallState
<1> HIDE DEF noted
<1> QED
  BY <1>1, <1>3 DEF replied, carried

LEMMA LoopType == TypeInv /\ Loop => TypeInv'
<1> SUFFICES ASSUME TypeInv, Loop PROVE TypeInv'
  OBVIOUS
<1>0. UNCHANGED <<env, guards, order, failed, process, file, watch>>
  BY DEF Loop
<1>1. CASE ServeRequest
  <2> DEFINE r == Head(requests)
  <2>1. /\ requests # <<>> /\ requests' = Tail(requests) /\ busy' = TRUE
        /\ UNCHANGED <<at, signals, posted>> /\ Carried(r)
        /\ CASE r.kind = "switch" -> enabled' = r.value /\ UNCHANGED <<live, hooks>>
             [] r.kind = "reload" -> live' = r.value /\ UNCHANGED <<enabled, hooks>>
             [] OTHER -> Reinstall /\ UNCHANGED bound
    BY <1>1 DEF ServeRequest
  <2>2. /\ Tail(requests) \in Seq(Requests) /\ Len(Tail(requests)) = Len(requests) - 1
        /\ Len(requests) \in Nat \ {0}
        /\ r \in Requests /\ r.value \in Value(r.kind, saves)
        /\ \A i \in DOMAIN Tail(requests) : i + 1 \in DOMAIN requests
                                            /\ Tail(requests)[i] = requests[i + 1]
    BY <2>1, TailOfQueue DEF TypeInv
  <2> HIDE DEF r
  <2>3. QueueType'
    BY <1>0, <2>1, <2>2, DaemonAssumption DEF QueueType, TypeInv, TypeOK, Value, file
  <2>4. call' \in [Caller -> CallState]
    <3>1. r.from \in Caller
      BY <2>2 DEF Requests
    <3> QED  BY <2>1, <3>1, CarriedCall DEF TypeInv
  <2>5. CallerType'
    BY <1>0, <2>4 DEF CallerType, TypeInv, watch, file
  <2>6. /\ hook' \in Hooks \cup {None} /\ installed' \subseteq Hooks
        /\ leftover' \subseteq Hooks /\ enabled' \in BOOLEAN
        /\ live' \in 0 .. saves
    <3>1. CASE r.kind = "switch"
      BY <2>1, <2>2, <3>1 DEF Value, TypeInv, TypeOK, hooks
    <3>2. CASE r.kind = "reload"
      BY <2>1, <2>2, <3>2 DEF Value, TypeInv, TypeOK, hooks
    <3>3. CASE r.kind = "reinstall"
      BY <2>1, <3>3, HookNames DEF Reinstall, Replaced, Unhook, TypeInv, TypeOK, hooks, bound
    <3> QED  BY <2>2, <3>1, <3>2, <3>3 DEF Requests, Kind
  <2>7. busy' \in BOOLEAN /\ UNCHANGED <<at, signals, posted>>
    BY <2>1
  <2>8. TypeOK'
    BY <1>0, <2>3, <2>6, <2>7 DEF TypeInv, TypeOK, QueueType, process, file, watch
  <2> QED
    BY <1>0, <2>3, <2>5, <2>8 DEF TypeInv, QueueType, CallerType, file
<1>2. CASE NoRequest \/ AnswerSignals \/ Woken \/ PumpWake \/ PumpEmpty
  <2>1. /\ at' \in {"signals", "drain", "wait", "pump"} /\ signals' \subseteq signals
        /\ posted' \subseteq posted /\ busy' \in {busy, FALSE}
        /\ UNCHANGED <<hooks, bound, requests, call>>
    BY <1>2 DEF NoRequest, AnswerSignals, Woken, PumpWake, PumpEmpty, AfterPass, AfterWake
  <2>2. busy' \in BOOLEAN
    BY <2>1 DEF TypeInv, TypeOK
  <2>3. TypeOK'
    BY <1>0, <2>1, <2>2 DEF TypeInv, TypeOK, process, file, watch, hooks, bound
  <2> QED
    BY <1>0, <2>1, <2>3 DEF TypeInv, file, watch
<1> QED
  BY <1>1, <1>2 DEF Loop

LEMMA EndType ==
    TypeInv /\ (Quit \/ WaitFails \/ Undo \/ Returned \/ Exit \/ StartAgain) => TypeInv'
<1> SUFFICES ASSUME TypeInv, Quit \/ WaitFails \/ Undo \/ Returned \/ Exit \/ StartAgain
             PROVE  TypeInv'
  OBVIOUS
<1>0. /\ UNCHANGED <<env, bound, busy, call, file, watch>>
      /\ requests' \in {requests, <<>>}
  BY DEF Quit, WaitFails, EndsLoop, Undo, UndoMain, UndoHook, Returned, Exit, StartAgain
<1>1. /\ at' \in {"end", "returned", "prompt", "gone", at}
      /\ posted' \subseteq posted /\ signals' \subseteq signals
  BY DEF Quit, WaitFails, EndsLoop, Undo, UndoMain, UndoHook, Returned, Exit, StartAgain, thread
<1>2. /\ guards' \subseteq Guard /\ order' \in {order, DropOrder, NormalOrder}
      /\ hook' \in {hook, None} /\ installed' \subseteq installed /\ leftover' \subseteq Hooks
  BY HookNames
     DEF Quit, WaitFails, EndsLoop, Undo, UndoMain, UndoHook, Returned, Exit, StartAgain, Rest,
         Uninstall, Unhook, thread, hooks, TypeInv, TypeOK, Guard
<1>3. failed' \in BOOLEAN /\ instance' \in BOOLEAN /\ pipe' \in {pipe, "none"}
  <2>1. CASE Undo
    BY <2>1 DEF Undo, UndoMain, UndoHook, UninstallFails, TypeInv, TypeOK, process
  <2>2. CASE Quit \/ WaitFails \/ Returned \/ Exit \/ StartAgain
    BY <2>2 DEF Quit, WaitFails, EndsLoop, Returned, Exit, StartAgain, thread, process,
                TypeInv, TypeOK
  <2> QED  BY <2>1, <2>2
<1>4. QueueType'
  <2>1. CASE requests' = requests
    BY <1>0, <2>1 DEF QueueType, TypeInv, TypeOK, file
  <2>2. CASE requests' = <<>>
    <3>1. <<>> \in Seq(Requests) /\ Len(<<>>) = 0 /\ DOMAIN requests' = {}
      BY <2>2, EmptySeq
    <3> QED  BY <2>2, <3>1, DaemonAssumption DEF QueueType
  <2> QED  BY <1>0, <2>1, <2>2
<1> QED
  BY <1>0, <1>1, <1>2, <1>3, <1>4 DEF TypeInv, TypeOK, QueueType, bound, file, watch

LEMMA SystemType == TypeInv /\ System => TypeInv'
<1> SUFFICES ASSUME TypeInv, System PROVE TypeInv'
  OBVIOUS
<1>0. UNCHANGED <<env, bound, requests, busy, call, process, file, watch>>
  BY DEF System
<1>1. /\ at' \in {at, "pump"} /\ UNCHANGED <<guards, order, failed>>
      /\ hook' \in {hook, None} /\ installed' \subseteq installed /\ leftover' \subseteq Hooks
      /\ posted' \subseteq {"wake", "quit"} /\ signals' \subseteq {"left", "returned"}
  BY HookNames
     DEF System, Called, Removed, SessionSwitch, SessionEnd, CtrlC, Uninstall, Unhook, thread,
         hooks, TypeInv, TypeOK
<1> QED
  BY <1>0, <1>1 DEF TypeInv, TypeOK, bound, process, file, watch, Value

LEMMA FileType == TypeInv /\ File => TypeInv'
<1> SUFFICES ASSUME TypeInv, File PROVE TypeInv'
  OBVIOUS
<1>0. UNCHANGED <<env, thread, hooks, bound, requests, busy, posted, signals, call, process,
                  watcher>>
  BY DEF File, Save, Report
<1>1. /\ saves' \in 0 .. MaxSaves /\ saves <= saves' /\ disk' \in (0 .. saves') \cup {None}
      /\ saves \in Nat
      /\ unseen' \in BOOLEAN /\ overlooked' \in BOOLEAN /\ events' \in BOOLEAN
  <2>0. saves \in Nat /\ MaxSaves \in Nat /\ unseen \in BOOLEAN /\ events \in BOOLEAN
        /\ overlooked \in BOOLEAN
    BY DaemonAssumption DEF TypeInv, TypeOK
  <2>1. CASE Save
    <3>1. /\ saves < MaxSaves /\ saves' = saves + 1 /\ disk' \in {saves + 1, None}
          /\ UNCHANGED events
      BY <2>1 DEF Save
    <3>2. unseen' \in {TRUE, unseen} /\ overlooked' \in {TRUE, overlooked}
      BY <2>1 DEF Save
    <3>3. unseen' \in BOOLEAN /\ overlooked' \in BOOLEAN /\ events' \in BOOLEAN
      BY <2>0, <3>1, <3>2
    <3> QED  BY <2>0, <3>1, <3>3
  <2>2. CASE Report
    <3>1. unseen' = FALSE /\ events' \in BOOLEAN /\ UNCHANGED <<disk, saves, overlooked>>
      BY <2>2 DEF Report
    <3>2. unseen' \in BOOLEAN /\ overlooked' \in BOOLEAN
      BY <2>0, <3>1
    <3>3. /\ saves' \in 0 .. MaxSaves /\ saves <= saves' /\ disk' \in (0 .. saves') \cup {None}
      BY <2>0, <3>1 DEF TypeInv
    <3> QED  BY <2>0, <3>1, <3>2, <3>3
  <2> QED  BY <2>1, <2>2 DEF File
<1>2. \A i \in DOMAIN requests : requests[i].value \in Value(requests[i].kind, saves')
  BY <1>1 DEF TypeInv, Value
<1>3. disk' \in 0 .. MaxSaves \cup {None} /\ live \in 0 .. saves'
      /\ (watcher.at = "loaded" => watcher.list \in 0 .. saves')
  BY <1>1, DaemonAssumption DEF TypeInv, TypeOK
<1> QED
  BY <1>0, <1>1, <1>2, <1>3 DEF TypeInv, TypeOK, thread, hooks, bound, process

(* The other threads: what a caller asks, wakes the main thread for and hears.*)
Asked(a, n) == [at |-> a, n |-> n, replied |-> FALSE, carried |-> FALSE]

LEMMA AskType ==
    ASSUME TypeInv, NEW c \in Caller, NEW kind \in Kind, NEW value, value \in Value(kind, saves),
           Ask(c, kind, value), UNCHANGED saves
    PROVE  /\ QueueType' /\ call' \in [Caller -> CallState]
           /\ call'[c].at \in {"sent", "busy", "shutting down"}
           /\ ~call'[c].replied /\ ~call'[c].carried
           /\ call'[c].n = call[c].n + (IF c = Watcher THEN 0 ELSE 1)
           /\ \A d \in Caller \ {c} : call'[d] = call[d]
           /\ IF call'[c].at = "sent"
              THEN requests' = Append(requests, [from |-> c, kind |-> kind, value |-> value,
                                                 n |-> call'[c].n, heard |-> TRUE])
              ELSE requests' = requests
<1> DEFINE n == call[c].n + (IF c = Watcher THEN 0 ELSE 1)
           r == [from |-> c, kind |-> kind, value |-> value, n |-> n, heard |-> TRUE]
<1>1. n \in Nat
  <2>1. call[c].n \in Nat  BY DEF TypeInv, CallState
  <2> QED  BY <2>1
<1>2. PICK a :
         /\ a \in {"sent", "busy", "shutting down"}
         /\ call' = [call EXCEPT ![c] = Asked(a, n)]
         /\ IF a = "sent" THEN requests' = Append(requests, r) /\ Len(requests) < Capacity
            ELSE requests' = requests
  BY DEF Ask, Room, Asked
<1> HIDE DEF n
<1>3. /\ call' \in [Caller -> CallState] /\ call'[c] = Asked(a, n)
      /\ \A d \in Caller \ {c} : call'[d] = call[d]
  BY <1>1, <1>2 DEF TypeInv, CallState, Asked
<1>4. value \in BOOLEAN \cup Nat \cup {None}
  <2>1. saves \in Nat  BY DaemonAssumption DEF TypeInv
  <2>2. Value(kind, saves) \in {BOOLEAN, 0 .. saves, {None}}  BY DEF Value
  <2> QED  BY <2>1, <2>2
<1>5. r \in Requests /\ r.from = c /\ r.kind = kind /\ r.value = value
  BY <1>1, <1>4 DEF Requests
<1> HIDE DEF r
<1>6. QueueType'
  <2>1. CASE a = "sent"
    <3>1. /\ requests' \in Seq(Requests) /\ Len(requests') = Len(requests) + 1
          /\ DOMAIN requests = 1 .. Len(requests) /\ Len(requests) \in Nat
          /\ DOMAIN requests' = 1 .. Len(requests) + 1
          /\ \A i \in DOMAIN requests : requests'[i] = requests[i]
          /\ requests'[Len(requests) + 1] = r
      <4>1. requests' = Append(requests, r) /\ requests \in Seq(Requests)
        BY <1>2, <2>1 DEF TypeInv
      <4> QED  BY <1>5, <4>1, AppendToQueue
    <3>2. \A i \in DOMAIN requests' : i \in DOMAIN requests \/ requests'[i] = r
      <4>1. \A i \in 1 .. Len(requests) + 1 :
               i \in 1 .. Len(requests) \/ i = Len(requests) + 1
        BY <3>1
      <4> QED  BY <3>1, <4>1
    <3>3. /\ \A i \in DOMAIN requests' : requests'[i].value \in Value(requests'[i].kind, saves)
          /\ \A i \in DOMAIN requests' : requests'[i].from \in Caller
      BY <1>5, <3>1, <3>2 DEF TypeInv, TypeOK
    <3> QED
      BY <1>2, <2>1, <3>1, <3>3, DaemonAssumption DEF QueueType
  <2>2. CASE a # "sent"
    BY <1>2, <2>2 DEF QueueType, TypeInv, TypeOK
  <2> QED  BY <2>1, <2>2
<1> QED
  BY <1>2, <1>3, <1>6 DEF r, n, Asked

(* What a caller hears.                                                       *)
LEMMA HeardCall ==
    ASSUME call \in [Caller -> CallState], NEW c \in Caller,
           NEW a \in {"waiting", "ok", "no answer", "shutting down"}, Heard(c, a)
    PROVE  /\ call' \in [Caller -> CallState]
           /\ call'[c].at = a /\ call'[c].n = call[c].n
           /\ call'[c].replied = call[c].replied /\ call'[c].carried = call[c].carried
           /\ \A d \in Caller \ {c} : call'[d] = call[d]
<1>1. call' = [call EXCEPT ![c] = [call[c] EXCEPT !.at = a]]
  BY DEF Heard
<1>2. [call[c] EXCEPT !.at = a] \in CallState
  BY DEF CallState
<1> QED
  BY <1>1, <1>2 DEF CallState

LEMMA OthersType == TypeInv /\ Others => TypeInv'
<1> SUFFICES ASSUME TypeInv, Others PROVE TypeInv'
  OBVIOUS
<1>0. UNCHANGED <<env, thread, hooks, bound, busy, signals, process, file>>
  BY DEF Others
<1>1. ASSUME QueueType', CallerType', posted' \subseteq {"wake", "quit"}, events' \in BOOLEAN,
             overlooked' \in BOOLEAN
      PROVE  TypeInv'
  BY <1>0, <1>1 DEF TypeInv, TypeOK, QueueType, CallerType, thread, hooks, bound, process, file
<1>2. /\ QueueType /\ CallerType /\ posted \subseteq {"wake", "quit"} /\ events \in BOOLEAN
      /\ overlooked \in BOOLEAN
  BY DEF QueueType, CallerType, TypeInv, TypeOK
<1>3. ASSUME NEW c \in Caller, Wake(c) PROVE TypeInv'
  <2>1. /\ Heard(c, "waiting") /\ posted' \subseteq posted \cup {"wake"}
        /\ UNCHANGED <<requests, watch>>
    BY <1>3 DEF Wake
  <2>2. QueueType' /\ CallerType'
    BY <1>0, <1>2, <2>1, HeardCall DEF QueueType, CallerType, watch, file
  <2> QED  BY <1>1, <1>2, <2>1, <2>2 DEF watch
<1>4. ASSUME NEW c \in Caller, Answer(c) PROVE TypeInv'
  <2>1. /\ \E a \in {"ok", "shutting down", "no answer"} : Heard(c, a)
        /\ requests' \in {requests, Silenced(c)}
        /\ watcher' = IF c = Watcher THEN [watcher EXCEPT !.at = "idle"] ELSE watcher
        /\ UNCHANGED <<posted, events, overlooked>>
    BY <1>4 DEF Answer, Silenced, GaveUp
  <2>2. QueueType'
    <3>1. CASE requests' = requests
      BY <1>0, <1>2, <3>1 DEF QueueType, file
    <3>2. CASE requests' = Silenced(c)
      BY <1>0, <1>2, <3>2, SilencedQueue DEF QueueType, file
    <3> QED  BY <2>1, <3>1, <3>2
  <2>3. CallerType'
    <3>1. call' \in [Caller -> CallState]
      BY <1>2, <2>1, HeardCall DEF CallerType
    <3>2. CASE c = Watcher
      BY <1>2, <2>1, <3>1, <3>2 DEF CallerType
    <3>3. CASE c # Watcher
      BY <1>0, <1>2, <2>1, <3>1, <3>3 DEF CallerType, file
    <3> QED  BY <3>2, <3>3
  <2> QED  BY <1>1, <1>2, <2>1, <2>2, <2>3
<1>5. ASSUME NEW c \in Client, Switch(c) PROVE TypeInv'
  <2>1. PICK value \in BOOLEAN : Ask(c, "switch", value)
    BY <1>5 DEF Switch
  <2>2. UNCHANGED <<posted, watch>>
    BY <1>5 DEF Switch
  <2>3. c \in Caller /\ "switch" \in Kind /\ value \in Value("switch", saves)
    BY DEF Caller, Kind, Value
  <2>4. QueueType' /\ call' \in [Caller -> CallState]
    BY <1>0, <2>1, <2>3, AskType DEF file
  <2> QED  BY <1>0, <1>1, <1>2, <2>2, <2>4 DEF CallerType, watch, file
<1>6. ASSUME NEW c \in Client, AskExit(c) PROVE TypeInv'
  BY <1>0, <1>1, <1>2, <1>6 DEF AskExit, QueueType, CallerType, watch, file
<1>7. CASE AskReinstall
  <2>1. Ask(Watchdog, "reinstall", None) /\ UNCHANGED <<posted, watch>>
    BY <1>7 DEF AskReinstall
  <2>2. Watchdog \in Caller /\ "reinstall" \in Kind /\ None \in Value("reinstall", saves)
    BY DEF Caller, Kind, Value
  <2>3. QueueType' /\ call' \in [Caller -> CallState]
    BY <1>0, <2>1, <2>2, AskType DEF file
  <2> QED  BY <1>0, <1>1, <1>2, <2>1, <2>3 DEF CallerType, watch, file
<1>8. CASE FirstEvent \/ Load \/ NextEvent
  <2>1. UNCHANGED <<posted, requests, call, overlooked>> /\ events' \in {events, FALSE}
    BY <1>8 DEF FirstEvent, Load, NextEvent
  <2>2. CallerType'
    <3>1. CASE FirstEvent
      BY <1>0, <1>2, <2>1, <3>1 DEF FirstEvent, CallerType, file
    <3>2. CASE NextEvent
      BY <1>0, <1>2, <2>1, <3>2 DEF NextEvent, CallerType, file
    <3>3. CASE Load
      <4>1. CASE disk = None
        BY <1>0, <1>2, <2>1, <3>3, <4>1 DEF Load, CallerType, file
      <4>2. CASE disk # None
        <5>1. disk \in 0 .. saves /\ disk \in Nat
          BY <4>2, DaemonAssumption DEF TypeInv
        <5> QED
          BY <1>0, <1>2, <2>1, <3>3, <4>2, <5>1 DEF Load, CallerType, file
      <4> QED  BY <4>1, <4>2
    <3> QED  BY <1>8, <3>1, <3>2, <3>3
  <2>3. events' \in BOOLEAN
    BY <1>2, <2>1
  <2> QED  BY <1>0, <1>1, <1>2, <2>1, <2>2, <2>3 DEF QueueType, file
<1>9. CASE AskReload
  <2>1. /\ Ask(Watcher, "reload", watcher.list) /\ watcher.at = "loaded"
        /\ watcher' = [watcher EXCEPT !.at = IF call'[Watcher].at = "sent" THEN "waiting"
                                             ELSE "idle"]
        /\ overlooked' = ~(call'[Watcher].at = "sent")
        /\ UNCHANGED <<events, posted>>
    BY <1>9 DEF AskReload, EventsKept
  <2>2. /\ Watcher \in Caller /\ "reload" \in Kind
        /\ watcher.list \in Value("reload", saves)
    BY <2>1 DEF Caller, Kind, Value, TypeInv
  <2>3. QueueType' /\ call' \in [Caller -> CallState]
    BY <1>0, <2>1, <2>2, AskType DEF file
  <2>4. CallerType'
    BY <1>0, <1>2, <2>1, <2>3 DEF CallerType, file
  <2> QED  BY <1>1, <1>2, <2>1, <2>3, <2>4
<1> QED
  BY <1>3, <1>4, <1>5, <1>6, <1>7, <1>8, <1>9 DEF Others

LEMMA StepType == TypeInv /\ [Next]_vars => TypeInv'
<1>1. TypeInv /\ Next => TypeInv'
  BY StartType, LoopType, EndType, SystemType, OthersType, FileType DEF Next, MainThread
<1>2. TypeInv /\ UNCHANGED vars => TypeInv'
  BY DEF vars, thread, hooks, bound, process, file, watch, TypeInv, TypeOK
<1> QED
  BY <1>1, <1>2

LEMMA Types == Spec => []TypeInv
BY InitType, StepType, PTL DEF Spec
-----------------------------------------------------------------------------
(* Windows has no hook of the daemon but the one it can remove, and what it   *)
(* left of others: none before the installation, none once the hook's guard   *)
(* was undone, and that one comes before the threads it would wait for.  The  *)
(* instance is released only after all that.                                  *)
Starting == {"bind", "executor", "main", "watchdog", "window", "install"}
Over     == {"returned", "prompt", "gone"}
HooksInv ==
    /\ installed \subseteq {hook} \cup leftover
    /\ at \in Starting \cup Over => installed \subseteq leftover
    /\ at = "end" /\ ~(installed \subseteq leftover) => order = NormalOrder /\ "hook" \in guards
    /\ ~instance => at \in Over
    /\ second = "runs" => ~instance

(* The threads' turn comes after the hook's.                                  *)
LEMMA HookFirst ==
    ASSUME HooksInv, Turn("watchdog") \/ Turn("executor")
    PROVE  installed \subseteq leftover
<1> SUFFICES ASSUME order = NormalOrder, "hook" \in guards PROVE FALSE
  BY DEF HooksInv, Turn
<1>1. PICK g : g \in {"watchdog", "executor"} /\ Turn(g)
  OBVIOUS
<1>2. PICK i \in DOMAIN NormalOrder :
         NormalOrder[i] = g /\ \A j \in 1 .. i - 1 : NormalOrder[j] \notin guards
  BY <1>1 DEF Turn
<1>3. NormalOrder[2] = "hook" /\ i \in {1, 2, 3, 4, 5, 6}
      /\ NormalOrder[1] = "main"
  BY <1>2 DEF NormalOrder
<1>4. i # 1 /\ i # 2
  BY <1>1, <1>2, <1>3
<1>5. 2 \in 1 .. i - 1
  BY <1>3, <1>4
<1> QED
  BY <1>2, <1>3, <1>5

(* A hook that the daemon asked to remove goes, or is left over.              *)
LEMMA UnhookLeaves ==
    ASSUME HooksInv, Uninstall
    PROVE  installed' \subseteq leftover' /\ hook' = None
BY DEF HooksInv, Uninstall, Unhook

LEMMA StepHooks == TypeInv /\ HooksInv /\ [Next]_vars => HooksInv'
<1> SUFFICES ASSUME TypeInv, HooksInv, [Next]_vars PROVE HooksInv'
  OBVIOUS
<1>0. /\ installed \subseteq Hooks /\ hook \in Hooks \cup {None} /\ None \notin Hooks
      /\ None # "runs"
  BY HookNames DEF TypeInv, TypeOK
<1>1. CASE Start
  <2>1. UNCHANGED <<instance, second>>
    BY <1>1 DEF Start
  <2>2. at \in Starting \cup {"serve", "watcher"}
    BY <1>1 DEF Start, Bind, StartExecutor, StartMain, StartWatchdog, StartWindow, StartWatcher,
                Install, Serve, StartGuard, StartOptional, Starting
  <2>3. instance
    BY <2>2 DEF HooksInv, Over, Starting
  <2>4. CASE Bind \/ StartExecutor \/ StartMain \/ StartWatchdog \/ StartWindow
    BY <2>1, <2>3, <2>4
       DEF Bind, StartExecutor, StartMain, StartWatchdog, StartWindow, StartGuard,
           StartOptional, Return, Goes, HooksInv, Starting, Over, hooks
  <2>5. CASE Install
    BY <2>1, <2>3, <2>5 DEF Install, Return, Goes, HooksInv, Starting, Over, hooks
  <2>6. CASE Serve
    BY <2>1, <2>3, <2>6, UnhookLeaves DEF Serve, Return, Goes, HooksInv, Starting, Over, hooks
  <2>7. CASE StartWatcher
    BY <2>1, <2>3, <2>7 DEF StartWatcher, StartOptional, HooksInv, Starting, Over, hooks
  <2> QED
    BY <1>1, <2>4, <2>5, <2>6, <2>7 DEF Start
<1>2. CASE Loop
  <2>1. UNCHANGED <<guards, order, instance, second>>
    BY <1>2 DEF Loop, process
  <2>2. /\ at \in {"drain", "signals", "wait", "pump"}
        /\ at' \in {"drain", "signals", "wait", "pump"}
    BY <1>2 DEF Loop, ServeRequest, NoRequest, AnswerSignals, Woken, PumpWake, PumpEmpty,
                AfterPass, AfterWake
  <2>3. UNCHANGED hooks \/ \E new \in Hooks \ (installed \cup {hook}) : Replaced(new)
    BY <1>2 DEF Loop, ServeRequest, NoRequest, AnswerSignals, Woken, PumpWake, PumpEmpty,
                Reinstall, hooks
  <2>4. installed' \subseteq {hook'} \cup leftover'
    BY <1>0, <2>3 DEF Replaced, Unhook, HooksInv, hooks
  <2> QED
    BY <2>1, <2>2, <2>4 DEF HooksInv, Starting, Over
<1>3. CASE Quit \/ WaitFails
  BY <1>3 DEF Quit, WaitFails, EndsLoop, HooksInv, Starting, Over, hooks, process
<1>4. CASE Undo
  <2>1. PICK g \in guards :
           /\ Turn(g) /\ guards' = guards \ {g} /\ Rest(g)
           /\ IF g = "hook" THEN UndoHook ELSE UNCHANGED hooks
    <3>1. PICK g \in guards :
             /\ Turn(g) /\ guards' = guards \ {g} /\ Rest(g)
             /\ CASE g = "main" -> UndoMain
                  [] g = "hook" -> UndoHook
                  [] g \in {"watchdog", "executor"} ->
                       StopsWaiting /\ UNCHANGED <<requests, signals, hooks, failed>>
                  [] OTHER -> UNCHANGED <<requests, signals, hooks, failed>>
      BY <1>4 DEF Undo
    <3> QED  BY <3>1 DEF UndoMain
  <2>2. at = "end" /\ UNCHANGED <<at, instance, second>>
    BY <1>4, <2>1 DEF Undo, Turn, process
  <2>3. CASE g = "hook"
    <3>1. installed' \subseteq leftover' /\ hook' = None
      BY <2>1, <2>3, UnhookLeaves DEF UndoHook
    <3> QED  BY <2>2, <3>1 DEF HooksInv, Starting, Over
  <2>4. CASE g # "hook"
    BY <2>1, <2>2, <2>4 DEF HooksInv, Rest, hooks, Starting, Over
  <2> QED  BY <2>3, <2>4
<1>5. CASE Returned \/ Exit
  <2>1. /\ installed \subseteq leftover /\ at' \in Over /\ UNCHANGED <<hooks, second>>
        /\ instance' \in {instance, FALSE}
    BY <1>5 DEF Returned, Exit, HooksInv, Over
  <2>2. second = "runs" => ~instance'
    BY <2>1 DEF HooksInv
  <2> QED  BY <2>1, <2>2 DEF HooksInv, Over, hooks, Starting
<1>6. CASE System
  <2>1. UNCHANGED <<guards, order, instance, second>> /\ (at' = at \/ (at = "wait" /\ at' = "pump"))
    BY <1>6 DEF System, Called, Removed, SessionSwitch, SessionEnd, CtrlC, thread, process
  <2>2. \/ UNCHANGED hooks
        \/ installed' \subseteq leftover'
        \/ \E h : installed' = installed \ {h} /\ leftover' = leftover \ {h} /\ hook' = hook
    BY <1>6, UnhookLeaves
       DEF System, Called, Removed, SessionSwitch, SessionEnd, CtrlC, hooks
  <2> QED
    BY <2>1, <2>2 DEF HooksInv, Starting, Over, hooks
<1>7. CASE StartAgain
  BY <1>0, <1>7 DEF StartAgain, HooksInv, thread, hooks
<1>8. CASE Others \/ File \/ UNCHANGED vars
  BY <1>8 DEF Others, File, vars, HooksInv, thread, hooks, process
<1> QED
  BY <1>1, <1>2, <1>3, <1>4, <1>5, <1>6, <1>7, <1>8 DEF Next, MainThread

LEMMA HooksKept == Spec => [](TypeInv /\ HooksInv)
<1>1. Init => HooksInv
  BY DaemonAssumption DEF Init, HooksInv, Starting, Over
<1> QED
  BY <1>1, InitType, StepType, StepHooks, PTL DEF Spec
-----------------------------------------------------------------------------
(* A request in the queue, from the moment the drain found none, has its wake *)
(* among the messages or its caller about to post it: only the pump takes a   *)
(* wake, and goes back to the drain with it.  A caller asks once at a time.   *)
Wakes == "wake" \in posted \/ \E c \in Caller : call[c].at = "sent"
WakeInv ==
    /\ at = "wait" => signals = {}
    /\ at \in {"signals", "wait", "pump"} /\ requests # <<>> /\ "lost" \notin env => Wakes
    /\ watcher.at # "waiting" => ~Calls(Watcher)

LEMMA StepWake == TypeInv /\ WakeInv /\ [Next]_vars => WakeInv'
<1> SUFFICES ASSUME TypeInv, WakeInv, [Next]_vars PROVE WakeInv'
  OBVIOUS
<1>0. /\ call \in [Caller -> CallState] /\ Watcher \in Caller /\ requests \in Seq(Requests)
  BY DEF TypeInv, Caller
<1>1. CASE Start
  <2>1. /\ at' \notin {"signals", "wait", "pump"} /\ UNCHANGED <<call, watcher>>
    BY <1>1 DEF Start, Bind, StartExecutor, StartMain, StartWatchdog, StartWindow, StartWatcher,
                Install, Serve, StartGuard, StartOptional, Return, Goes, watch
  <2> QED  BY <2>1 DEF WakeInv, Calls
<1>2. CASE ServeRequest /\ Loop
  <2>1. at = "drain" /\ at' = at /\ UNCHANGED watcher /\ Carried(Head(requests))
    BY <1>2 DEF ServeRequest, Loop, watch
  <2>2. requests # <<>> /\ Head(requests).from \in Caller
    <3>1. requests # <<>>  BY <1>2 DEF ServeRequest
    <3>2. Head(requests) \in Requests  BY <1>0, <3>1, TailOfQueue
    <3> QED  BY <3>1, <3>2 DEF Requests
  <2>3. \A c \in Caller : call'[c].at = call[c].at
    BY <1>0, <2>1, <2>2, CarriedCall
  <2> QED  BY <1>0, <2>1, <2>3 DEF WakeInv, Calls
<1>3. CASE Loop /\ ~ServeRequest
  <2>1. UNCHANGED <<env, requests, call, watcher>>
    BY <1>3 DEF Loop, NoRequest, AnswerSignals, Woken, PumpWake, PumpEmpty, watch
  <2>2. /\ at' = "wait" => signals' = {}
        /\ at' \in {"signals", "wait", "pump"} =>
              \/ requests = <<>>
              \/ at \in {"signals", "wait"} /\ UNCHANGED posted
    BY <1>3 DEF Loop, NoRequest, AnswerSignals, Woken, PumpWake, PumpEmpty, AfterPass, AfterWake
  <2> QED  BY <2>1, <2>2 DEF WakeInv, Wakes, Calls
<1>4. CASE Quit \/ WaitFails \/ Undo \/ Returned \/ Exit
  <2>1. /\ at' \notin {"signals", "wait", "pump"} /\ UNCHANGED <<call, watcher>>
    BY <1>4 DEF Quit, WaitFails, EndsLoop, Undo, Turn, Returned, Exit, watch
  <2> QED  BY <2>1 DEF WakeInv, Calls
<1>5. CASE System
  <2>1. /\ UNCHANGED <<env, requests, call, watcher>> /\ posted \subseteq posted'
        /\ at' = at \/ (at = "wait" /\ at' = "pump")
    BY <1>5 DEF System, Called, Removed, SessionSwitch, SessionEnd, CtrlC, watch, thread
  <2>2. at' = "wait" => signals' = {}
    BY <1>5 DEF System, Called, Removed, SessionSwitch, SessionEnd, CtrlC, thread, Dispatches,
                WakeInv
  <2> QED  BY <2>1, <2>2 DEF WakeInv, Wakes, Calls
<1>6. CASE Others
  <2>0. UNCHANGED <<env, at, signals>>
    BY <1>6 DEF Others, thread
  <2>1. ASSUME NEW c \in Caller, Wake(c) PROVE WakeInv'
    <3>1. /\ call[c].at = "sent" /\ Heard(c, "waiting") /\ UNCHANGED <<requests, watcher>>
          /\ "wake" \in posted' \/ "lost" \in env
      BY <2>1 DEF Wake, watch
    <3>2. /\ \A d \in Caller \ {c} : call'[d] = call[d]
          /\ call'[c].at = "waiting"
      BY <1>0, <3>1, HeardCall
    <3> QED  BY <1>0, <2>0, <3>1, <3>2 DEF WakeInv, Wakes, Calls
  <2>2. ASSUME NEW c \in Caller, Answer(c) PROVE WakeInv'
    <3>1. /\ call[c].at = "waiting" /\ \E a \in {"ok", "shutting down", "no answer"} : Heard(c, a)
          /\ requests' \in {requests, Silenced(c)} /\ UNCHANGED posted
          /\ watcher' = IF c = Watcher THEN [watcher EXCEPT !.at = "idle"] ELSE watcher
      BY <2>2 DEF Answer, Silenced, GaveUp
    <3>2. /\ \A d \in Caller \ {c} : call'[d] = call[d]
          /\ call'[c].at \in {"ok", "shutting down", "no answer"}
      BY <1>0, <3>1, HeardCall
    <3>3. requests' # <<>> => requests # <<>>
      BY <1>0, <3>1, SilencedQueue
    <3>4. Wakes => Wakes'
      BY <3>1, <3>2 DEF Wakes
    <3>5. watcher' = watcher \/ c = Watcher
      BY <3>1
    <3> QED  BY <1>0, <2>0, <3>2, <3>3, <3>4, <3>5 DEF WakeInv, Calls
  <2>3. ASSUME NEW c \in Caller, NEW kind \in Kind, NEW value, value \in Value(kind, saves),
               Ask(c, kind, value), ~Calls(c), UNCHANGED posted,
               IF c = Watcher
               THEN watcher'.at = IF call'[c].at = "sent" THEN "waiting" ELSE "idle"
               ELSE watcher' = watcher
        PROVE  WakeInv'
    <3>1. UNCHANGED saves
      BY <1>6 DEF Others, file
    <3>2. /\ \A d \in Caller \ {c} : call'[d] = call[d]
          /\ call'[c].at \in {"sent", "busy", "shutting down"}
          /\ call'[c].at = "sent" \/ requests' = requests
      BY <2>3, <3>1, AskType
    <3>3. requests # <<>> /\ Wakes => Wakes'
      BY <2>3, <3>2 DEF Wakes, Calls
    <3>4. requests' # requests => Wakes'
      BY <3>2 DEF Wakes
    <3> QED  BY <1>0, <2>0, <2>3, <3>2, <3>3, <3>4 DEF WakeInv, Calls
  <2>4. ASSUME NEW c \in Client, Switch(c) PROVE WakeInv'
    <3>1. PICK value \in BOOLEAN : Ask(c, "switch", value)
      BY <2>4 DEF Switch
    <3>2. ~Calls(c) /\ UNCHANGED <<posted, watcher>> /\ c # Watcher
      BY <2>4, DaemonAssumption DEF Switch, watch
    <3>3. c \in Caller /\ "switch" \in Kind /\ value \in Value("switch", saves)
      BY DEF Caller, Kind, Value
    <3> QED  BY <2>3, <3>1, <3>2, <3>3
  <2>5. ASSUME NEW c \in Client, AskExit(c) PROVE WakeInv'
    BY <2>0, <2>5 DEF AskExit, WakeInv, Wakes, Calls, watch
  <2>6. CASE AskReinstall
    <3>1. /\ Ask(Watchdog, "reinstall", None) /\ ~Calls(Watchdog) /\ UNCHANGED <<posted, watcher>>
          /\ Watchdog # Watcher
      BY <2>6 DEF AskReinstall, watch, Watchdog, Watcher
    <3>2. Watchdog \in Caller /\ "reinstall" \in Kind /\ None \in Value("reinstall", saves)
      BY DEF Caller, Kind, Value
    <3> QED  BY <2>3, <3>1, <3>2
  <2>7. CASE FirstEvent \/ Load \/ NextEvent
    <3>1. UNCHANGED <<requests, call, posted>>
      BY <2>7 DEF FirstEvent, Load, NextEvent
    <3>2. watcher.at # "waiting"
      BY <2>7 DEF FirstEvent, Load, NextEvent
    <3> QED  BY <2>0, <3>1, <3>2 DEF WakeInv, Wakes, Calls
  <2>8. CASE AskReload
    <3>1. /\ Ask(Watcher, "reload", watcher.list) /\ watcher.at = "loaded" /\ UNCHANGED posted
          /\ watcher'.at = IF call'[Watcher].at = "sent" THEN "waiting" ELSE "idle"
      BY <2>8 DEF AskReload, TypeInv
    <3>2. "reload" \in Kind /\ watcher.list \in Value("reload", saves) /\ ~Calls(Watcher)
      BY <3>1 DEF Kind, Value, TypeInv, WakeInv
    <3> QED  BY <1>0, <2>3, <3>1, <3>2
  <2> QED
    BY <1>6, <2>1, <2>2, <2>4, <2>5, <2>6, <2>7, <2>8 DEF Others
<1>7. CASE StartAgain \/ File \/ UNCHANGED vars
  BY <1>7 DEF StartAgain, File, Save, Report, vars, WakeInv, Wakes, Calls, thread, watch
<1> QED
  BY <1>1, <1>2, <1>3, <1>4, <1>5, <1>6, <1>7 DEF Next, MainThread

LEMMA WakesHold == Spec => [](TypeInv /\ WakeInv)
<1>1. Init => WakeInv
  BY DEF Init, WakeInv, Calls, Caller
<1> QED
  BY <1>1, InitType, StepType, StepWake, PTL DEF Spec
-----------------------------------------------------------------------------
(* A client's requests are numbered; the one it waits for is the latest, is   *)
(* in the queue at most once, and is heard as long as the client waits.       *)
Own(c, i) == requests[i].from = c /\ requests[i].n = call[c].n
ClientInv(c) ==
    /\ \A i \in DOMAIN requests : requests[i].from = c => requests[i].n <= call[c].n
    /\ \A i \in DOMAIN requests :
          requests[i].from = c /\ requests[i].heard => Own(c, i) /\ Calls(c) /\ ~call[c].replied
    /\ \A i \in DOMAIN requests : Own(c, i) /\ Calls(c) => requests[i].heard
    /\ \A i, j \in DOMAIN requests : Own(c, i) /\ Own(c, j) => i = j
    /\ call[c].replied => call[c].carried
    /\ Calls(c) /\ call[c].carried => call[c].replied
    /\ call[c].at = "ok" => call[c].carried
    /\ call[c].at \in {"busy", "shutting down"} =>
          ~call[c].carried /\ \A i \in DOMAIN requests : ~Own(c, i)
AnswersInv == \A c \in Client : ClientInv(c)

(* What changes neither the queue nor what a client heard.                    *)
LEMMA ClientFrame ==
    ASSUME NEW c \in Client, ClientInv(c), requests' = requests, call'[c] = call[c]
    PROVE  ClientInv(c)'
<1>1. /\ Calls(c)' <=> Calls(c)
      /\ \A i \in DOMAIN requests : Own(c, i)' <=> Own(c, i)
  BY DEF Own, Calls
<1>2. /\ \A i \in DOMAIN requests' : requests'[i].from = c => requests'[i].n <= call'[c].n
      /\ \A i \in DOMAIN requests' :
            requests'[i].from = c /\ requests'[i].heard =>
               Own(c, i)' /\ Calls(c)' /\ ~call'[c].replied
      /\ \A i \in DOMAIN requests' : Own(c, i)' /\ Calls(c)' => requests'[i].heard
  BY <1>1 DEF ClientInv
<1>3. /\ \A i, j \in DOMAIN requests' : Own(c, i)' /\ Own(c, j)' => i = j
      /\ call'[c].at \in {"busy", "shutting down"} =>
            ~call'[c].carried /\ \A i \in DOMAIN requests' : ~Own(c, i)'
  BY <1>1 DEF ClientInv
<1>4. /\ call'[c].replied => call'[c].carried
      /\ Calls(c)' /\ call'[c].carried => call'[c].replied
      /\ call'[c].at = "ok" => call'[c].carried
  BY <1>1 DEF ClientInv
<1> QED
  BY <1>2, <1>3, <1>4 DEF ClientInv

LEMMA ServeAnswers ==
    ASSUME TypeInv, NEW c \in Client, ClientInv(c), ServeRequest
    PROVE  ClientInv(c)'
<1> DEFINE r == Head(requests)
<1>1. /\ requests # <<>> /\ requests' = Tail(requests) /\ Carried(r)
  BY DEF ServeRequest
<1>2. /\ requests \in Seq(Requests) /\ call \in [Caller -> CallState] /\ c \in Caller
  BY DEF TypeInv, Caller
<1>3. /\ DOMAIN requests = 1 .. Len(requests) /\ Len(requests) \in Nat \ {0}
      /\ DOMAIN requests' = 1 .. Len(requests) - 1
      /\ r = requests[1] /\ 1 \in DOMAIN requests /\ r \in Requests
      /\ \A i \in DOMAIN requests' : i + 1 \in DOMAIN requests /\ requests'[i] = requests[i + 1]
      /\ \A i \in DOMAIN requests' : i + 1 # 1
  BY <1>1, <1>2, TailOfQueue
<1>4. r.from \in Caller
  BY <1>3 DEF Requests
<1> HIDE DEF r
<1>5. /\ call'[c].at = call[c].at /\ call'[c].n = call[c].n
      /\ r.from # c => call'[c] = call[c]
      /\ r.from = c => /\ call'[c].replied = (call[c].replied \/ r.heard)
                       /\ call'[c].carried = (call[c].carried \/ call[c].n = r.n)
  BY <1>1, <1>2, <1>4, CarriedCall
<1>6. \A i \in DOMAIN requests' : Own(c, i)' = Own(c, i + 1)
  BY <1>3, <1>5 DEF Own
<1>7. Calls(c)' = Calls(c)
  BY <1>5 DEF Calls
<1>8. /\ \A i \in DOMAIN requests' : requests'[i].from = c => requests'[i].n <= call'[c].n
      /\ \A i \in DOMAIN requests' : Own(c, i)' /\ Calls(c)' => requests'[i].heard
  BY <1>3, <1>5, <1>6, <1>7 DEF ClientInv
<1>9. \A i, j \in DOMAIN requests' : Own(c, i)' /\ Own(c, j)' => i = j
  <2> SUFFICES ASSUME NEW i \in DOMAIN requests', NEW j \in DOMAIN requests', Own(c, i)', Own(c, j)'
               PROVE  i = j
    OBVIOUS
  <2>1. i + 1 = j + 1
    BY <1>3, <1>6 DEF ClientInv
  <2> QED  BY <1>3, <2>1
<1>10. CASE r.from # c
  <2>1. \A i \in DOMAIN requests' :
           requests'[i].from = c /\ requests'[i].heard =>
              Own(c, i)' /\ Calls(c)' /\ ~call'[c].replied
    BY <1>3, <1>5, <1>6, <1>7, <1>10 DEF ClientInv
  <2>2. /\ call'[c].replied => call'[c].carried
        /\ Calls(c)' /\ call'[c].carried => call'[c].replied
        /\ call'[c].at = "ok" => call'[c].carried
        /\ call'[c].at \in {"busy", "shutting down"} =>
              ~call'[c].carried /\ \A i \in DOMAIN requests' : ~Own(c, i)'
    BY <1>3, <1>5, <1>6, <1>7, <1>10 DEF ClientInv
  <2> QED  BY <1>8, <1>9, <2>1, <2>2 DEF ClientInv
<1>11. CASE r.from = c
  <2>1. r.heard => Own(c, 1) /\ call[c].n = r.n /\ Calls(c)
    BY <1>3, <1>11 DEF ClientInv, Own
  <2>2. call[c].n = r.n /\ Calls(c) => r.heard
    BY <1>3, <1>11 DEF ClientInv, Own
  <2>3. ASSUME NEW i \in DOMAIN requests', requests'[i].from = c, requests'[i].heard
        PROVE  Own(c, i)' /\ Calls(c)' /\ ~call'[c].replied
    <3>1. Own(c, i + 1) /\ Calls(c) /\ ~call[c].replied
      BY <1>3, <2>3 DEF ClientInv
    <3>2. ~r.heard
      BY <1>3, <2>1, <3>1 DEF ClientInv
    <3> QED  BY <1>5, <1>6, <1>7, <1>11, <3>1, <3>2
  <2>4. /\ call'[c].replied => call'[c].carried
        /\ Calls(c)' /\ call'[c].carried => call'[c].replied
        /\ call'[c].at = "ok" => call'[c].carried
    BY <1>5, <1>7, <1>11, <2>1, <2>2 DEF ClientInv
  <2>5. ASSUME call'[c].at \in {"busy", "shutting down"}
        PROVE  ~call'[c].carried /\ \A i \in DOMAIN requests' : ~Own(c, i)'
    <3>1. ~call[c].carried /\ \A i \in DOMAIN requests : ~Own(c, i)
      BY <1>5, <2>5 DEF ClientInv
    <3>2. call[c].n # r.n
      BY <1>3, <1>11, <3>1 DEF Own
    <3> QED  BY <1>3, <1>5, <1>6, <1>11, <3>1, <3>2
  <2> QED  BY <1>8, <1>9, <2>3, <2>4, <2>5 DEF ClientInv
<1> QED
  BY <1>10, <1>11

LEMMA AskAnswers ==
    ASSUME TypeInv, NEW c \in Client, ClientInv(c), NEW d \in Caller, NEW kind \in Kind, NEW value,
           value \in Value(kind, saves), Ask(d, kind, value), UNCHANGED saves, ~Calls(d)
    PROVE  ClientInv(c)'
<1> DEFINE r == [from |-> d, kind |-> kind, value |-> value, n |-> call'[d].n, heard |-> TRUE]
<1>0. /\ call \in [Caller -> CallState] /\ c \in Caller /\ requests \in Seq(Requests)
      /\ c # Watcher /\ call[c].n \in Nat
  BY DaemonAssumption DEF TypeInv, Caller, CallState
<1>1. /\ call' \in [Caller -> CallState] /\ call'[d].at \in {"sent", "busy", "shutting down"}
      /\ ~call'[d].replied /\ ~call'[d].carried
      /\ call'[d].n = call[d].n + (IF d = Watcher THEN 0 ELSE 1)
      /\ \A e \in Caller \ {d} : call'[e] = call[e]
      /\ IF call'[d].at = "sent" THEN requests' = Append(requests, r)
         ELSE requests' = requests
  BY AskType
<1>2. r.from = d /\ r.heard = TRUE /\ r.n = call'[d].n
  OBVIOUS
<1>3. value \in BOOLEAN \cup Nat \cup {None}
  <2>1. saves \in Nat  BY DaemonAssumption DEF TypeInv
  <2>2. Value(kind, saves) \in {BOOLEAN, 0 .. saves, {None}}  BY DEF Value
  <2> QED  BY <2>1, <2>2
<1>4. call'[d].n \in Nat
  BY <1>1 DEF CallState
<1>5. r \in Requests
  BY <1>3, <1>4 DEF Requests
<1> HIDE DEF r
<1>6. /\ DOMAIN requests = 1 .. Len(requests) /\ Len(requests) \in Nat
      /\ \/ requests' = requests
         \/ /\ call'[d].at = "sent"
            /\ DOMAIN requests' = 1 .. Len(requests) + 1
            /\ \A i \in DOMAIN requests : requests'[i] = requests[i]
            /\ requests'[Len(requests) + 1] = r
  <2>1. /\ DOMAIN requests = 1 .. Len(requests) /\ Len(requests) \in Nat
    BY <1>0, LenProperties
  <2>2. CASE call'[d].at = "sent"
    <3>1. requests' = Append(requests, r)
      BY <1>1, <2>2
    <3>2. /\ DOMAIN requests' = 1 .. Len(requests) + 1
          /\ \A i \in DOMAIN requests : requests'[i] = requests[i]
          /\ requests'[Len(requests) + 1] = r
      BY <1>0, <1>5, <3>1, AppendToQueue
    <3> QED  BY <2>1, <2>2, <3>2
  <2>3. CASE call'[d].at # "sent"
    BY <1>1, <2>1, <2>3
  <2> QED  BY <2>2, <2>3
<1>7. \A i \in DOMAIN requests' : (i \in DOMAIN requests /\ requests'[i] = requests[i])
                                  \/ (i = Len(requests) + 1 /\ requests'[i] = r
                                      /\ call'[d].at = "sent")
  BY <1>6
<1>8. CASE c # d
  <2>1. call'[c] = call[c]
    BY <1>0, <1>1, <1>8
  <2>2. \A i \in DOMAIN requests' :
           requests'[i].from = c => i \in DOMAIN requests /\ requests'[i] = requests[i]
    BY <1>2, <1>7, <1>8
  <2>3. Calls(c)' <=> Calls(c)
    BY <2>1 DEF Calls
  <2>4. \A i \in DOMAIN requests' :
           (requests'[i].from = c => i \in DOMAIN requests /\ (Own(c, i)' <=> Own(c, i)))
           /\ (Own(c, i)' => requests'[i].from = c)
    BY <2>1, <2>2 DEF Own
  <2>5. /\ \A i \in DOMAIN requests' : requests'[i].from = c => requests'[i].n <= call'[c].n
        /\ \A i \in DOMAIN requests' :
              requests'[i].from = c /\ requests'[i].heard =>
                 Own(c, i)' /\ Calls(c)' /\ ~call'[c].replied
        /\ \A i \in DOMAIN requests' : Own(c, i)' /\ Calls(c)' => requests'[i].heard
    BY <2>1, <2>2, <2>3, <2>4 DEF ClientInv
  <2>6. \A i, j \in DOMAIN requests' : Own(c, i)' /\ Own(c, j)' => i = j
    BY <2>4 DEF ClientInv
  <2>7. /\ call'[c].replied => call'[c].carried
        /\ Calls(c)' /\ call'[c].carried => call'[c].replied
        /\ call'[c].at = "ok" => call'[c].carried
    BY <2>1, <2>3 DEF ClientInv
  <2>8. call'[c].at \in {"busy", "shutting down"} =>
           ~call'[c].carried /\ \A i \in DOMAIN requests' : ~Own(c, i)'
    BY <2>1, <2>4 DEF ClientInv
  <2> QED  BY <2>5, <2>6, <2>7, <2>8 DEF ClientInv
<1>9. CASE c = d
  <2>1. call'[c].n = call[c].n + 1
    BY <1>0, <1>1, <1>9
  <2>2. \A i \in DOMAIN requests : /\ requests[i].from = c => requests[i].n <= call[c].n
                                   /\ requests[i].from = c => ~requests[i].heard
                                   /\ requests[i].n \in Nat
    <3>1. \A i \in DOMAIN requests : requests[i] \in Requests
      BY <1>0, <1>6, ElementOfSeq
    <3> QED  BY <1>9, <3>1 DEF ClientInv, Requests
  <2>3. ASSUME NEW i \in DOMAIN requests', requests'[i].from = c
        PROVE  \/ requests'[i].n < call'[c].n /\ ~requests'[i].heard /\ ~Own(c, i)'
               \/ /\ i = Len(requests) + 1 /\ requests'[i].n = call'[c].n
                  /\ requests'[i].heard /\ Own(c, i)' /\ call'[c].at = "sent"
    <3>1. CASE i \in DOMAIN requests /\ requests'[i] = requests[i]
      BY <1>0, <2>1, <2>2, <2>3, <3>1 DEF Own
    <3>2. CASE i = Len(requests) + 1 /\ requests'[i] = r /\ call'[d].at = "sent"
      BY <1>2, <1>9, <2>3, <3>2 DEF Own
    <3> QED  BY <1>7, <3>1, <3>2
  <2>4. \A i \in DOMAIN requests' : Own(c, i)' => requests'[i].from = c
    BY DEF Own
  <2>5. /\ \A i \in DOMAIN requests' : requests'[i].from = c => requests'[i].n <= call'[c].n
        /\ \A i \in DOMAIN requests' : Own(c, i)' /\ Calls(c)' => requests'[i].heard
        /\ \A i, j \in DOMAIN requests' : Own(c, i)' /\ Own(c, j)' => i = j
    <3>1. \A i \in DOMAIN requests' : requests'[i].from = c => requests'[i].n \in Nat
      BY <1>0, <1>4, <1>7, <1>2, <1>9, <2>2
    <3>2. call'[c].n \in Nat
      BY <1>0, <2>1
    <3> QED  BY <2>3, <2>4, <3>1, <3>2
  <2>6. \A i \in DOMAIN requests' :
           requests'[i].from = c /\ requests'[i].heard =>
              Own(c, i)' /\ Calls(c)' /\ ~call'[c].replied
    BY <1>1, <1>9, <2>3 DEF Calls
  <2>7. /\ call'[c].at \in {"sent", "busy", "shutting down"}
        /\ ~call'[c].replied /\ ~call'[c].carried
        /\ call'[c].at # "sent" => requests' = requests
    BY <1>1, <1>9
  <2>8. call'[c].at # "sent" => \A i \in DOMAIN requests' : ~Own(c, i)'
    BY <2>3, <2>4
  <2> QED
    BY <2>5, <2>6, <2>7, <2>8 DEF ClientInv, Calls
<1> QED
  BY <1>8, <1>9

(* A client that hears something, or gives up, no longer waits.               *)
LEMMA AnswerAnswers ==
    ASSUME TypeInv, NEW c \in Client, ClientInv(c), NEW d \in Caller, Answer(d)
    PROVE  ClientInv(c)'
<1>0. /\ call \in [Caller -> CallState] /\ c \in Caller /\ requests \in Seq(Requests)
  BY DEF TypeInv, Caller
<1>1. /\ call[d].at = "waiting"
      /\ \/ call[d].replied /\ Heard(d, "ok") /\ requests' = requests
         \/ ~call[d].replied /\ ~InQueue(d) /\ Heard(d, "shutting down") /\ requests' = requests
         \/ Heard(d, "no answer") /\ requests' = Silenced(d)
  BY DEF Answer, GaveUp, Silenced
<1>2. /\ \A e \in Caller \ {d} : call'[e] = call[e]
      /\ call'[d].n = call[d].n /\ call'[d].replied = call[d].replied
      /\ call'[d].carried = call[d].carried
  BY <1>0, <1>1, HeardCall
<1>3. /\ Heard(d, "ok") => call'[d].at = "ok"
      /\ Heard(d, "shutting down") => call'[d].at = "shutting down"
      /\ Heard(d, "no answer") => call'[d].at = "no answer"
  BY <1>0, HeardCall
<1>4. /\ DOMAIN requests' = DOMAIN requests
      /\ \A i \in DOMAIN requests :
            /\ requests'[i].from = requests[i].from /\ requests'[i].n = requests[i].n
            /\ requests'[i].heard => requests[i].heard
            /\ requests[i].from # d => (requests'[i].heard <=> requests[i].heard)
            /\ requests' = Silenced(d) /\ requests[i].from = d => ~requests'[i].heard
  <2>1. CASE requests' = requests /\ requests' # Silenced(d)
    BY <2>1
  <2>2. CASE requests' = Silenced(d)
    <3>1. /\ DOMAIN Silenced(d) = DOMAIN requests
          /\ \A i \in DOMAIN requests :
                /\ Silenced(d)[i].from = requests[i].from /\ Silenced(d)[i].n = requests[i].n
                /\ Silenced(d)[i].heard = (requests[i].heard /\ requests[i].from # d)
      BY <1>0, SilencedQueue
    <3> QED  BY <2>2, <3>1
  <2> QED  BY <1>1, <2>1, <2>2
<1>5. \A i \in DOMAIN requests : Own(c, i)' = Own(c, i)
  <2>1. call'[c].n = call[c].n
    BY <1>0, <1>2
  <2> QED  BY <1>4, <2>1 DEF Own
<1>6. CASE c # d
  <2>1. call'[c] = call[c]
    BY <1>0, <1>2, <1>6
  <2>2. Calls(c)' = Calls(c)
    BY <2>1 DEF Calls
  <2>3. /\ \A i \in DOMAIN requests' : requests'[i].from = c => requests'[i].n <= call'[c].n
        /\ \A i \in DOMAIN requests' :
              requests'[i].from = c /\ requests'[i].heard =>
                 Own(c, i)' /\ Calls(c)' /\ ~call'[c].replied
    BY <1>4, <1>5, <2>1, <2>2 DEF ClientInv
  <2>4. ASSUME NEW i \in DOMAIN requests', Own(c, i)', Calls(c)' PROVE requests'[i].heard
    <3>1. requests[i].from = c /\ requests[i].heard
      BY <1>4, <1>5, <2>2, <2>4 DEF ClientInv, Own
    <3> QED  BY <1>4, <1>6, <3>1
  <2>5. /\ \A i, j \in DOMAIN requests' : Own(c, i)' /\ Own(c, j)' => i = j
        /\ call'[c].replied => call'[c].carried
        /\ Calls(c)' /\ call'[c].carried => call'[c].replied
        /\ call'[c].at = "ok" => call'[c].carried
        /\ call'[c].at \in {"busy", "shutting down"} =>
              ~call'[c].carried /\ \A i \in DOMAIN requests' : ~Own(c, i)'
    BY <1>4, <1>5, <2>1, <2>2 DEF ClientInv
  <2> QED  BY <2>3, <2>4, <2>5 DEF ClientInv
<1>7. CASE c = d
  <2>1. Calls(c)
    BY <1>1, <1>7 DEF Calls
  <2>2. ~Calls(c)'
    BY <1>1, <1>3, <1>7 DEF Calls
  <2>3. /\ \A i \in DOMAIN requests' : requests'[i].from = c => requests'[i].n <= call'[c].n
        /\ \A i, j \in DOMAIN requests' : Own(c, i)' /\ Own(c, j)' => i = j
        /\ call'[c].replied => call'[c].carried
    BY <1>2, <1>4, <1>5, <1>7 DEF ClientInv
  <2>4. CASE call[c].replied /\ Heard(c, "ok") /\ requests' = requests
    <3>1. call'[c].at = "ok" /\ call'[c].carried
      BY <1>2, <1>3, <1>7, <2>4 DEF ClientInv
    <3>2. \A i \in DOMAIN requests' : requests'[i].from = c => ~requests'[i].heard
      BY <1>4, <2>4 DEF ClientInv
    <3> QED  BY <2>2, <2>3, <3>1, <3>2 DEF ClientInv
  <2>5. CASE ~call[c].replied /\ ~InQueue(c) /\ Heard(c, "shutting down") /\ requests' = requests
    <3>1. \A i \in DOMAIN requests : ~(requests[i].from = c /\ requests[i].heard)
      BY <2>5 DEF InQueue, ToSet
    <3>2. \A i \in DOMAIN requests : ~Own(c, i)
      BY <2>1, <3>1 DEF ClientInv, Own
    <3>3. call'[c].at = "shutting down" /\ ~call'[c].carried
      BY <1>2, <1>3, <1>7, <2>1, <2>5 DEF ClientInv
    <3>4. \A i \in DOMAIN requests' : ~Own(c, i)' /\ ~(requests'[i].from = c /\ requests'[i].heard)
      BY <1>4, <1>5, <3>1, <3>2
    <3> QED  BY <2>2, <2>3, <3>3, <3>4 DEF ClientInv
  <2>6. CASE Heard(c, "no answer") /\ requests' = Silenced(c)
    <3>1. \A i \in DOMAIN requests' : ~(requests'[i].from = c /\ requests'[i].heard)
      BY <1>4, <1>7, <2>6
    <3>2. call'[c].at = "no answer"
      BY <1>3, <1>7, <2>6
    <3> QED  BY <2>2, <2>3, <3>1, <3>2 DEF ClientInv
  <2> QED  BY <1>1, <1>7, <2>4, <2>5, <2>6
<1> QED
  BY <1>6, <1>7

LEMMA StepAnswers == TypeInv /\ WakeInv /\ AnswersInv /\ [Next]_vars => AnswersInv'
<1> SUFFICES ASSUME TypeInv, WakeInv, [Next]_vars, NEW c \in Client, ClientInv(c)
             PROVE  ClientInv(c)'
  BY DEF AnswersInv
<1>0. /\ call \in [Caller -> CallState] /\ c \in Caller /\ Watcher \in Caller
      /\ Watchdog \in Caller /\ Client \subseteq Caller
  BY DEF TypeInv, Caller
<1>1. CASE UNCHANGED <<requests, call>>
  BY <1>1, ClientFrame
<1>2. CASE Start \/ Quit \/ WaitFails \/ Returned \/ Exit \/ System \/ StartAgain \/ File
           \/ UNCHANGED vars
  <2>1. UNCHANGED <<requests, call>>
    BY <1>2 DEF Start, Quit, WaitFails, EndsLoop, Returned, Exit, System, StartAgain, File, vars
  <2> QED  BY <1>1, <2>1
<1>3. CASE Loop
  <2>1. ServeRequest \/ UNCHANGED <<requests, call>>
    BY <1>3 DEF Loop, NoRequest, AnswerSignals, Woken, PumpWake, PumpEmpty
  <2> QED  BY <1>1, <2>1, ServeAnswers
<1>4. CASE Undo
  <2>1. requests' \in {requests, <<>>} /\ call' = call
    BY <1>4 DEF Undo, UndoMain, UndoHook
  <2>2. CASE requests' = <<>>
    <3>1. DOMAIN requests' = {} /\ call'[c] = call[c] /\ (Calls(c)' <=> Calls(c))
      BY <2>1, <2>2, EmptySeq DEF Calls
    <3>2. /\ call'[c].replied => call'[c].carried
          /\ Calls(c)' /\ call'[c].carried => call'[c].replied
          /\ call'[c].at = "ok" => call'[c].carried
      BY <3>1 DEF ClientInv
    <3>3. call'[c].at \in {"busy", "shutting down"} => ~call'[c].carried
      BY <3>1 DEF ClientInv
    <3> QED  BY <3>1, <3>2, <3>3 DEF ClientInv
  <2> QED  BY <1>1, <2>1, <2>2
<1>5. CASE Others
  <2>0. UNCHANGED saves
    BY <1>5 DEF Others, file
  <2>1. ASSUME NEW d \in Caller, Wake(d) PROVE ClientInv(c)'
    <3>1. call[d].at = "sent" /\ Heard(d, "waiting") /\ requests' = requests
      BY <2>1 DEF Wake
    <3>2. /\ \A e \in Caller \ {d} : call'[e] = call[e] /\ call'[d].at = "waiting"
          /\ call'[d].n = call[d].n /\ call'[d].replied = call[d].replied
          /\ call'[d].carried = call[d].carried
      BY <1>0, <3>1, HeardCall
    <3>3. CASE c # d
      BY <1>0, <3>1, <3>2, <3>3, ClientFrame
    <3>4. CASE c = d
      <4>1. /\ \A i \in DOMAIN requests : Own(c, i)' = Own(c, i)
            /\ call'[c].at = "waiting" /\ Calls(c) /\ Calls(c)'
        <5>1. call'[d].at = "waiting"
          BY <1>0, <3>1, HeardCall
        <5> QED  BY <3>1, <3>2, <3>4, <5>1 DEF Own, Calls
      <4> QED  BY <3>1, <3>2, <3>4, <4>1 DEF ClientInv
    <3> QED  BY <3>3, <3>4
  <2>2. ASSUME NEW d \in Caller, Answer(d) PROVE ClientInv(c)'
    BY <2>2, AnswerAnswers
  <2>3. ASSUME NEW d \in Client, Switch(d) PROVE ClientInv(c)'
    <3>1. PICK value \in BOOLEAN : Ask(d, "switch", value)
      BY <2>3 DEF Switch
    <3>2. /\ ~Calls(d) /\ d \in Caller /\ "switch" \in Kind
          /\ value \in Value("switch", saves)
      BY <1>0, <2>3 DEF Switch, Kind, Value
    <3> QED  BY <2>0, <3>1, <3>2, AskAnswers
  <2>4. CASE AskReinstall
    <3>1. /\ Ask(Watchdog, "reinstall", None) /\ ~Calls(Watchdog) /\ "reinstall" \in Kind
          /\ None \in Value("reinstall", saves)
      BY <2>4 DEF AskReinstall, Kind, Value
    <3> QED  BY <1>0, <2>0, <3>1, AskAnswers
  <2>5. CASE AskReload
    <3>1. Ask(Watcher, "reload", watcher.list) /\ watcher.at = "loaded"
      BY <2>5 DEF AskReload
    <3>2. /\ ~Calls(Watcher) /\ "reload" \in Kind
          /\ watcher.list \in Value("reload", saves)
      BY <3>1 DEF WakeInv, TypeInv, Kind, Value
    <3> QED  BY <1>0, <2>0, <3>1, <3>2, AskAnswers
  <2>6. CASE (\E d \in Client : AskExit(d)) \/ FirstEvent \/ Load \/ NextEvent
    <3>1. UNCHANGED <<requests, call>>
      BY <2>6 DEF AskExit, FirstEvent, Load, NextEvent
    <3> QED  BY <1>1, <3>1
  <2> QED
    BY <1>5, <2>1, <2>2, <2>3, <2>4, <2>5, <2>6 DEF Others
<1> QED
  BY <1>2, <1>3, <1>4, <1>5 DEF Next, MainThread

LEMMA AnswersHold == Spec => [](TypeInv /\ WakeInv /\ AnswersInv)
<1>1. Init => WakeInv
  BY DEF Init, WakeInv, Calls, Caller
<1>2. Init => AnswersInv
  <2> SUFFICES ASSUME Init, NEW c \in Client PROVE ClientInv(c)
    BY DEF AnswersInv
  <2>1. requests = <<>> /\ DOMAIN requests = {} /\ c \in Caller
    BY EmptySeq DEF Init, Caller
  <2>2. call[c] = [at |-> "idle", n |-> 0, replied |-> FALSE, carried |-> FALSE]
    BY <2>1 DEF Init
  <2> QED  BY <2>1, <2>2 DEF ClientInv, Calls
<1> QED
  BY <1>1, <1>2, InitType, StepType, StepWake, StepAnswers, PTL DEF Spec
-----------------------------------------------------------------------------
(* While the daemon runs, what the watcher loaded is the last save or another *)
(* event will come; and the last save, if it loads and was not overlooked, is *)
(* still to be reported, being loaded, or what the last reload in the queue   *)
(* carries -- or, without one, what is live.                                  *)
Running == at \notin {"end", "returned", "prompt", "gone"}
Reload(i) == requests[i].kind = "reload"
Settles(list) ==
    \/ \E i \in DOMAIN requests :
          /\ Reload(i) /\ requests[i].value = list
          /\ \A j \in DOMAIN requests : Reload(j) => j <= i
    \/ live = list /\ \A i \in DOMAIN requests : ~Reload(i)
Coming == unseen \/ events
SavedInv ==
    Running =>
       /\ Coming \/ watcher.at # "idle" => "watcher" \in guards
       /\ watcher.at = "loaded" => watcher.list = disk \/ Coming
       /\ disk # None /\ ~overlooked =>
             Coming \/ watcher.at \in {"debounce", "loaded"} \/ Settles(disk)

LEMMA SavedFrame ==
    ASSUME SavedInv, Running' => Running /\ guards \subseteq guards',
           UNCHANGED <<live, requests, disk, unseen, events, watcher, overlooked>>
    PROVE  SavedInv'
<1>1. \A list : Settles(list)' <=> Settles(list)
  BY DEF Settles, Reload
<1> QED
  BY <1>1 DEF SavedInv, Coming

(* A reload that is carried out is live, unless another follows in the queue. *)
LEMMA ServeSettles ==
    ASSUME TypeInv, ServeRequest, NEW list, Settles(list)
    PROVE  Settles(list)'
<1> DEFINE r == Head(requests)
<1>1. /\ requests # <<>> /\ requests' = Tail(requests) /\ requests \in Seq(Requests)
      /\ r.kind # "reload" => UNCHANGED live
      /\ r.kind = "reload" => live' = r.value
  BY DEF ServeRequest, bound, TypeInv
<1>2. /\ DOMAIN requests = 1 .. Len(requests) /\ Len(requests) \in Nat \ {0}
      /\ DOMAIN requests' = 1 .. Len(requests) - 1
      /\ r = requests[1] /\ 1 \in DOMAIN requests
      /\ \A i \in DOMAIN requests' : i + 1 \in DOMAIN requests /\ requests'[i] = requests[i + 1]
  BY <1>1, TailOfQueue
<1> HIDE DEF r
<1>3. \A i \in DOMAIN requests' : Reload(i)' <=> Reload(i + 1)
  BY <1>2 DEF Reload
<1>4. CASE live = list /\ \A i \in DOMAIN requests : ~Reload(i)
  <2>1. live' = list
    BY <1>1, <1>2, <1>4 DEF Reload
  <2> QED  BY <1>2, <1>3, <1>4, <2>1 DEF Settles
<1>5. ASSUME NEW i \in DOMAIN requests, Reload(i), requests[i].value = list,
             \A j \in DOMAIN requests : Reload(j) => j <= i
      PROVE  Settles(list)'
  <2>1. CASE i = 1
    <3>1. live' = list
      BY <1>1, <1>2, <1>5, <2>1 DEF Reload
    <3>2. \A j \in DOMAIN requests' : ~Reload(j)'
      BY <1>2, <1>3, <1>5, <2>1
    <3> QED  BY <3>1, <3>2 DEF Settles
  <2>2. CASE i # 1
    <3>1. i - 1 \in DOMAIN requests' /\ (i - 1) + 1 = i
      BY <1>2, <2>2
    <3>2. Reload(i - 1)' /\ requests'[i - 1].value = list
      BY <1>2, <1>3, <1>5, <3>1
    <3>3. \A j \in DOMAIN requests' : Reload(j)' => j <= i - 1
      BY <1>2, <1>3, <1>5
    <3> QED  BY <3>1, <3>2, <3>3 DEF Settles
  <2> QED  BY <2>1, <2>2
<1> QED
  BY <1>4, <1>5 DEF Settles

(* What is asked is the last of the queue.                                    *)
LEMMA AskSettles ==
    ASSUME TypeInv, NEW c \in Caller, NEW kind \in Kind, NEW value, value \in Value(kind, saves),
           Ask(c, kind, value), UNCHANGED <<saves, live>>
    PROVE  /\ kind # "reload" => \A list : Settles(list) => Settles(list)'
           /\ kind = "reload" /\ call'[c].at = "sent" => Settles(value)'
<1> DEFINE r == [from |-> c, kind |-> kind, value |-> value, n |-> call'[c].n, heard |-> TRUE]
<1>1. /\ call' \in [Caller -> CallState]
      /\ IF call'[c].at = "sent" THEN requests' = Append(requests, r) ELSE requests' = requests
  BY AskType
<1>2. r.kind = kind /\ r.value = value
  OBVIOUS
<1>3. r \in Requests
  <2>1. saves \in Nat  BY DaemonAssumption DEF TypeInv
  <2>2. Value(kind, saves) \in {BOOLEAN, 0 .. saves, {None}}  BY DEF Value
  <2>3. value \in BOOLEAN \cup Nat \cup {None}  BY <2>1, <2>2
  <2>4. call'[c].n \in Nat  BY <1>1 DEF CallState
  <2> QED  BY <2>3, <2>4 DEF Requests
<1> HIDE DEF r
<1>4. CASE requests' = requests /\ call'[c].at # "sent"
  BY <1>4 DEF Settles, Reload
<1>5. CASE requests' = Append(requests, r)
  <2>0. PICK last : last = Len(requests) + 1
    OBVIOUS
  <2>1. /\ DOMAIN requests = 1 .. last - 1 /\ last \in Nat \ {0}
        /\ DOMAIN requests' = 1 .. last
        /\ \A i \in DOMAIN requests : requests'[i] = requests[i]
        /\ requests'[last] = r
    BY <1>3, <1>5, <2>0, AppendToQueue DEF TypeInv
  <2>2. /\ \A i \in DOMAIN requests : i \in DOMAIN requests'
        /\ \A i \in DOMAIN requests : Reload(i)' <=> Reload(i)
        /\ \A i \in DOMAIN requests' : i \in DOMAIN requests \/ i = last
        /\ last \in DOMAIN requests'
        /\ \A i \in DOMAIN requests' : i <= last
    BY <2>1 DEF Reload
  <2>3. Reload(last)' <=> kind = "reload"
    BY <1>2, <2>1 DEF Reload
  <2>4. ASSUME kind # "reload", NEW list, Settles(list) PROVE Settles(list)'
    <3>1. \A j \in DOMAIN requests' : Reload(j)' => j \in DOMAIN requests /\ Reload(j)
      BY <2>2, <2>3, <2>4
    <3>2. CASE live = list /\ \A i \in DOMAIN requests : ~Reload(i)
      BY <3>1, <3>2 DEF Settles
    <3>3. ASSUME NEW i \in DOMAIN requests, Reload(i), requests[i].value = list,
                 \A j \in DOMAIN requests : Reload(j) => j <= i
          PROVE  Settles(list)'
      <4>1. i \in DOMAIN requests' /\ Reload(i)' /\ requests'[i].value = list
        BY <2>1, <2>2, <3>3
      <4>2. \A j \in DOMAIN requests' : Reload(j)' => j <= i
        BY <3>1, <3>3
      <4> QED  BY <4>1, <4>2 DEF Settles
    <3> QED  BY <2>4, <3>2, <3>3 DEF Settles
  <2>5. ASSUME kind = "reload" PROVE Settles(value)'
    <3>1. Reload(last)' /\ requests'[last].value = value
      BY <1>2, <2>1, <2>3, <2>5
    <3> QED  BY <2>2, <3>1 DEF Settles
  <2> QED  BY <2>4, <2>5
<1> QED
  BY <1>1, <1>4, <1>5

LEMMA StepSaved == TypeInv /\ WakeInv /\ SavedInv /\ [Next]_vars => SavedInv'
<1> SUFFICES ASSUME TypeInv, WakeInv, SavedInv, [Next]_vars, Running' PROVE SavedInv'
  BY DEF SavedInv
<1>0. call \in [Caller -> CallState] /\ Watcher \in Caller /\ Watchdog \in Caller
  BY DEF TypeInv, Caller
<1>1. CASE Start
  <2>1. Running /\ guards \subseteq guards'
    BY <1>1 DEF Start, Bind, StartExecutor, StartMain, StartWatchdog, StartWindow, StartWatcher,
                Install, Serve, StartGuard, StartOptional, Return, Goes, Running
  <2> QED  BY <1>1, <2>1, SavedFrame DEF Start, bound, file, watch
<1>2. CASE Loop
  <2>1. Running /\ UNCHANGED <<guards, disk, unseen, events, watcher, overlooked>>
    BY <1>2 DEF Loop, ServeRequest, NoRequest, AnswerSignals, Woken, PumpWake, PumpEmpty,
                Running, file, watch
  <2>2. CASE ServeRequest
    <3>1. \A list : Settles(list) => Settles(list)'
      BY <2>2, ServeSettles
    <3> QED  BY <2>1, <3>1 DEF SavedInv, Coming
  <2>3. CASE NoRequest \/ AnswerSignals \/ Woken \/ PumpWake \/ PumpEmpty
    <3>1. UNCHANGED <<live, requests>>
      BY <2>3 DEF NoRequest, AnswerSignals, Woken, PumpWake, PumpEmpty, bound
    <3> QED  BY <2>1, <3>1, SavedFrame
  <2> QED  BY <1>2, <2>2, <2>3 DEF Loop
<1>3. CASE Quit \/ WaitFails \/ Undo \/ Returned \/ Exit
  <2>1. ~Running'
    BY <1>3 DEF Quit, WaitFails, EndsLoop, Undo, Turn, Returned, Exit, Running
  <2> QED  BY <2>1
<1>4. CASE System \/ StartAgain \/ UNCHANGED vars
  <2>1. /\ Running
        /\ UNCHANGED <<guards, live, requests, disk, unseen, events, watcher, overlooked>>
    BY <1>4 DEF System, Called, Removed, SessionSwitch, SessionEnd, CtrlC, StartAgain, vars,
                thread, bound, file, watch, Running
  <2> QED  BY <2>1, SavedFrame
<1>5. CASE Others
  <2>0. Running /\ UNCHANGED <<guards, live, saves, disk, unseen>>
    BY <1>5 DEF Others, thread, bound, file, Running
  <2>1. CASE UNCHANGED <<requests, watch>>
    BY <2>0, <2>1, SavedFrame DEF watch
  <2>2. ASSUME NEW c \in Caller, Answer(c) PROVE SavedInv'
    <3>1. /\ call[c].at = "waiting" /\ requests' \in {requests, Silenced(c)}
          /\ UNCHANGED <<events, overlooked>>
          /\ watcher' = IF c = Watcher THEN [watcher EXCEPT !.at = "idle"] ELSE watcher
      BY <2>2 DEF Answer, Silenced
    <3>2. /\ watcher' = watcher \/ (watcher.at = "waiting" /\ watcher'.at = "idle")
      <4>1. CASE c = Watcher
        BY <3>1, <4>1 DEF WakeInv, Calls, TypeInv
      <4> QED  BY <3>1, <4>1
    <3>3. /\ DOMAIN requests' = DOMAIN requests
          /\ \A i \in DOMAIN requests : /\ requests'[i].kind = requests[i].kind
                                        /\ requests'[i].value = requests[i].value
      BY <3>1, SilencedQueue DEF TypeInv
    <3>4. \A list : Settles(list)' <=> Settles(list)
      BY <2>0, <3>3 DEF Settles, Reload
    <3> QED  BY <2>0, <3>1, <3>2, <3>4 DEF SavedInv, Coming
  <2>3. ASSUME NEW c \in Client, Switch(c) PROVE SavedInv'
    <3>1. PICK value \in BOOLEAN : Ask(c, "switch", value)
      BY <2>3 DEF Switch
    <3>2. /\ c \in Caller /\ "switch" \in Kind /\ value \in Value("switch", saves)
          /\ UNCHANGED <<events, watcher, overlooked>>
      BY <2>3 DEF Switch, Kind, Value, Caller, watch
    <3>3. \A list : Settles(list) => Settles(list)'
      BY <2>0, <3>1, <3>2, AskSettles
    <3> QED  BY <2>0, <3>2, <3>3 DEF SavedInv, Coming
  <2>4. CASE AskReinstall
    <3>1. /\ Ask(Watchdog, "reinstall", None) /\ UNCHANGED <<events, watcher, overlooked>>
          /\ "reinstall" \in Kind /\ None \in Value("reinstall", saves)
      BY <2>4 DEF AskReinstall, Kind, Value, watch
    <3>2. \A list : Settles(list) => Settles(list)'
      BY <1>0, <2>0, <3>1, AskSettles
    <3> QED  BY <2>0, <3>1, <3>2 DEF SavedInv, Coming
  <2>5. CASE FirstEvent \/ NextEvent
    <3>1. /\ events /\ watcher'.at = "debounce" /\ UNCHANGED <<requests, overlooked>>
      BY <2>5 DEF FirstEvent, NextEvent, TypeInv
    <3> QED  BY <2>0, <3>1 DEF SavedInv, Coming
  <2>6. CASE Load
    <3>1. /\ watcher.at = "debounce" /\ UNCHANGED <<events, requests, overlooked>>
          /\ IF disk = None THEN watcher'.at = "idle"
             ELSE watcher'.at = "loaded" /\ watcher'.list = disk
      BY <2>6 DEF Load, TypeInv
    <3> QED  BY <2>0, <3>1 DEF SavedInv, Coming
  <2>7. CASE AskReload
    <3>1. /\ Ask(Watcher, "reload", watcher.list) /\ watcher.at = "loaded" /\ UNCHANGED events
          /\ watcher'.at \in {"waiting", "idle"}
          /\ overlooked' = (call'[Watcher].at # "sent")
      BY <2>7 DEF AskReload, EventsKept, TypeInv
    <3>2. "reload" \in Kind /\ watcher.list \in Value("reload", saves)
      BY <3>1 DEF TypeInv, Kind, Value
    <3>3. PICK list : list = watcher.list
      OBVIOUS
    <3>4. call'[Watcher].at = "sent" => Settles(list)'
      BY <1>0, <2>0, <3>1, <3>2, <3>3, AskSettles
    <3>5. "watcher" \in guards /\ (list = disk' \/ Coming')
      BY <2>0, <3>1, <3>3 DEF SavedInv, Coming
    <3>6. disk' # None /\ ~overlooked' => Coming' \/ Settles(disk)'
      BY <3>1, <3>4, <3>5
    <3> QED  BY <2>0, <3>1, <3>5, <3>6 DEF SavedInv, Coming
  <2>8. CASE (\E c \in Caller : Wake(c)) \/ (\E c \in Client : AskExit(c))
    BY <2>1, <2>8 DEF Wake, AskExit
  <2> QED
    BY <1>5, <2>2, <2>3, <2>4, <2>5, <2>6, <2>7, <2>8 DEF Others
<1>6. CASE File
  <2>0. Running /\ UNCHANGED <<guards, live, requests, watcher>>
    BY <1>6 DEF File, Save, Report, thread, bound, Running
  <2>1. CASE Save
    <3>1. /\ UNCHANGED events
          /\ IF "watcher" \in guards THEN unseen' = TRUE /\ UNCHANGED overlooked
             ELSE overlooked' = TRUE /\ UNCHANGED unseen
      BY <2>1 DEF Save
    <3> QED  BY <2>0, <3>1 DEF SavedInv, Coming
  <2>2. CASE Report
    <3>1. /\ unseen /\ unseen' = FALSE /\ events' = ("watcher" \in guards)
          /\ UNCHANGED <<disk, overlooked>>
      BY <2>2 DEF Report
    <3>2. "watcher" \in guards
      BY <2>0, <3>1 DEF SavedInv, Coming
    <3> QED  BY <2>0, <3>1, <3>2 DEF SavedInv, Coming
  <2> QED  BY <1>6, <2>1, <2>2 DEF File
<1> QED
  BY <1>1, <1>2, <1>3, <1>4, <1>5, <1>6 DEF Next, MainThread

LEMMA SavedHolds == Spec => [](TypeInv /\ WakeInv /\ SavedInv)
<1>1. Init => WakeInv
  BY DEF Init, WakeInv, Calls, Caller
<1>2. Init => SavedInv
  <2> SUFFICES ASSUME Init PROVE SavedInv
    OBVIOUS
  <2>1. requests = <<>> /\ DOMAIN requests = {}
    BY EmptySeq DEF Init
  <2>2. Settles(disk)
    BY <2>1 DEF Init, Settles
  <2> QED  BY <2>2 DEF Init, SavedInv, Coming
<1> QED
  BY <1>1, <1>2, InitType, StepType, StepWake, StepSaved, PTL DEF Spec
-----------------------------------------------------------------------------
(* Keys are not held up: the main thread waits for another thread, or for the *)
(* user, only without a keyboard hook, of which there is at most one, and     *)
(* none beside another daemon (App::run, uninstall).                          *)
THEOREM HookGoneFirst == Spec => []KeysNotHeld
<1>1. TypeInv /\ HooksInv => KeysNotHeld
  BY HookFirst DEF KeysNotHeld, WaitsForOthers, HooksInv, Over
<1> QED
  BY <1>1, HooksKept, PTL

(* The daemon's types, and no lost wake-up: no request is in the queue at the *)
(* wait without a wake that is there or about to be posted (drain, pump).     *)
THEOREM NeverAsleep == Spec => []WakesKept
<1>1. TypeInv /\ WakeInv => WakesKept
  BY DEF TypeInv, WakeInv, Wakes, WakesKept, NoLostWakeup
<1> QED
  BY <1>1, WakesHold, PTL

(* What swch hears is true, however the answer, its deadline and the end of   *)
(* the daemon race (set_enabled, drop).                                       *)
THEOREM AnswersAreTrue == Spec => []AnswersTrue
<1>1. AnswersInv => AnswersTrue
  <2> SUFFICES ASSUME NEW c \in Client, ClientInv(c)
               PROVE  /\ call[c].at = "ok" => call[c].carried
                      /\ call[c].at \in {"busy", "shutting down"} =>
                            /\ ~call[c].carried
                            /\ \A r \in ToSet(requests) : r.from = c => r.n # call[c].n
    BY DEF AnswersInv, AnswersTrue
  <2>1. (\A i \in DOMAIN requests : ~Own(c, i)) =>
           \A r \in ToSet(requests) : r.from = c => r.n # call[c].n
    BY DEF Own, ToSet
  <2> QED  BY <2>1 DEF ClientInv
<1> QED
  BY <1>1, AnswersHold, PTL

(* Once the watcher rests and its reloads are served, the last save is live,  *)
(* unless it does not load or a full queue refused it (debounce_loop,         *)
(* reload_into).                                                              *)
THEOREM LastSaveLive == Spec => []SavedIsLive
<1>1. SavedInv => SavedIsLive
  BY DEF SavedInv, SavedIsLive, AtRest, Running, Coming, Settles, Reload, ToSet
<1> QED
  BY <1>1, SavedHolds, PTL
=============================================================================
