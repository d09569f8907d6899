---------------------------- MODULE Watchdog_proofs ----------------------------
(* Proofs about Watchdog: its types, the true status of a failed attempt, the *)
(* spacing of the attempts, and that a live hook is never replaced, for every *)
(* silence, evidence, back-off limit, number of keys and choice of            *)
(* environments.                                                              *)
EXTENDS Watchdog, TLAPS

Unit(b) == IF b THEN 1 ELSE 0

(* A key event that goes on has room among the raw events and the callbacks.  *)
RoomKept ==
    /\ queued + drained.keys + watchdog.arrived + Unit(unposted) <= MaxKeys
    /\ answered + watchdog.credit + Unit(waiting) <= MaxKeys

(* A callback since the last tick is one since the last attempt, too: an      *)
(* attempt that finds one keeps the hook, and one that finds none begins with *)
(* a tick, which takes the callbacks.                                         *)
CallbacksFresh ==
    /\ reply = "asked" /\ answered > 0 => moved
    /\ failedQuiet => answered = 0
    /\ answered > 0 => failures = 0

(* An answer that the watchdog has not taken yet.                             *)
Untaken == reply \in Outcome

(* The watchdog has counted the attempts since the last callback, but for the *)
(* one whose answer it has not taken; and the silence it has measured is no   *)
(* longer than the time since the main thread served its request.             *)
CountKept ==
    /\ failures <= watchdog.attempts \/ reply \in {"Reinstalled", "Failed"}
    /\ failures <= AtMost(watchdog.attempts + 1, BackoffLimit)
    /\ Untaken \/ watchdog.quietFor <= sinceServed

WatchInv == TypeOK /\ RoomKept /\ CallbacksFresh /\ CountKept /\ StatusTrue
-----------------------------------------------------------------------------
(* The constants the ages are compared with are natural numbers.              *)
LEMMA Limits ==
    /\ \A a \in Nat : AtMost(a, BackoffLimit) \in 0 .. BackoffLimit
    /\ \A a \in 0 .. BackoffLimit : 2 ^ a \in Nat /\ Window(a) \in Nat
    /\ OldQuiet \in Nat /\ OldRaw \in Nat
<1>1. \A a \in Nat : AtMost(a, BackoffLimit) \in 0 .. BackoffLimit
  BY WatchdogAssumption DEF AtMost
<1>2. \A a \in 0 .. BackoffLimit : 2 ^ a \in Nat /\ Window(a) = Silence * 2 ^ a
  BY PowersAssumption, WatchdogAssumption DEF AtMost, Window
<1>3. \A a \in 0 .. BackoffLimit : Window(a) \in Nat
  <2> TAKE a \in 0 .. BackoffLimit
  <2>1. 2 ^ a \in Nat /\ Window(a) = Silence * 2 ^ a  BY <1>2
  <2>2. \A x \in Nat : Silence * x \in Nat  BY WatchdogAssumption
  <2> QED  BY <2>1, <2>2
<1>4. OldQuiet \in Nat
  BY <1>3, WatchdogAssumption DEF OldQuiet
<1> QED
  BY <1>1, <1>2, <1>3, <1>4, WatchdogAssumption DEF OldRaw

(* What a field of the watchdog's state starts over with.                     *)
LEMMA Zeros ==
    /\ 0 \in 0 .. MaxKeys /\ 0 \in 0 .. MinEvidence /\ 0 \in 0 .. BackoffLimit
    /\ 0 \in 0 .. OldQuiet /\ 0 \in (0 .. OldRaw) \cup {None}
    /\ 1 \in Instant /\ None \in Instant
BY Limits, WatchdogAssumption DEF Instant

(* More attempts, a longer window.                                            *)
LEMMA WindowGrows ==
    ASSUME NEW a \in 0 .. BackoffLimit, NEW b \in 0 .. a
    PROVE  Silence * 2 ^ b <= Window(a)
<1>1. 2 ^ a \in Nat /\ 2 ^ b \in Nat /\ 2 ^ b <= 2 ^ a
  BY PowersAssumption, WatchdogAssumption
<1>2. Window(a) = Silence * 2 ^ a
  BY WatchdogAssumption DEF Window, AtMost
<1>3. \A x, y \in Nat : x <= y => Silence * x <= Silence * y
  BY WatchdogAssumption
<1> QED
  BY <1>1, <1>2, <1>3

(* A batch of raw events is counted, and never makes the silence longer.      *)
LEMMA RawBatchCounts ==
    ASSUME NEW w \in WatchdogState, NEW count \in Nat, w.arrived + count <= MaxKeys
    PROVE  LET b == RawBatch(w, count)
           IN  /\ b \in WatchdogState
               /\ b.arrived = w.arrived + count /\ b.credit <= w.credit
               /\ b.quietFor <= w.quietFor /\ b.attempts = w.attempts
<1>1. CASE count = 0
  BY <1>1, WatchdogAssumption DEF RawBatch, WatchdogState
<1>2. CASE count # 0
  <2> DEFINE counted == [w EXCEPT !.arrived = @ + count, !.rawAge = 0]
             first   == [counted EXCEPT !.nextTick = 1, !.quietFor = 0, !.credit = 0]
  <2>0. w.arrived + count \in 0 .. MaxKeys
    BY WatchdogAssumption DEF WatchdogState
  <2>1. /\ counted \in WatchdogState
        /\ counted.arrived = w.arrived + count /\ counted.credit = w.credit
        /\ counted.quietFor = w.quietFor /\ counted.attempts = w.attempts
    BY <2>0, Zeros DEF WatchdogState
  <2>2. RawBatch(w, count) \in {counted, first}
    BY <1>2 DEF RawBatch
  <2>3. /\ first \in WatchdogState
        /\ first.arrived = counted.arrived /\ first.credit = 0
        /\ first.quietFor = 0 /\ first.attempts = counted.attempts
    <3> HIDE DEF counted
    <3> QED  BY <2>1, Zeros DEF WatchdogState, Instant
  <2>4. w.credit \in Nat /\ w.quietFor \in Nat
    BY Zeros, Limits DEF WatchdogState
  <2> HIDE DEF counted, first
  <2> QED  BY <2>1, <2>2, <2>3, <2>4
<1> QED
  BY <1>1, <1>2

(* An answer starts the silence over, and counts the attempt it is of.        *)
LEMMA TakeAnswerCounts ==
    ASSUME NEW w \in WatchdogState, TypeOK
    PROVE  LET b == TakeAnswer(w)
           IN  /\ b \in WatchdogState
               /\ b.arrived <= w.arrived /\ b.credit <= w.credit
               /\ b.quietFor <= w.quietFor
               /\ Untaken => b.quietFor = 0
               /\ b.attempts = IF reply \in {"Reinstalled", "Failed"}
                               THEN AtMost(w.attempts + 1, BackoffLimit) ELSE w.attempts
<1>0. AtMost(w.attempts + 1, BackoffLimit) \in 0 .. BackoffLimit
  BY Limits, WatchdogAssumption DEF WatchdogState
<1>1. CASE reply \in Outcome
  <2> DEFINE more  == IF reply \in {"Reinstalled", "Failed"}
                      THEN AtMost(w.attempts + 1, BackoffLimit) ELSE w.attempts
             heard == [w EXCEPT !.outstanding = FALSE, !.attempts = more]
  <2>1. more \in 0 .. BackoffLimit
    BY <1>0 DEF WatchdogState
  <2>2. TakeAnswer(w) = StartOver(heard)
    BY <1>1 DEF TakeAnswer, Answered, WatchdogState, Outcome
  <2> HIDE DEF more
  <2>3. /\ heard \in WatchdogState /\ heard.attempts = more
        /\ heard.arrived = w.arrived /\ heard.credit = w.credit
    BY <2>1 DEF WatchdogState
  <2> HIDE DEF heard
  <2>4. /\ StartOver(heard) \in WatchdogState
        /\ StartOver(heard).attempts = more
        /\ StartOver(heard).arrived = 0 /\ StartOver(heard).credit = 0
        /\ StartOver(heard).quietFor = 0
    BY <2>3, Zeros DEF StartOver, WatchdogState
  <2>5. w.arrived \in Nat /\ w.credit \in Nat /\ w.quietFor \in Nat
    BY Zeros, Limits DEF WatchdogState
  <2> HIDE DEF WatchdogState
  <2> QED  BY <2>2, <2>4, <2>5 DEF more
<1>2. CASE reply = "dropped"
  <2>1. TakeAnswer(w) = NotSent(w) /\ ~Untaken
    BY <1>2 DEF TakeAnswer, Untaken, Outcome
  <2>2. /\ NotSent(w) \in WatchdogState /\ NotSent(w).attempts = w.attempts
        /\ NotSent(w).arrived = w.arrived /\ NotSent(w).credit = w.credit
        /\ NotSent(w).quietFor = w.quietFor
    BY DEF NotSent, WatchdogState
  <2>3. w.arrived \in Nat /\ w.credit \in Nat /\ w.quietFor \in Nat
    BY Zeros, Limits DEF WatchdogState
  <2> QED  BY <1>2, <2>1, <2>2, <2>3
<1>3. CASE reply \in {"none", "asked"}
  BY <1>0, <1>3, Zeros
     DEF TakeAnswer, WatchdogState, Instant, Untaken, Outcome
<1> QED
  BY <1>1, <1>2, <1>3 DEF TypeOK

(* What the callbacks of a tick leave of the credit fits beside them.         *)
LEMMA TickedCounts ==
    ASSUME NEW w \in WatchdogState, NEW callbacks \in 0 .. MaxKeys, NEW backlog \in BOOLEAN,
           w.credit + callbacks <= MaxKeys
    PROVE  LET b == Ticked(w, callbacks, backlog)
           IN  /\ b \in WatchdogState
               /\ b.arrived = 0 /\ b.credit <= w.credit + callbacks
               /\ b.quietFor <= w.quietFor
               /\ b.attempts = IF callbacks > 0 THEN 0 ELSE w.attempts
<1> DEFINE kept == KeptCredit(w, backlog)
           new  == NewCredit(w, callbacks)
           left == Unexplained(w)
<1>0. w.credit \in Nat /\ w.quietFor \in Nat
  BY Zeros, Limits DEF WatchdogState
<1>1. left \in 0 .. MaxKeys /\ Explained(w) \in 0 .. w.credit
  BY WatchdogAssumption DEF Unexplained, Explained, AtMost, WatchdogState
<1>2. kept \in 0 .. w.credit
  BY <1>1, WatchdogAssumption DEF KeptCredit, WatchdogState
<1>3. new \in 0 .. callbacks
  BY <1>1, WatchdogAssumption DEF NewCredit
<1>4. AtMost(w.evidence + left, MinEvidence) \in 0 .. MinEvidence
  BY <1>1, WatchdogAssumption DEF AtMost, WatchdogState
<1>5. Decides(w, callbacks) \in BOOLEAN
  BY DEF Decides
<1> DEFINE seen == IF callbacks > 0
                   THEN [w EXCEPT !.quietFor = 0, !.evidence = 0, !.attempts = 0,
                                  !.credit = kept + new]
                   ELSE [w EXCEPT !.credit = kept,
                                  !.evidence = AtMost(@ + left, MinEvidence),
                                  !.outstanding = @ \/ Decides(w, callbacks)]
           told == [seen EXCEPT !.arrived = 0]
<1>6. /\ told \in WatchdogState
      /\ told.arrived = 0 /\ told.credit <= w.credit + callbacks
      /\ told.quietFor <= w.quietFor
      /\ told.attempts = IF callbacks > 0 THEN 0 ELSE w.attempts
  <2> HIDE DEF kept, new, left
  <2>1. CASE callbacks > 0
    <3>1. told = [w EXCEPT !.quietFor = 0, !.evidence = 0, !.attempts = 0,
                           !.credit = kept + new, !.arrived = 0]
      BY <2>1 DEF WatchdogState
    <3> HIDE DEF told
    <3>2. kept + new \in 0 .. MaxKeys /\ kept + new <= w.credit + callbacks
      BY <1>2, <1>3, WatchdogAssumption DEF WatchdogState
    <3>3. /\ told \in WatchdogState
          /\ told.arrived = 0 /\ told.credit = kept + new
          /\ told.quietFor = 0 /\ told.attempts = 0
      BY <3>1, <3>2, Zeros DEF WatchdogState
    <3> QED  BY <2>1, <3>2, <3>3, <1>0
  <2>2. CASE ~(callbacks > 0)
    <3> DEFINE out == w.outstanding \/ Decides(w, callbacks)
    <3>1. out \in BOOLEAN  BY <1>5 DEF WatchdogState
    <3>2. told = [w EXCEPT !.credit = kept, !.arrived = 0, !.outstanding = out,
                           !.evidence = AtMost(w.evidence + left, MinEvidence)]
      BY <2>2 DEF WatchdogState
    <3> HIDE DEF out, told
    <3>3. kept \in 0 .. MaxKeys /\ kept <= w.credit + callbacks
      BY <1>2, WatchdogAssumption DEF WatchdogState
    <3>4. /\ told \in WatchdogState
          /\ told.arrived = 0 /\ told.credit = kept
          /\ told.quietFor = w.quietFor /\ told.attempts = w.attempts
      BY <3>1, <3>2, <3>3, <1>4, Zeros DEF WatchdogState
    <3> QED  BY <2>2, <3>3, <3>4, <1>0
  <2> QED  BY <2>1, <2>2
<1> DEFINE next == IF Decides(w, callbacks) \/ KeepsTicking(told) THEN 1 ELSE None
<1>7. Ticked(w, callbacks, backlog) = [told EXCEPT !.nextTick = next]
  BY DEF Ticked
<1>8. next \in Instant
  BY DEF Instant
<1> HIDE DEF told, next
<1> QED
  BY <1>6, <1>7, <1>8 DEF WatchdogState
-----------------------------------------------------------------------------
LEMMA InitInv == Init => WatchInv
<1> SUFFICES ASSUME Init PROVE WatchInv
  OBVIOUS
<1>1. TypeOK
  <2>1. watchdog \in WatchdogState
    BY Zeros DEF Init, WatchdogState
  <2>2. OldQuiet \in 0 .. OldQuiet
    BY Limits
  <2> QED
    BY <2>1, <2>2, Zeros DEF Init, TypeOK
<1>2. RoomKept
  BY WatchdogAssumption DEF Init, RoomKept, Unit
<1>3. CallbacksFresh /\ StatusTrue
  BY DEF Init, CallbacksFresh, StatusTrue
<1>4. CountKept
  BY Limits, WatchdogAssumption DEF Init, CountKept, AtMost
<1> QED
  BY <1>1, <1>2, <1>3, <1>4 DEF WatchInv

(* The pass of the watchdog's thread: the decision's state before the tick.   *)
Counted == IF hook \in {"live", "dead"} THEN drained.keys ELSE 0
Before == TakeAnswer(RawBatch(watchdog, Counted))
After == Ticked(Before, answered, drained.pending)

LEMMA PassCounts ==
    ASSUME WatchInv
    PROVE  /\ Before \in WatchdogState
           /\ Before.arrived + queued + Unit(unposted) <= MaxKeys
           /\ Before.credit <= watchdog.credit
           /\ Before.quietFor <= sinceServed
           /\ failures <= Before.attempts
           /\ After \in WatchdogState
           /\ After.arrived = 0
           /\ After.credit <= watchdog.credit + answered
           /\ After.quietFor <= sinceServed
           /\ failures <= After.attempts
<1>1. /\ watchdog \in WatchdogState /\ Counted \in Nat /\ answered \in 0 .. MaxKeys
      /\ drained.pending \in BOOLEAN /\ drained.keys \in Nat /\ queued \in Nat
      /\ sinceServed \in Nat /\ failures \in 0 .. BackoffLimit /\ Unit(unposted) \in {0, 1}
      /\ Unit(waiting) \in {0, 1} /\ MaxKeys \in Nat /\ BackoffLimit \in Nat
      /\ Counted <= drained.keys
  BY Limits, WatchdogAssumption DEF WatchInv, TypeOK, Counted, Unit
<1>2. \A w \in WatchdogState : /\ w.arrived \in Nat /\ w.credit \in Nat /\ w.quietFor \in Nat
                               /\ w.attempts \in Nat
  BY Zeros, Limits, WatchdogAssumption DEF WatchdogState
<1>3. watchdog.arrived + Counted <= MaxKeys
  BY <1>1, <1>2 DEF WatchInv, RoomKept
<1> DEFINE batch == RawBatch(watchdog, Counted)
<1>4. /\ batch \in WatchdogState
      /\ batch.arrived = watchdog.arrived + Counted /\ batch.credit <= watchdog.credit
      /\ batch.quietFor <= watchdog.quietFor /\ batch.attempts = watchdog.attempts
  BY <1>1, <1>3, RawBatchCounts
<1> HIDE DEF batch
<1>5. /\ Before \in WatchdogState
      /\ Before.arrived <= batch.arrived /\ Before.credit <= batch.credit
      /\ Before.quietFor <= batch.quietFor
      /\ Untaken => Before.quietFor = 0
      /\ Before.attempts = IF reply \in {"Reinstalled", "Failed"}
                           THEN AtMost(batch.attempts + 1, BackoffLimit) ELSE batch.attempts
  BY <1>4, TakeAnswerCounts DEF WatchInv, Before, batch
<1>6. Before.credit <= watchdog.credit
  BY <1>1, <1>2, <1>4, <1>5
<1>7. Before.credit + answered <= MaxKeys
  BY <1>1, <1>2, <1>5, <1>6 DEF WatchInv, RoomKept
<1>8. /\ After \in WatchdogState
      /\ After.arrived = 0 /\ After.credit <= Before.credit + answered
      /\ After.quietFor <= Before.quietFor
      /\ After.attempts = IF answered > 0 THEN 0 ELSE Before.attempts
  BY <1>1, <1>5, <1>7, TickedCounts DEF After
<1>9. Before.arrived + queued + Unit(unposted) <= MaxKeys
  BY <1>1, <1>2, <1>4, <1>5 DEF WatchInv, RoomKept
<1>10. Before.quietFor <= sinceServed
  BY <1>1, <1>2, <1>4, <1>5 DEF WatchInv, CountKept
<1>11. failures <= Before.attempts
  BY <1>1, <1>4, <1>5 DEF WatchInv, CountKept
<1>12. failures <= After.attempts
  BY <1>1, <1>8, <1>11 DEF WatchInv, CallbacksFresh
<1> QED
  BY <1>1, <1>2, <1>5, <1>6, <1>8, <1>9, <1>10, <1>11, <1>12

(* What a pass leaves is the decision's state before the tick or after it, or *)
(* the latter with its request or its evidence given up.                      *)
LEMMA PassLeaves ==
    ASSUME WatchInv, Pass
    PROVE  /\ watchdog' \in WatchdogState
           /\ watchdog'.quietFor <= sinceServed
           /\ failures <= watchdog'.attempts
           /\ \/ /\ watchdog'.arrived = Before.arrived
                 /\ watchdog'.credit <= watchdog.credit
                 /\ UNCHANGED <<answered, moved, attemptFailed>>
                 /\ reply' = IF reply = "asked" THEN "asked" ELSE "none"
              \/ /\ watchdog'.arrived = 0
                 /\ watchdog'.credit <= watchdog.credit + answered
                 /\ answered' = 0 /\ moved' \in BOOLEAN
                 /\ attemptFailed' = (attemptFailed /\ ~Clears(answered))
                 /\ reply' \in {"none", "asked"}
<1>1. \A w \in WatchdogState : /\ w.arrived \in Nat /\ w.credit \in Nat /\ w.quietFor \in Nat
                               /\ w.attempts \in Nat
  BY Zeros, Limits, WatchdogAssumption DEF WatchdogState
<1>2. /\ answered \in Nat /\ watchdog \in WatchdogState /\ sinceServed \in Nat /\ moved \in BOOLEAN
  BY Limits, WatchdogAssumption DEF WatchInv, TypeOK
<1>3. CASE Before.nextTick # 0
  BY <1>3, <1>1, <1>2, PassCounts DEF Pass, Before, Counted
<1>4. CASE Before.nextTick = 0
  <2>1. /\ answered' = 0
        /\ attemptFailed' = (attemptFailed /\ ~Clears(answered))
    BY <1>4 DEF Pass, Before, Counted
  <2>2. /\ watchdog' \in {After, NotSent(After), Declined(After)}
        /\ reply' \in {"none", "asked"}
        /\ moved' \in BOOLEAN
    BY <1>4, <1>2 DEF Pass, Ask, Before, Counted, After
  <2>3. \A w \in WatchdogState :
           /\ NotSent(w) \in WatchdogState /\ NotSent(w).attempts = w.attempts
           /\ NotSent(w).arrived = w.arrived /\ NotSent(w).credit = w.credit
           /\ NotSent(w).quietFor = w.quietFor
    BY DEF NotSent, WatchdogState
  <2>4. \A w \in WatchdogState :
           /\ StartOver(w) \in WatchdogState /\ StartOver(w).attempts = w.attempts
           /\ StartOver(w).arrived = 0 /\ StartOver(w).credit = 0
           /\ StartOver(w).quietFor = 0
    BY Zeros DEF StartOver, WatchdogState
  <2>5. \A w \in WatchdogState :
           /\ Declined(w) \in WatchdogState /\ Declined(w).attempts = w.attempts
           /\ Declined(w).arrived = 0 /\ Declined(w).credit = 0
           /\ Declined(w).quietFor = 0
    BY <2>3, <2>4 DEF Declined
  <2> QED
    BY <2>1, <2>2, <2>3, <2>5, <1>1, <1>2, PassCounts
<1> QED
  BY <1>3, <1>4
-----------------------------------------------------------------------------
(* Every step keeps the invariant.  Windows' steps and the main thread's move *)
(* one key event and its callback; the pass is by the lemmas above.           *)
LEMMA PassInv == WatchInv /\ Pass => WatchInv'
<1> SUFFICES ASSUME WatchInv, Pass PROVE WatchInv'
  OBVIOUS
<1>0. /\ UNCHANGED <<env, hook, waiting, unposted, queued, ended, failures, sinceServed,
                     failedQuiet>>
      /\ loop' = "wait" /\ drained' = [drained EXCEPT !.keys = 0]
      /\ armed' \in {None, watchdog'.nextTick}
      /\ wake' \in {None, wake, watchdog'.nextTick} /\ timerFailing' \in {TRUE, FALSE, timerFailing}
  BY DEF Pass, Arm, inputVars, history
<1>1. \A w \in WatchdogState : /\ w.arrived \in 0 .. MaxKeys /\ w.credit \in Nat
                               /\ w.attempts \in 0 .. BackoffLimit /\ w.nextTick \in Instant
  BY Zeros, Limits, WatchdogAssumption DEF WatchdogState
<1>2. /\ answered \in 0 .. MaxKeys /\ queued \in Nat /\ drained.keys \in Nat
      /\ failures \in 0 .. BackoffLimit /\ BackoffLimit \in Nat /\ MaxKeys \in Nat
      /\ Unit(unposted) \in {0, 1} /\ Unit(waiting) \in {0, 1}
      /\ watchdog \in WatchdogState /\ watchdog' \in WatchdogState
      /\ Before \in WatchdogState
  BY Limits, WatchdogAssumption, PassLeaves, PassCounts DEF WatchInv, TypeOK, Unit
<1>3. /\ drained' \in [keys : 0 .. MaxKeys, pending : BOOLEAN] /\ drained'.keys = 0
  BY <1>0, Zeros DEF WatchInv, TypeOK
<1>4. /\ answered' \in 0 .. MaxKeys /\ moved' \in BOOLEAN /\ attemptFailed' \in BOOLEAN
      /\ reply' \in {"none", "asked"}
  BY <1>2, PassLeaves, Zeros DEF WatchInv, TypeOK, Clears
<1>5. TypeOK'
  <2>1. armed' \in Instant /\ wake' \in Instant /\ timerFailing' \in BOOLEAN
    BY <1>0, <1>1, <1>2, Zeros DEF WatchInv, TypeOK
  <2>2. sinceServed \in 0 .. OldQuiet /\ failures \in 0 .. BackoffLimit
    BY DEF WatchInv, TypeOK
  <2> QED
    BY <1>0, <1>2, <1>3, <1>4, <2>1, <2>2 DEF WatchInv, TypeOK
<1>6. RoomKept'
  <2>1. queued + watchdog'.arrived + Unit(unposted) <= MaxKeys
    BY <1>1, <1>2, PassLeaves, PassCounts DEF WatchInv, RoomKept
  <2>2. answered' + watchdog'.credit + Unit(waiting) <= MaxKeys
    BY <1>1, <1>2, PassLeaves DEF WatchInv, RoomKept
  <2> QED
    BY <1>0, <1>1, <1>2, <1>3, <2>1, <2>2 DEF RoomKept, Unit
<1>7. CallbacksFresh'
  BY <1>0, <1>2, <1>4, PassLeaves DEF WatchInv, CallbacksFresh
<1>8. CountKept'
  BY <1>0, <1>1, <1>2, PassLeaves DEF CountKept, AtMost
<1>9. StatusTrue'
  <2>1. CASE UNCHANGED <<answered, attemptFailed>>
    BY <1>0, <2>1 DEF WatchInv, StatusTrue
  <2>2. CASE attemptFailed' = (attemptFailed /\ ~Clears(answered))
    <3>1. Clears(answered) => ~failedQuiet
      BY <1>2 DEF WatchInv, CallbacksFresh, Clears
    <3>2. ~Clears(answered) => answered = 0
      BY <1>2 DEF Clears
    <3>3. answered = 0 => ~(answered > 0)
      OBVIOUS
    <3> HIDE DEF Clears
    <3> QED  BY <1>0, <2>2, <3>1, <3>2, <3>3, Zenon DEF WatchInv, StatusTrue
  <2> QED  BY <2>1, <2>2, PassLeaves
<1> QED
  BY <1>5, <1>6, <1>7, <1>8, <1>9 DEF WatchInv

LEMMA InputInv ==
    WatchInv /\ (KeySeen \/ KeyUnseen \/ Post \/ GiveUp \/ HookRemoved \/ Install \/ Uninstall)
    => WatchInv'
<1> SUFFICES ASSUME WatchInv,
                    KeySeen \/ KeyUnseen \/ Post \/ GiveUp \/ HookRemoved \/ Install \/ Uninstall
             PROVE  WatchInv'
  OBVIOUS
<1>0. /\ UNCHANGED <<env, ended, threadVars, answered, reply, moved, attemptFailed, history>>
      /\ hook' \in {hook, "live", "dead", "removed"} /\ waiting' \in BOOLEAN
      /\ unposted' \in BOOLEAN
  BY DEF WatchInv, TypeOK, KeySeen, KeyUnseen, Post, GiveUp, HookRemoved, Install, Uninstall
<1>1. /\ answered \in Nat /\ queued \in 0 .. MaxKeys /\ drained.keys \in Nat /\ MaxKeys \in Nat
      /\ watchdog.arrived \in Nat /\ watchdog.credit \in Nat
  BY Limits, WatchdogAssumption DEF WatchInv, TypeOK, WatchdogState
<1>2. /\ queued' + drained.keys + watchdog.arrived + Unit(unposted') <= MaxKeys
      /\ answered + watchdog.credit + Unit(waiting') <= MaxKeys
      /\ queued' \in 0 .. MaxKeys
  BY <1>1 DEF WatchInv, TypeOK, RoomKept, Unit, KeySeen, KeyUnseen, Post, GiveUp, HookRemoved,
              Install, Uninstall, KeyOver, Room
<1>3. TypeOK'
  BY <1>0, <1>2 DEF WatchInv, TypeOK, threadVars, history
<1>4. RoomKept'
  BY <1>0, <1>2 DEF RoomKept, Unit, threadVars
<1>5. CallbacksFresh' /\ CountKept' /\ StatusTrue'
  BY <1>0 DEF WatchInv, CallbacksFresh, CountKept, StatusTrue, Untaken, threadVars, history
<1> QED
  BY <1>3, <1>4, <1>5 DEF WatchInv

LEMMA MainInv == WatchInv /\ (Callback \/ MainEnds \/ Serve) => WatchInv'
<1> SUFFICES ASSUME WatchInv, Callback \/ MainEnds \/ Serve PROVE WatchInv'
  OBVIOUS
<1>0. UNCHANGED <<env, queued, threadVars>> /\ hook' \in {hook, "live"}
  BY DEF Callback, MainEnds, Serve
<1>1. /\ answered \in Nat /\ queued \in 0 .. MaxKeys /\ drained.keys \in Nat /\ MaxKeys \in Nat
      /\ watchdog.arrived \in Nat /\ watchdog.credit \in Nat /\ failures \in 0 .. BackoffLimit
      /\ watchdog.attempts \in 0 .. BackoffLimit /\ BackoffLimit \in Nat
      /\ watchdog.quietFor \in Nat /\ sinceServed \in Nat
  BY Limits, WatchdogAssumption DEF WatchInv, TypeOK, WatchdogState
<1>2. CASE Callback
  <2>0. /\ answered' = answered + 1 /\ moved' /\ moved' \in BOOLEAN /\ failures' = 0 /\ failedQuiet' = FALSE
        /\ waiting /\ waiting' = FALSE /\ unposted' \in {unposted, FALSE}
        /\ UNCHANGED <<hook, ended, reply, attemptFailed, sinceServed>>
    <3>1. 1 > 0  OBVIOUS
    <3> QED  BY <1>2, <3>1 DEF Callback, Beats
  <2>1. /\ answered' + watchdog.credit <= MaxKeys /\ answered' \in 0 .. MaxKeys
        /\ unposted' \in BOOLEAN /\ Unit(unposted') <= Unit(unposted) /\ Unit(waiting') = 0
        /\ Unit(unposted) \in Nat /\ Unit(unposted') \in Nat
    <3>1. Unit(waiting) = 1 /\ Unit(waiting') = 0 /\ answered + 1 \in Nat
      BY <1>1, <2>0 DEF Unit
    <3>2. answered + watchdog.credit + 1 <= MaxKeys
      BY <3>1 DEF WatchInv, RoomKept
    <3>3. answered' + watchdog.credit <= MaxKeys /\ answered' \in 0 .. MaxKeys
      BY <1>1, <2>0, <3>2
    <3>4. unposted' \in BOOLEAN /\ (unposted' => unposted)
      <4>1. unposted \in BOOLEAN /\ (unposted' = unposted \/ unposted' = FALSE)
        BY <2>0 DEF WatchInv, TypeOK
      <4>2. CASE unposted' = unposted  BY <4>1, <4>2
      <4>3. CASE unposted' = FALSE     BY <4>3
      <4> QED  BY <4>1, <4>2, <4>3
    <3>5. /\ Unit(unposted') <= Unit(unposted)
          /\ Unit(unposted) \in Nat /\ Unit(unposted') \in Nat
      BY <3>4 DEF Unit
    <3> QED  BY <3>1, <3>3, <3>4, <3>5
  <2>2. TypeOK'
    <3>1. failures' \in 0 .. BackoffLimit
      <4>1. failures' = 0  BY <2>0
      <4> QED  BY <4>1, Zeros
    <3>2. failedQuiet' \in BOOLEAN /\ waiting' \in BOOLEAN
      BY <2>0, Zenon
    <3> QED  BY <1>0, <2>0, <2>1, <3>1, <3>2 DEF WatchInv, TypeOK, threadVars
  <2>3. RoomKept'
    BY <1>0, <1>1, <2>0, <2>1 DEF WatchInv, RoomKept, threadVars
  <2>4. CallbacksFresh' /\ CountKept' /\ StatusTrue'
    BY <1>0, <1>1, <2>0
       DEF WatchInv, CallbacksFresh, CountKept, StatusTrue, Untaken, threadVars, AtMost
  <2> QED  BY <2>2, <2>3, <2>4 DEF WatchInv
<1>3. CASE MainEnds
  <2>0. /\ ended' = TRUE /\ waiting' = FALSE
        /\ reply' = IF reply = "asked" THEN "dropped" ELSE reply
        /\ UNCHANGED <<hook, unposted, answered, moved, attemptFailed, history>>
    BY <1>3 DEF MainEnds
  <2>1. TypeOK'
    BY <1>0, <2>0 DEF WatchInv, TypeOK, threadVars, history
  <2>2. RoomKept'
    BY <1>0, <1>1, <2>0 DEF WatchInv, TypeOK, RoomKept, Unit, threadVars
  <2>3. CallbacksFresh' /\ CountKept' /\ StatusTrue'
    BY <1>0, <2>0
       DEF WatchInv, CallbacksFresh, CountKept, StatusTrue, Untaken, Outcome, threadVars, history
  <2> QED  BY <2>1, <2>2, <2>3 DEF WatchInv
<1>4. CASE Serve
  <2> DEFINE answers == IF waiting THEN 1 ELSE 0
             more    == AtMost(failures + 1, BackoffLimit)
  <2>0. /\ reply = "asked" /\ sinceServed' = 0 /\ waiting' = FALSE
        /\ reply' \in Outcome /\ UNCHANGED <<unposted, ended>>
    BY <1>4 DEF Serve, Outcome
  <2>1. answers \in {0, 1} /\ answers = Unit(waiting)
    BY DEF Unit
  <2>2. \/ /\ moved \/ answers > 0
           /\ reply' = "Alive" /\ UNCHANGED <<hook, attemptFailed>> /\ Beats(answers)
           /\ failedQuiet' = (failedQuiet /\ ~waiting)
        \/ /\ ~moved /\ answers = 0
           /\ UNCHANGED <<answered, moved>>
           /\ \/ reply' = "NotInstalled" /\ UNCHANGED <<hook, attemptFailed, failures, failedQuiet>>
              \/ /\ reply' = "Reinstalled" /\ hook' = "live" /\ attemptFailed' = FALSE
                 /\ failures' = more /\ failedQuiet' = FALSE
              \/ /\ reply' = "Failed" /\ UNCHANGED hook /\ attemptFailed' = TRUE
                 /\ failures' = more /\ failedQuiet' = TRUE
    BY <1>4, <2>1 DEF Serve, Heard
  <2> HIDE DEF answers
  <2>3. more \in 0 .. BackoffLimit /\ more <= AtMost(watchdog.attempts + 1, BackoffLimit)
    BY <1>1, <2>0 DEF WatchInv, CountKept, AtMost
  <2> HIDE DEF more
  <2>4. /\ answered' \in 0 .. MaxKeys /\ answered' + watchdog.credit <= MaxKeys
        /\ moved' \in BOOLEAN /\ failures' \in 0 .. BackoffLimit
        /\ failedQuiet' \in BOOLEAN /\ attemptFailed' \in BOOLEAN
    <3>1. /\ answered' \in {answered, answered + answers} /\ moved' \in BOOLEAN
          /\ failures' \in {failures, 0, more}
          /\ failedQuiet' \in BOOLEAN /\ attemptFailed' \in BOOLEAN
      BY <2>2 DEF WatchInv, TypeOK, Beats
    <3> QED  BY <1>1, <2>1, <2>3, <3>1 DEF WatchInv, TypeOK, RoomKept
  <2>5. TypeOK'
    BY <1>0, <1>1, <2>0, <2>4, Zeros, Limits DEF WatchInv, TypeOK, threadVars
  <2>6. RoomKept'
    BY <1>0, <1>1, <2>0, <2>4 DEF WatchInv, RoomKept, Unit, threadVars
  <2>7. CallbacksFresh'
    <3>1. reply' # "asked"  BY <2>0 DEF Outcome
    <3>2. CASE ~moved /\ answers = 0 /\ UNCHANGED <<answered, moved>>
      BY <1>1, <2>0, <3>1, <3>2 DEF WatchInv, CallbacksFresh
    <3>3. CASE Beats(answers) /\ failedQuiet' = (failedQuiet /\ ~waiting)
      <4>1. waiting => answers = 1  BY <2>1 DEF Unit
      <4>2. ~waiting => answers = 0  BY <2>1 DEF Unit
      <4>3. CASE waiting
        <5>1. answers > 0  BY <4>1, <4>3
        <5> QED  BY <3>1, <3>3, <4>3, <5>1 DEF CallbacksFresh, Beats
      <4>4. CASE ~waiting
        <5>1. ~(answers > 0) /\ answered + answers = answered  BY <1>1, <4>2, <4>4
        <5> QED  BY <3>1, <3>3, <5>1 DEF WatchInv, CallbacksFresh, Beats
      <4> QED  BY <4>3, <4>4
    <3> QED  BY <2>2, <3>2, <3>3
  <2>8. CountKept'
    <3>1. watchdog' = watchdog  BY <1>0 DEF threadVars
    <3>2. failures' <= AtMost(watchdog.attempts + 1, BackoffLimit)
      BY <1>1, <2>2, <2>3 DEF WatchInv, CountKept, Beats, AtMost
    <3>3. failures' <= watchdog.attempts \/ reply' \in {"Reinstalled", "Failed"}
      BY <1>1, <2>0, <2>2 DEF WatchInv, CountKept, Beats
    <3> QED  BY <2>0, <3>1, <3>2, <3>3 DEF CountKept, Untaken
  <2>9. StatusTrue'
    BY <1>1, <2>0, <2>1, <2>2 DEF WatchInv, StatusTrue, CallbacksFresh, TypeOK, Beats, Unit
  <2> QED  BY <2>5, <2>6, <2>7, <2>8, <2>9 DEF WatchInv
<1> QED
  BY <1>2, <1>3, <1>4

LEMMA ThreadInv == WatchInv /\ (WokenDrain \/ MessageDrain \/ Tick) => WatchInv'
<1> SUFFICES ASSUME WatchInv, DrainRaw \/ Tick PROVE WatchInv'
  BY DEF WokenDrain, MessageDrain
<1>1. /\ answered \in Nat /\ queued \in 0 .. MaxKeys /\ drained.keys \in Nat /\ MaxKeys \in Nat
      /\ watchdog.arrived \in Nat /\ watchdog.credit \in Nat /\ watchdog.quietFor \in 0 .. OldQuiet
      /\ sinceServed \in 0 .. OldQuiet /\ OldQuiet \in Nat /\ OldRaw \in Nat /\ None \notin Nat
      /\ watchdog.rawAge \in (0 .. OldRaw) \cup {None} /\ watchdog.nextTick \in Instant
  BY Limits, WatchdogAssumption DEF WatchInv, TypeOK, WatchdogState
<1>2. CASE DrainRaw
  <2>1. PICK keys \in 0 .. queued, pending \in BOOLEAN :
             drained' = [keys |-> keys, pending |-> pending] /\ queued' = queued - keys
    BY <1>2 DEF DrainRaw
  <2>2. /\ loop' = "pass" /\ armed' \in {armed, None} /\ wake' \in {wake, None}
        /\ UNCHANGED <<env, hook, waiting, unposted, ended, watchdog, answered, reply,
                       moved, attemptFailed, timerFailing, history>>
    BY <1>2 DEF DrainRaw
  <2>3. TypeOK'
    BY <1>1, <2>1, <2>2, Zeros DEF WatchInv, TypeOK, history
  <2>4. RoomKept'
    BY <1>1, <2>1, <2>2 DEF WatchInv, TypeOK, RoomKept, Unit, CountKept
  <2>5. CallbacksFresh' /\ CountKept' /\ StatusTrue'
    BY <2>2 DEF WatchInv, CallbacksFresh, CountKept, StatusTrue, Untaken, history
  <2> QED  BY <2>3, <2>4, <2>5 DEF WatchInv
<1>3. CASE Tick
  <2> DEFINE quiet == AtMost(watchdog.quietFor + 1, OldQuiet)
             raw   == IF watchdog.rawAge = None THEN None
                      ELSE AtMost(watchdog.rawAge + 1, OldRaw)
             next  == Sooner(watchdog.nextTick)
  <2>0. /\ watchdog' = [watchdog EXCEPT !.quietFor = quiet, !.rawAge = raw, !.nextTick = next]
        /\ armed' = Sooner(armed) /\ wake' = Sooner(wake)
        /\ sinceServed' = AtMost(sinceServed + 1, OldQuiet)
        /\ UNCHANGED <<env, inputVars, ended, answered, loop, drained, reply, moved,
                       attemptFailed, timerFailing, failures, failedQuiet>>
    BY <1>3, <1>1 DEF Tick, WatchInv, TypeOK, WatchdogState
  <2>1. /\ quiet \in 0 .. OldQuiet /\ raw \in (0 .. OldRaw) \cup {None} /\ next \in Instant
        /\ sinceServed' \in 0 .. OldQuiet /\ armed' \in Instant /\ wake' \in Instant
    BY <1>1, <2>0 DEF AtMost, Sooner, Instant, WatchInv, TypeOK
  <2> HIDE DEF quiet, raw, next
  <2>2. /\ watchdog' \in WatchdogState /\ watchdog'.quietFor = quiet
        /\ watchdog'.arrived = watchdog.arrived /\ watchdog'.credit = watchdog.credit
        /\ watchdog'.attempts = watchdog.attempts
    BY <2>0, <2>1 DEF WatchInv, TypeOK, WatchdogState
  <2>3. TypeOK'
    BY <2>0, <2>1, <2>2 DEF WatchInv, TypeOK, inputVars
  <2>4. RoomKept'
    BY <2>0, <2>2 DEF WatchInv, RoomKept, Unit, inputVars
  <2>5. CallbacksFresh' /\ StatusTrue'
    BY <2>0 DEF WatchInv, CallbacksFresh, StatusTrue
  <2>6. watchdog.quietFor <= sinceServed => quiet <= sinceServed'
    BY <1>1, <2>0 DEF quiet, AtMost
  <2>7. CountKept'
    BY <2>0, <2>2, <2>6 DEF WatchInv, CountKept, Untaken
  <2> QED  BY <2>3, <2>4, <2>5, <2>7 DEF WatchInv
<1> QED
  BY <1>2, <1>3

LEMMA StepInv == WatchInv /\ [Next]_vars => WatchInv'
<1>1. WatchInv /\ Next => WatchInv'
  BY PassInv, InputInv, MainInv, ThreadInv DEF Next
<1>2. WatchInv /\ UNCHANGED vars => WatchInv'
  BY DEF vars, WatchInv, TypeOK, RoomKept, CallbacksFresh, CountKept, StatusTrue, Unit, Untaken
<1> QED
  BY <1>1, <1>2

LEMMA WatchInvariant == Spec => []WatchInv
BY InitInv, StepInv, PTL DEF Spec
-----------------------------------------------------------------------------
(* The watchdog's state has its types: its counts stay within the key events  *)
(* that Windows has not finished with (Watchdog::tick, HealthState).          *)
THEOREM TypesKept == Spec => []TypeOK
BY WatchInvariant, PTL DEF WatchInv

(* What `swch status` says of a failed attempt is true, whatever the order of *)
(* callbacks, ticks and requests (HealthState::hook_answered,                 *)
(* reinstall_if_silent).                                                      *)
THEOREM StatusIsTrue == Spec => []StatusTrue
BY WatchInvariant, PTL DEF WatchInv

(* What a pass decides, its counts decide: they have seen no more quiet than   *)
(* there was, and no fewer attempts.                                          *)
LEMMA AskWaits == WatchInv /\ [Next]_vars => AskedInTime
<1> SUFFICES ASSUME WatchInv, [Next]_vars, reply # "asked", reply' = "asked"
             PROVE  sinceServed >= Silence * 2 ^ failures
  BY DEF AskedInTime
<1>1. Pass
  BY DEF Next, vars, KeySeen, KeyUnseen, Post, Callback, GiveUp, HookRemoved, Install, Uninstall,
         MainEnds, Serve, WokenDrain, MessageDrain, DrainRaw, Tick
<1>2. Decides(Before, answered)
  BY <1>1 DEF Pass, Before, Counted
<1>3. /\ Before \in WatchdogState /\ Before.quietFor <= sinceServed
      /\ failures <= Before.attempts
  BY PassCounts
<1>4. Before.attempts \in 0 .. BackoffLimit /\ failures \in 0 .. Before.attempts
  BY <1>3, WatchdogAssumption DEF WatchdogState, WatchInv, TypeOK
<1>5. /\ Before.quietFor \in Nat /\ sinceServed \in Nat /\ Window(Before.attempts) \in Nat
      /\ 2 ^ failures \in Nat
  BY <1>3, <1>4, Limits, WatchdogAssumption DEF WatchdogState, WatchInv, TypeOK
<1>6. Silence * 2 ^ failures <= Window(Before.attempts)
  BY <1>4, WindowGrows
<1>7. Silence * 2 ^ failures \in Nat
  BY <1>5, WatchdogAssumption
<1> QED
  BY <1>2, <1>3, <1>5, <1>6, <1>7 DEF Decides

(* A request of the watchdog comes a whole window after the main thread served*)
(* the one before, with a window that doubled at each attempt since the last  *)
(* callback (Watchdog::tick, Ticker::ask).                                    *)
THEOREM RequestsSpaced == Spec => SpacedOut
BY WatchInvariant, AskWaits, PTL DEF Spec, SpacedOut
-----------------------------------------------------------------------------
(* A live hook is kept.  Each raw event is of a key event that the hook is    *)
(* called for, so that callbacks explain it, but for one that is posted       *)
(* between the last drain before the ticks stop and the heartbeat.            *)
Left == queued + Unit(unposted)
Spare(w) == IF w.nextTick = None THEN 0 ELSE w.credit

(* Raw events that no callback explains are fewer than a request needs, when  *)
(* a call that waits is counted.                                              *)
Explains(w, raw, callbacks) ==
    w.evidence + w.arrived + raw <= Spare(w) + callbacks + Unit(waiting) + 1

(* A drain that read all there was: since then Windows posted what was left   *)
(* of one key event, and of one more whose call waits.  The former was called *)
(* for since the last tick.                                                   *)
Drained ==
    /\ loop = "pass" /\ ~drained.pending =>
         /\ Left <= 1 + Unit(waiting)
         /\ watchdog.nextTick = 0 /\ answered = 0 => Left <= Unit(waiting)
    /\ loop = "pass" /\ drained.pending => drained.keys > 0
    /\ watchdog.nextTick = 0 /\ answered = 0 /\ unposted => waiting

(* Without raw input left in the queue no credit outlives a tick, so that an  *)
(* answer has none to drop.                                                   *)
Lapses ==
    "backlog" \notin env =>
        ~drained.pending /\ (watchdog.credit > 0 => watchdog.evidence = 0)

(* With a main thread that runs its calls within a TICK nothing is ever asked.*)
Quick ==
    "busy" \notin env =>
        /\ reply = "none"
        /\ watchdog.evidence <= 1 + answered + Unit(waiting)
        /\ watchdog.nextTick = 0 => watchdog.evidence <= 1 + answered

LiveInv ==
    /\ hook # "dead"
    /\ hook = "none" =>
         /\ Left = 0 /\ drained = [keys |-> 0, pending |-> FALSE] /\ answered = 0
         /\ ~unposted /\ ~waiting /\ reply = "none"
         /\ watchdog.evidence = 0 /\ watchdog.credit = 0 /\ watchdog.arrived = 0
         /\ watchdog.nextTick = None
    /\ hook = "live" /\ ~ended =>
         /\ Explains(watchdog, drained.keys + Left, answered)
         /\ Drained /\ Lapses /\ Quick
         /\ reply = "asked" => waiting \/ moved

(* What a theorem on live hooks asks of the environments: a hook is not       *)
(* removed, each key event has its call, the thread is not held up between a  *)
(* drain and the heartbeat, and a busy main thread and raw input left in the  *)
(* queue do not come together.  And of the thresholds: that one unexplained   *)
(* event is no evidence, and an event keeps the ticks going.                  *)
LiveApart ==
    \A e \in Environments :
        /\ e \cap {"hidden", "giveup", "remove", "held"} = {}
        /\ ~({"busy", "backlog"} \subseteq e)

Thresholds == MinEvidence >= 2 /\ ActiveFor >= 1

Hears == hook = "live" /\ ~ended

(* What the proofs use of the environment and of the types.                   *)
LEMMA LiveTypes ==
    ASSUME WatchInv, LiveApart
    PROVE  /\ "hidden" \notin env /\ "giveup" \notin env /\ "remove" \notin env /\ "held" \notin env
           /\ "busy" \notin env \/ "backlog" \notin env
           /\ queued \in Nat /\ answered \in Nat /\ drained.keys \in Nat
           /\ drained \in [keys : 0 .. MaxKeys, pending : BOOLEAN] /\ drained.pending \in BOOLEAN
           /\ Unit(unposted) \in {0, 1} /\ Unit(waiting) \in {0, 1} /\ Left \in Nat
           /\ unposted \in BOOLEAN /\ waiting \in BOOLEAN
           /\ watchdog \in WatchdogState
           /\ \A w \in WatchdogState : /\ w.evidence \in Nat /\ w.arrived \in Nat
                                       /\ w.credit \in Nat /\ Spare(w) \in Nat
                                       /\ w.nextTick \in {0, 1, None}
           /\ None \notin Nat /\ MaxKeys \in Nat
<1>1. env \in Environments
  BY DEF WatchInv, TypeOK
<1>2. \A w \in WatchdogState : /\ w.evidence \in Nat /\ w.arrived \in Nat
                               /\ w.credit \in Nat /\ Spare(w) \in Nat
                               /\ w.nextTick \in {0, 1, None}
  BY Limits, WatchdogAssumption DEF WatchdogState, Spare, Instant
<1>3. Unit(unposted) \in {0, 1} /\ Unit(waiting) \in {0, 1}
  BY DEF Unit
<1>4. /\ queued \in Nat /\ answered \in Nat /\ drained.keys \in Nat
      /\ drained \in [keys : 0 .. MaxKeys, pending : BOOLEAN] /\ drained.pending \in BOOLEAN
      /\ unposted \in BOOLEAN /\ waiting \in BOOLEAN /\ watchdog \in WatchdogState
      /\ None \notin Nat /\ MaxKeys \in Nat
  BY WatchdogAssumption DEF WatchInv, TypeOK
<1>5. Left \in Nat
  BY <1>3, <1>4 DEF Left
<1> QED
  BY <1>1, <1>2, <1>3, <1>4, <1>5 DEF LiveApart

(* The part of them that is arithmetic.                                       *)
LEMMA LiveCounts ==
    ASSUME WatchInv, LiveApart
    PROVE  /\ watchdog.evidence \in Nat /\ watchdog.arrived \in Nat
           /\ watchdog.credit \in Nat /\ Spare(watchdog) \in Nat
           /\ watchdog.nextTick \in {0, 1, None}
           /\ queued \in Nat /\ answered \in Nat /\ drained.keys \in Nat /\ Left \in Nat
           /\ Unit(unposted) \in Nat /\ Unit(waiting) \in Nat
BY LiveTypes

(* No hook is installed at the start, and nothing is counted.                 *)
LEMMA LiveInit == Init => LiveInv
BY DEF Init, LiveInv, Left, Unit

(* Windows' steps.  A key event waits for its call and has its raw input to   *)
(* come; to queue it changes nothing that counts.                             *)
LEMMA LiveInput ==
    WatchInv /\ LiveApart /\ LiveInv
    /\ (KeySeen \/ KeyUnseen \/ Post \/ GiveUp \/ HookRemoved \/ Install \/ Uninstall)
    => LiveInv'
<1> SUFFICES ASSUME WatchInv, LiveApart, LiveInv,
                    KeySeen \/ KeyUnseen \/ Post \/ GiveUp \/ HookRemoved \/ Install \/ Uninstall
             PROVE  LiveInv'
  OBVIOUS
<1>0. UNCHANGED <<env, ended, watchdog, loop, drained, answered, reply, moved>>
  BY DEF KeySeen, KeyUnseen, Post, GiveUp, HookRemoved, Install, Uninstall, threadVars
<1>1. ~KeyUnseen /\ ~GiveUp /\ ~HookRemoved
  BY LiveTypes DEF KeyUnseen, GiveUp, HookRemoved, LiveInv
<1>2. CASE Install
  <2>1. hook = "none" /\ hook' = "live" /\ UNCHANGED <<queued, unposted, waiting>>
    BY <1>2 DEF Install
  <2>2. /\ Left' = 0 /\ drained' = [keys |-> 0, pending |-> FALSE] /\ answered' = 0
        /\ ~unposted' /\ ~waiting' /\ reply' = "none" /\ watchdog'.evidence = 0
        /\ watchdog'.credit = 0 /\ watchdog'.arrived = 0 /\ watchdog'.nextTick = None
    BY <1>0, <2>1 DEF LiveInv, Left, Unit
  <2>3. Explains(watchdog, drained.keys + Left, answered)'
    BY <2>2 DEF Explains, Spare, Unit
  <2>4. Drained' /\ Lapses' /\ Quick'
    BY <2>2, LiveTypes DEF Drained, Lapses, Quick, Unit
  <2> QED  BY <2>1, <2>2, <2>3, <2>4 DEF LiveInv
<1>3. CASE Uninstall
  BY <1>3 DEF Uninstall, LiveInv
<1>4. CASE KeySeen
  <2>1. /\ hook = "live" /\ hook' = "live" /\ ~waiting /\ ~unposted /\ waiting' /\ unposted'
        /\ queued' = queued
    BY <1>4 DEF KeySeen, KeyOver
  <2>2. /\ Unit(waiting) = 0 /\ Unit(unposted) = 0 /\ Unit(waiting') = 1 /\ Unit(unposted') = 1
        /\ Left = queued /\ Left' = queued + 1
    BY <2>1, LiveTypes DEF Unit, Left
  <2> SUFFICES ASSUME ~ended
               PROVE  /\ Explains(watchdog, drained.keys + Left, answered)'
                      /\ Drained' /\ Lapses' /\ Quick'
    BY <1>0, <2>1 DEF LiveInv
  <2>3. Explains(watchdog, drained.keys + Left, answered) /\ Drained /\ Lapses /\ Quick
    BY <2>1 DEF LiveInv
  <2>4. Explains(watchdog, drained.keys + Left, answered)'
    BY <1>0, <2>2, <2>3, LiveTypes DEF Explains, Spare
  <2>5. Drained'
    <3>1. loop = "pass" /\ ~drained.pending =>
            /\ Left' <= 1 + Unit(waiting')
            /\ watchdog.nextTick = 0 /\ answered = 0 => Left' <= Unit(waiting')
      BY <2>2, <2>3, LiveCounts DEF Drained
    <3> QED  BY <1>0, <2>1, <2>3, <3>1 DEF Drained
  <2>6. Lapses'
    BY <1>0, <2>3 DEF Lapses
  <2>7. Quick'
    BY <1>0, <2>2, <2>3, LiveCounts DEF Quick
  <2> QED  BY <2>4, <2>5, <2>6, <2>7
<1>5. CASE Post
  <2>1. unposted /\ ~unposted' /\ queued' = queued + 1 /\ UNCHANGED <<hook, waiting>>
    BY <1>5 DEF Post
  <2>2. Left' = Left /\ Unit(waiting') = Unit(waiting)
    BY <2>1, LiveTypes DEF Unit, Left
  <2> SUFFICES ASSUME hook = "live", ~ended
               PROVE  /\ Explains(watchdog, drained.keys + Left, answered)'
                      /\ Drained' /\ Lapses' /\ Quick'
    BY <1>0, <2>1 DEF LiveInv
  <2>3. Explains(watchdog, drained.keys + Left, answered) /\ Drained /\ Lapses /\ Quick
    BY DEF LiveInv
  <2> QED
    BY <1>0, <2>1, <2>2, <2>3 DEF Explains, Spare, Drained, Lapses, Quick
<1> QED
  BY <1>1, <1>2, <1>3, <1>4, <1>5

(* The main thread's steps.  A call is one that waited; a request is answered *)
(* by a call that waits, or one since it was sent.                            *)
LEMMA LiveMain ==
    WatchInv /\ LiveApart /\ LiveInv /\ (Callback \/ MainEnds \/ Serve) => LiveInv'
<1> SUFFICES ASSUME WatchInv, LiveApart, LiveInv, Callback \/ MainEnds \/ Serve
             PROVE  LiveInv'
  OBVIOUS
<1>0. UNCHANGED <<env, queued, watchdog, loop, drained>>
  BY DEF Callback, MainEnds, Serve, threadVars
<1>1. CASE MainEnds
  <2>1. /\ ended' /\ waiting' = FALSE /\ UNCHANGED <<hook, unposted, answered>>
        /\ reply' = IF reply = "asked" THEN "dropped" ELSE reply
    BY <1>1 DEF MainEnds
  <2> QED  BY <1>0, <2>1 DEF LiveInv, Left, Unit
<1>2. CASE Callback
  <2>1. /\ waiting /\ waiting' = FALSE /\ ~ended /\ loop = "wait"
        /\ unposted' \in {unposted, FALSE} /\ answered' = answered + 1 /\ moved'
        /\ UNCHANGED <<hook, ended, reply>>
    <3>1. 1 > 0  OBVIOUS
    <3> QED  BY <1>2, <3>1, LiveTypes DEF Callback, Beats, NotBetween
  <2>2. /\ Unit(waiting) = 1 /\ Unit(waiting') = 0 /\ Left' \in Nat /\ Left' <= Left
    <3>1. Unit(waiting) = 1 /\ Unit(waiting') = 0
      BY <2>1 DEF Unit
    <3>2. Unit(unposted') \in Nat /\ Unit(unposted') <= Unit(unposted)
      <4>1. CASE unposted' = unposted  BY <4>1, LiveCounts
      <4>2. CASE unposted' = FALSE     BY <4>2, LiveCounts DEF Unit
      <4> QED  BY <2>1, <4>1, <4>2
    <3> QED  BY <1>0, <3>1, <3>2, LiveCounts DEF Left
  <2>8. answered' = answered + 1 /\ UNCHANGED <<reply, env, watchdog, drained>>
    BY <1>0, <2>1
  <2> SUFFICES ASSUME hook = "live"
               PROVE  /\ Explains(watchdog, drained.keys + Left, answered)'
                      /\ Drained' /\ Lapses' /\ Quick'
    BY <2>1 DEF LiveInv
  <2>3. Explains(watchdog, drained.keys + Left, answered) /\ Drained /\ Lapses /\ Quick
    BY <2>1 DEF LiveInv
  <2>4. Explains(watchdog, drained.keys + Left, answered)'
    BY <2>2, <2>3, <2>8, LiveCounts DEF Explains, Spare
  <2>5. Drained'
    <3>1. loop' # "pass" /\ answered' # 0
      BY <1>0, <2>1, LiveCounts
    <3> QED  BY <3>1 DEF Drained
  <2>6. Lapses'
    BY <1>0, <2>3 DEF Lapses
  <2>7. Quick'
    BY <2>2, <2>3, <2>8, LiveCounts DEF Quick
  <2> QED  BY <2>4, <2>5, <2>6, <2>7
<1>3. CASE Serve
  <2>1. /\ reply = "asked" /\ ~ended /\ waiting' = FALSE /\ UNCHANGED <<unposted, ended>>
        /\ waiting => loop = "wait"
    BY <1>3, LiveTypes DEF Serve, NotBetween
  <2>2. CASE hook # "live"
    <3>1. UNCHANGED hook
      BY <1>3, <2>2 DEF Serve, LiveInv
    <3> QED  BY <2>1, <2>2, <3>1 DEF LiveInv
  <2>3. CASE hook = "live"
    <3>1. Explains(watchdog, drained.keys + Left, answered) /\ Drained /\ Lapses /\ Quick
      BY <2>1, <2>3 DEF LiveInv
    <3>2. waiting \/ moved
      BY <2>1, <2>3 DEF LiveInv
    <3>3. /\ UNCHANGED hook /\ reply' = "Alive"
          /\ Beats(IF waiting THEN 1 ELSE 0)
      BY <1>3, <2>3, <3>2 DEF Serve, Heard
    <3>4. answered' = answered + Unit(waiting) /\ Unit(waiting') = 0 /\ Left' = Left
      BY <1>0, <2>1, <3>3 DEF Beats, Unit, Left
    <3>5. "busy" \in env
      BY <2>1, <3>1 DEF Quick
    <3>6. Explains(watchdog, drained.keys + Left, answered)'
      BY <1>0, <3>1, <3>4, LiveTypes DEF Explains, Spare
    <3>7. Drained'
      <4>1. CASE waiting
        <5>1. loop' # "pass" /\ answered' # 0
          BY <1>0, <2>1, <3>4, <4>1, LiveCounts DEF Unit
        <5> QED  BY <5>1 DEF Drained
      <4>2. CASE ~waiting
        <5>1. UNCHANGED <<waiting, unposted>>
          BY <2>1, <4>2, LiveTypes
        <5>2. Unit(waiting) = 0
          BY <4>2 DEF Unit
        <5>3. UNCHANGED answered
          BY <3>4, <5>2, LiveCounts
        <5> QED  BY <1>0, <3>1, <3>4, <5>1, <5>3 DEF Drained
      <4> QED  BY <4>1, <4>2
    <3>8. Lapses' /\ Quick'
      BY <1>0, <3>1, <3>5 DEF Lapses, Quick
    <3> QED  BY <2>1, <2>3, <3>3, <3>6, <3>7, <3>8 DEF LiveInv
  <2> QED  BY <2>2, <2>3
<1> QED
  BY <1>1, <1>2, <1>3

(* A drain moves raw events; before a TICK is over, a call that waits has run,*)
(* or the main thread is busy.                                                *)
LEMMA LiveThread ==
    WatchInv /\ LiveApart /\ LiveInv /\ (WokenDrain \/ MessageDrain \/ Tick) => LiveInv'
<1> SUFFICES ASSUME WatchInv, LiveApart, LiveInv, DrainRaw \/ Tick PROVE LiveInv'
  BY DEF WokenDrain, MessageDrain
<1>1. UNCHANGED <<env, hook, waiting, unposted, ended, answered, reply, moved>>
  BY DEF DrainRaw, Tick, inputVars
<1>2. CASE DrainRaw
  <2>1. PICK keys \in 0 .. queued, pending \in BOOLEAN :
             /\ keys < queued => pending
             /\ pending => "backlog" \in env /\ (keys > 0 \/ "held" \in env)
             /\ drained' = [keys |-> keys, pending |-> pending] /\ queued' = queued - keys
    BY <1>2 DEF DrainRaw
  <2>2. UNCHANGED watchdog /\ loop' = "pass"
    BY <1>2 DEF DrainRaw
  <2>3. CASE hook = "none"
    <3>1. queued = 0 /\ keys = 0
      BY <2>3, LiveTypes DEF LiveInv, Left
    <3>2. pending = FALSE
      BY <2>1, <3>1, LiveTypes
    <3>3. queued' = 0 /\ drained' = [keys |-> 0, pending |-> FALSE]
      <4>1. queued' = queued - keys /\ drained' = [keys |-> keys, pending |-> pending]
        BY <2>1
      <4>2. queued' = 0
        BY <3>1, <4>1
      <4>3. drained' = [keys |-> 0, pending |-> FALSE]
        BY <3>1, <3>2, <4>1, Zenon
      <4> QED  BY <4>2, <4>3
    <3> QED  BY <1>1, <2>2, <2>3, <3>1, <3>3 DEF LiveInv, Left
  <2>4. CASE hook = "live" /\ ~ended
    <3>1. Explains(watchdog, drained.keys + Left, answered) /\ Drained /\ Lapses /\ Quick
      BY <2>4 DEF LiveInv
    <3>2. /\ drained'.keys + Left' = Left /\ drained'.keys = keys /\ drained'.pending = pending
          /\ ~pending => queued' = 0
      BY <1>1, <2>1, LiveTypes DEF Left, Unit
    <3>3. Explains(watchdog, drained.keys + Left, answered)'
      BY <1>1, <2>2, <3>1, <3>2, LiveTypes DEF Explains, Spare
    <3>4. Drained'
      <4>1. ~pending => Left' = Unit(unposted)
        BY <1>1, <3>2, LiveTypes DEF Left
      <4>2. unposted /\ watchdog.nextTick = 0 /\ answered = 0 => waiting
        BY <3>1 DEF Drained
      <4>3. ~pending => /\ Left' <= 1 + Unit(waiting')
                        /\ watchdog'.nextTick = 0 /\ answered' = 0 => Left' <= Unit(waiting')
        BY <1>1, <2>2, <4>1, <4>2 DEF Unit
      <4>4. pending => drained'.keys > 0
        BY <2>1, <3>2, LiveTypes
      <4> QED  BY <1>1, <2>2, <3>2, <4>2, <4>3, <4>4 DEF Drained
    <3>5. Lapses' /\ Quick'
      BY <1>1, <2>1, <2>2, <3>1, <3>2 DEF Lapses, Quick
    <3> QED  BY <1>1, <2>4, <3>3, <3>4, <3>5 DEF LiveInv
  <2> QED  BY <1>1, <2>3, <2>4 DEF LiveInv
<1>3. CASE Tick
  <2>1. /\ loop = "wait" /\ UNCHANGED <<queued, loop, drained>>
        /\ unposted => waiting
        /\ "busy" \notin env => ~waiting
    BY <1>3 DEF Tick, inputVars
  <2>2. /\ watchdog'.evidence = watchdog.evidence /\ watchdog'.arrived = watchdog.arrived
        /\ watchdog'.credit = watchdog.credit
        /\ watchdog'.nextTick = Sooner(watchdog.nextTick)
    BY <1>3, LiveTypes DEF Tick, WatchdogState
  <2>3. Sooner(None) = None /\ (watchdog.nextTick # None => Sooner(watchdog.nextTick) # None)
    BY LiveTypes DEF Sooner
  <2>4. CASE hook = "none"
    BY <1>1, <2>1, <2>2, <2>3, <2>4 DEF LiveInv, Left
  <2>5. CASE hook = "live" /\ ~ended
    <3>1. Explains(watchdog, drained.keys + Left, answered) /\ Drained /\ Lapses /\ Quick
      BY <2>5 DEF LiveInv
    <3>2. Spare(watchdog') = Spare(watchdog) /\ Left' = Left
      BY <1>1, <2>1, <2>2, <2>3 DEF Spare, Left
    <3>3. Explains(watchdog, drained.keys + Left, answered)'
      BY <1>1, <2>1, <2>2, <3>1, <3>2 DEF Explains
    <3>4. Drained'
      BY <1>1, <2>1 DEF Drained
    <3>5. Lapses'
      BY <1>1, <2>1, <2>2, <3>1 DEF Lapses
    <3>6. Quick'
      <4>1. ~waiting => Unit(waiting) = 0
        BY DEF Unit
      <4> QED  BY <1>1, <2>1, <2>2, <3>1, <4>1, LiveTypes DEF Quick
    <3> QED  BY <1>1, <2>5, <3>3, <3>4, <3>5, <3>6 DEF LiveInv
  <2> QED  BY <1>1, <2>4, <2>5 DEF LiveInv
<1> QED
  BY <1>2, <1>3

(* The pass, up to the tick: what was drained is counted; the first batch     *)
(* after idle drops a credit that no longer counts.                           *)
LEMMA LiveBatch ==
    ASSUME WatchInv, LiveApart, LiveInv, Hears, loop = "pass"
    PROVE  LET b == RawBatch(watchdog, drained.keys)
           IN  /\ b \in WatchdogState
               /\ Explains(b, Left, answered)
               /\ b.evidence = watchdog.evidence
               /\ b.credit > 0 => watchdog.credit > 0
               /\ b.nextTick = 0 => watchdog.nextTick = 0
               /\ drained.keys > 0 => b.rawAge = 0
<1> DEFINE k == drained.keys
           w == watchdog
           counted == [w EXCEPT !.arrived = @ + k, !.rawAge = 0]
           first   == [counted EXCEPT !.nextTick = 1, !.quietFor = 0, !.credit = 0]
<1>0. /\ w \in WatchdogState /\ k \in Nat /\ None \notin Nat
      /\ w.evidence \in Nat /\ w.arrived \in Nat /\ w.credit \in Nat /\ Spare(w) \in Nat
      /\ Left \in Nat /\ answered \in Nat /\ Unit(waiting) \in Nat
  BY LiveTypes
<1>1. w.evidence + w.arrived + (k + Left) <= Spare(w) + answered + Unit(waiting) + 1
  BY DEF LiveInv, Hears, Explains
<1>2. w.arrived + k <= MaxKeys /\ Counted = k
  <2>1. Counted = k
    BY DEF Counted, Hears
  <2>2. queued \in Nat /\ Unit(unposted) \in Nat /\ MaxKeys \in Nat
    BY LiveTypes
  <2> QED  BY <1>0, <2>1, <2>2 DEF WatchInv, RoomKept
<1>3. RawBatch(w, k) \in WatchdogState
  BY <1>0, <1>2, RawBatchCounts
<1>4. CASE k = 0
  <2>1. RawBatch(w, k) = w
    BY <1>4 DEF RawBatch
  <2> HIDE DEF k, w
  <2>2. w.evidence + w.arrived + Left <= Spare(w) + answered + Unit(waiting) + 1
    BY <1>0, <1>1, <1>4
  <2> QED  BY <1>0, <1>4, <2>1, <2>2 DEF Explains, k, w
<1>5. CASE k # 0
  <2>1. RawBatch(w, k) = IF w.nextTick # None THEN counted ELSE first
    BY <1>5 DEF RawBatch
  <2>2. /\ counted.evidence = w.evidence /\ counted.arrived = w.arrived + k
        /\ counted.credit = w.credit /\ counted.nextTick = w.nextTick /\ counted.rawAge = 0
        /\ first.evidence = w.evidence /\ first.arrived = w.arrived + k
        /\ first.credit = 0 /\ first.nextTick = 1 /\ first.rawAge = 0
    BY <1>0 DEF WatchdogState
  <2> HIDE DEF counted, first, k, w
  <2>3. CASE w.nextTick # None
    <3>1. Spare(counted) = Spare(w)
      BY <2>2, <2>3 DEF Spare
    <3>2. counted.evidence + counted.arrived + Left
              <= Spare(counted) + answered + Unit(waiting) + 1
      BY <1>0, <1>1, <2>2, <3>1
    <3> QED  BY <1>3, <2>1, <2>2, <2>3, <3>2 DEF Explains, k, w
  <2>4. CASE w.nextTick = None
    <3>1. Spare(first) = 0 /\ Spare(w) = 0
      BY <2>2, <2>4 DEF Spare
    <3>2. first.evidence + first.arrived + Left
              <= Spare(first) + answered + Unit(waiting) + 1
      BY <1>0, <1>1, <2>2, <3>1
    <3> QED  BY <1>3, <2>1, <2>2, <2>4, <3>2 DEF Explains, k, w
  <2> QED  BY <2>3, <2>4
<1> QED
  BY <1>4, <1>5

(* And the answer to a request, which drops what it has, finds nothing of     *)
(* the queue left.                                                            *)
LEMMA LiveBefore ==
    ASSUME WatchInv, LiveApart, LiveInv, Hears, loop = "pass"
    PROVE  /\ Before \in WatchdogState
           /\ Explains(Before, Left, answered)
           /\ Before.nextTick = 0 => watchdog.nextTick = 0
           /\ "backlog" \notin env => (Before.credit > 0 => Before.evidence = 0)
           /\ "busy" \notin env =>
                /\ Before.evidence = watchdog.evidence
                /\ drained.keys > 0 => Before.rawAge = 0
<1> DEFINE b == RawBatch(watchdog, drained.keys)
<1>0. /\ b \in WatchdogState
      /\ Explains(b, Left, answered)
      /\ b.evidence = watchdog.evidence
      /\ b.credit > 0 => watchdog.credit > 0
      /\ b.nextTick = 0 => watchdog.nextTick = 0
      /\ drained.keys > 0 => b.rawAge = 0
  BY LiveBatch
<1>1. Counted = drained.keys /\ Before = TakeAnswer(b)
  BY DEF Counted, Hears, Before
<1>2. Before \in WatchdogState
  BY PassCounts
<1>3. Drained /\ Lapses /\ Quick
  BY DEF LiveInv, Hears
<1> HIDE DEF b
<1>4. CASE reply \in Outcome
  <2>1. "busy" \in env
    BY <1>3, <1>4 DEF Quick, Outcome
  <2>2. ~drained.pending
    BY <2>1, <1>3, LiveTypes DEF Lapses
  <2>3. Left <= 1 + Unit(waiting)
    BY <1>3, <2>2 DEF Drained
  <2> DEFINE more  == IF reply \in {"Reinstalled", "Failed"}
                      THEN AtMost(b.attempts + 1, BackoffLimit) ELSE b.attempts
             heard == [b EXCEPT !.outstanding = FALSE, !.attempts = more]
  <2>4. Before = StartOver(heard)
    BY <1>0, <1>1, <1>4 DEF TakeAnswer, Answered, WatchdogState, Outcome
  <2> HIDE DEF more
  <2>5. /\ Before.evidence = 0 /\ Before.arrived = 0 /\ Before.credit = 0
        /\ Before.nextTick = b.nextTick
    BY <1>0, <2>4 DEF StartOver, WatchdogState
  <2>6. Spare(Before) = 0
    BY <2>5 DEF Spare
  <2>7. 0 + 0 + Left <= 0 + answered + Unit(waiting) + 1
    BY <2>3, LiveCounts
  <2> QED  BY <1>0, <1>2, <2>1, <2>5, <2>6, <2>7 DEF Explains
<1>5. CASE reply = "dropped"
  <2>1. Before = [b EXCEPT !.outstanding = FALSE]
    BY <1>1, <1>5 DEF TakeAnswer, NotSent, Outcome
  <2>2. /\ Before.evidence = b.evidence /\ Before.arrived = b.arrived
        /\ Before.credit = b.credit /\ Before.nextTick = b.nextTick /\ Before.rawAge = b.rawAge
    BY <1>0, <2>1 DEF WatchdogState
  <2>3. Explains(Before, Left, answered)
    BY <1>0, <2>2 DEF Explains, Spare
  <2> QED  BY <1>0, <1>2, <1>3, <2>2, <2>3 DEF Lapses
<1>6. CASE reply \in {"none", "asked"}
  <2>1. Before = b
    BY <1>1, <1>6 DEF TakeAnswer, Outcome
  <2> QED  BY <1>0, <1>2, <1>3, <2>1 DEF Lapses
<1> QED
  BY <1>4, <1>5, <1>6 DEF WatchInv, TypeOK

(* What the tick makes of the counts.                                         *)
LEMMA TickedParts ==
    ASSUME NEW w \in WatchdogState, NEW callbacks \in Nat, NEW backlog \in BOOLEAN
    PROVE  LET a == Ticked(w, callbacks, backlog)
           IN  /\ a.arrived = 0
               /\ callbacks > 0 => /\ a.evidence = 0
                                   /\ a.credit = KeptCredit(w, backlog) + NewCredit(w, callbacks)
               /\ callbacks = 0 => /\ a.evidence = AtMost(w.evidence + Unexplained(w), MinEvidence)
                                   /\ a.credit = KeptCredit(w, backlog)
               /\ a.nextTick \in {1, None}
               /\ w.rawAge = 0 /\ ActiveFor >= 1 => a.nextTick = 1
<1> DEFINE seen == IF callbacks > 0
                   THEN [w EXCEPT !.quietFor = 0, !.evidence = 0, !.attempts = 0,
                                  !.credit = KeptCredit(w, backlog) + NewCredit(w, callbacks)]
                   ELSE [w EXCEPT !.credit = KeptCredit(w, backlog),
                                  !.evidence = AtMost(@ + Unexplained(w), MinEvidence),
                                  !.outstanding = @ \/ Decides(w, callbacks)]
           told == [seen EXCEPT !.arrived = 0]
           next == IF Decides(w, callbacks) \/ KeepsTicking(told) THEN 1 ELSE None
<1>1. Ticked(w, callbacks, backlog) = [told EXCEPT !.nextTick = next]
  BY DEF Ticked
<1>2. /\ told.arrived = 0 /\ told.rawAge = w.rawAge
      /\ callbacks > 0 => /\ told.evidence = 0
                          /\ told.credit = KeptCredit(w, backlog) + NewCredit(w, callbacks)
      /\ callbacks = 0 => /\ told.evidence = AtMost(w.evidence + Unexplained(w), MinEvidence)
                          /\ told.credit = KeptCredit(w, backlog)
      /\ DOMAIN told = DOMAIN w
  BY DEF WatchdogState
<1>3. w.rawAge = 0 /\ ActiveFor >= 1 => KeepsTicking(told)
  BY <1>2, WatchdogAssumption DEF KeepsTicking
<1>4. "nextTick" \in DOMAIN told
  BY <1>2 DEF WatchdogState
<1> DEFINE a == [told EXCEPT !.nextTick = next]
<1>5. /\ a.nextTick = next /\ a.arrived = told.arrived /\ a.evidence = told.evidence
      /\ a.credit = told.credit
  BY <1>4
<1>6. next \in {1, None} /\ (KeepsTicking(told) => next = 1)
  OBVIOUS
<1> HIDE DEF told, next
<1> QED
  BY <1>1, <1>2, <1>3, <1>5, <1>6

(* What is left of the queue after the tick is explained by the credit that   *)
(* it leaves; it is no more than a call that waits if none was counted.       *)
LEMMA LiveTicked ==
    ASSUME WatchInv, LiveApart, Thresholds, LiveInv, Hears, loop = "pass", Before.nextTick = 0
    PROVE  /\ Explains(After, Left, 0)
           /\ "backlog" \notin env => (After.credit > 0 => After.evidence = 0)
           /\ "busy" \notin env => After.evidence <= 1 + Unit(waiting)
           /\ After.arrived = 0 /\ After.nextTick \in {1, None}
<1> DEFINE b == Before
           e == Explained(b)
           u == Unexplained(b)
           pending == drained.pending
<1>1. /\ b \in WatchdogState /\ After = Ticked(b, answered, pending)
      /\ Explains(b, Left, answered)
      /\ watchdog.nextTick = 0
      /\ "backlog" \notin env => (b.credit > 0 => b.evidence = 0)
      /\ "busy" \notin env => /\ b.evidence = watchdog.evidence
                              /\ drained.keys > 0 => b.rawAge = 0
  BY LiveBefore DEF After
<1>2. Drained /\ Lapses /\ Quick
  BY DEF LiveInv, Hears
<1>3. /\ answered \in Nat /\ Left \in Nat /\ Unit(waiting) \in {0, 1} /\ pending \in BOOLEAN
      /\ b.evidence \in Nat /\ b.arrived \in Nat /\ b.credit \in Nat
      /\ MinEvidence \in Nat
  BY <1>1, LiveTypes, WatchdogAssumption
<1>4. b.evidence + b.arrived + Left <= b.credit + answered + Unit(waiting) + 1
  <2>1. Spare(b) = b.credit
    BY LiveTypes DEF Spare
  <2> QED  BY <1>1, <2>1 DEF Explains
<1>5. /\ e \in Nat /\ u \in Nat /\ e + u = b.arrived /\ e <= b.credit
      /\ u > 0 => e = b.credit
  BY <1>3 DEF Explained, Unexplained, AtMost
<1>6. /\ KeptCredit(b, pending) = IF pending THEN b.credit - e ELSE 0
      /\ NewCredit(b, answered) = IF answered > u THEN answered - u ELSE 0
  BY DEF KeptCredit, NewCredit
<1>7. /\ After.arrived = 0
      /\ answered > 0 => /\ After.evidence = 0
                         /\ After.credit = KeptCredit(b, pending) + NewCredit(b, answered)
      /\ answered = 0 => /\ After.evidence = AtMost(b.evidence + u, MinEvidence)
                         /\ After.credit = KeptCredit(b, pending)
      /\ After.nextTick \in {1, None}
      /\ b.rawAge = 0 /\ ActiveFor >= 1 => After.nextTick = 1
  BY <1>1, <1>3, TickedParts
<1>8. ~pending => /\ Left <= 1 + Unit(waiting)
                  /\ answered = 0 => Left <= Unit(waiting)
  BY <1>1, <1>2 DEF Drained
<1>9. pending => "busy" \notin env /\ After.nextTick = 1
  <2> SUFFICES ASSUME pending PROVE "busy" \notin env /\ After.nextTick = 1
    OBVIOUS
  <2>1. "busy" \notin env
    BY <1>2, LiveTypes DEF Lapses
  <2>2. drained.keys > 0
    BY <1>2 DEF Drained
  <2>3. b.rawAge = 0
    BY <1>1, <2>1, <2>2
  <2> QED  BY <1>7, <2>1, <2>3 DEF Thresholds
<1>10. "busy" \notin env => b.evidence <= 1 + answered
  BY <1>1, <1>2 DEF Quick
<1>11. After \in WatchdogState
  BY PassCounts
<1>12. Spare(After) \in Nat /\ (pending => Spare(After) = After.credit)
  <2>1. pending => After.nextTick # None
    BY <1>9, LiveTypes
  <2> QED  BY <1>11, <2>1, LiveTypes DEF Spare
<1>13. AtMost(b.evidence + u, MinEvidence) \in Nat /\ AtMost(b.evidence + u, MinEvidence) <= b.evidence + u
  BY <1>3, <1>5 DEF AtMost
<1>14. "busy" \notin env \/ "backlog" \notin env
  BY LiveTypes
<1> HIDE DEF b, e, u, pending
(* No call was counted: raw events that no credit explains are of the last    *)
(* call, and older evidence is of none.                                       *)
<1>15. answered = 0 /\ u = 0 /\ ~pending => b.evidence + Left <= 1 + Unit(waiting)
  <2> SUFFICES ASSUME answered = 0, u = 0, ~pending
               PROVE  b.evidence + Left <= 1 + Unit(waiting)
    OBVIOUS
  <2>1. Left <= Unit(waiting)
    BY <1>8
  <2>2. CASE "busy" \notin env
    BY <1>3, <1>10, <2>1, <2>2
  <2>3. CASE "backlog" \notin env
    <3>1. CASE b.credit > 0
      <4>1. b.evidence = 0
        BY <1>1, <2>3, <3>1
      <4> QED  BY <1>3, <2>1, <4>1
    <3>2. CASE b.credit = 0
      BY <1>3, <1>4, <1>5, <3>2
    <3> QED  BY <1>3, <3>1, <3>2
  <2> QED  BY <1>14, <2>2, <2>3
<1>16. answered = 0 /\ u > 0 => b.evidence + u + Left <= 1 + Unit(waiting)
  BY <1>3, <1>4, <1>5
<1>17. After.evidence + Left <= Spare(After) + Unit(waiting) + 1
  <2>1. CASE answered > 0 /\ pending
    <3>1. After.evidence = 0 /\ Spare(After) = (b.credit - e) + NewCredit(b, answered)
      BY <1>6, <1>7, <1>12, <2>1
    <3>2. NewCredit(b, answered) \in Nat /\ NewCredit(b, answered) >= answered - u
      BY <1>3, <1>5, <1>6
    <3> QED  BY <1>3, <1>4, <1>5, <3>1, <3>2
  <2>2. CASE answered > 0 /\ ~pending
    BY <1>3, <1>7, <1>8, <1>12, <2>2
  <2>3. CASE answered = 0 /\ pending
    <3>1. After.evidence <= b.evidence + u /\ After.evidence \in Nat /\ Spare(After) = b.credit - e
      BY <1>6, <1>7, <1>12, <1>13, <2>3
    <3> QED  BY <1>3, <1>4, <1>5, <2>3, <3>1
  <2>4. CASE answered = 0 /\ ~pending
    <3>1. After.evidence <= b.evidence + u /\ After.evidence \in Nat
      BY <1>7, <1>13, <2>4
    <3>2. b.evidence + u + Left <= 1 + Unit(waiting)
      BY <1>3, <1>5, <1>15, <1>16, <2>4
    <3> QED  BY <1>3, <1>5, <1>12, <3>1, <3>2
  <2> QED  BY <1>3, <2>1, <2>2, <2>3, <2>4
<1>18. Explains(After, Left, 0)
  <2>1. After.evidence \in Nat
    BY <1>11, LiveTypes
  <2> QED  BY <1>3, <1>7, <1>12, <1>17, <2>1 DEF Explains
<1>19. "backlog" \notin env => (After.credit > 0 => After.evidence = 0)
  <2> SUFFICES ASSUME "backlog" \notin env, After.credit > 0 PROVE After.evidence = 0
    OBVIOUS
  <2>1. ~pending
    BY <1>2 DEF Lapses, pending
  <2>2. answered > 0
    BY <1>3, <1>6, <1>7, <2>1
  <2> QED  BY <1>7, <2>2
<1>20. "busy" \notin env => After.evidence <= 1 + Unit(waiting)
  <2> SUFFICES ASSUME "busy" \notin env PROVE After.evidence <= 1 + Unit(waiting)
    OBVIOUS
  <2>1. CASE answered > 0
    BY <1>3, <1>7, <2>1
  <2>2. CASE answered = 0
    <3>1. After.evidence <= b.evidence + u /\ After.evidence \in Nat
      BY <1>7, <1>13, <2>2
    <3>2. CASE u = 0
      BY <1>3, <1>10, <2>2, <3>1, <3>2
    <3>3. CASE u > 0
      BY <1>3, <1>5, <1>16, <2>2, <3>1, <3>3
    <3> QED  BY <1>5, <3>2, <3>3
  <2> QED  BY <1>3, <2>1, <2>2
<1> QED
  BY <1>7, <1>18, <1>19, <1>20

(* A request is decided only while a call waits, and never by a main thread   *)
(* that is quick.                                                             *)
LEMMA LiveDecides ==
    ASSUME WatchInv, LiveApart, Thresholds, LiveInv, Hears, loop = "pass", Before.nextTick = 0,
           Decides(Before, answered)
    PROVE  /\ waiting /\ "busy" \in env /\ ~drained.pending
           /\ Left <= Unit(waiting)
<1>1. /\ Before \in WatchdogState /\ Explains(Before, Left, answered) /\ watchdog.nextTick = 0
      /\ "backlog" \notin env => (Before.credit > 0 => Before.evidence = 0)
      /\ "busy" \notin env => Before.evidence = watchdog.evidence
  BY LiveBefore
<1>2. Drained /\ Lapses /\ Quick
  BY DEF LiveInv, Hears
<1>3. answered = 0 /\ Before.evidence >= 2
  <2>1. Before.evidence >= MinEvidence /\ answered = 0
    BY DEF Decides
  <2> QED  BY <1>1, <2>1, LiveTypes, WatchdogAssumption DEF Thresholds
<1>4. "busy" \in env
  <2> SUFFICES ASSUME "busy" \notin env PROVE FALSE
    OBVIOUS
  <2>1. watchdog.evidence <= 1 + answered
    BY <1>1, <1>2 DEF Quick
  <2> QED  BY <1>1, <1>3, <2>1, LiveCounts
<1>5. "backlog" \notin env /\ ~drained.pending
  BY <1>2, <1>4, LiveTypes DEF Lapses
<1>6. Before.credit = 0
  BY <1>1, <1>3, <1>5, LiveTypes
<1>7. Before.evidence + Before.arrived + Left <= 0 + answered + Unit(waiting) + 1
  BY <1>1, <1>6 DEF Explains, Spare
<1>8. Unit(waiting) >= 1
  BY <1>1, <1>3, <1>7, LiveTypes
<1>9. waiting
  BY <1>8 DEF Unit
<1>10. Left <= Unit(waiting)
  BY <1>1, <1>2, <1>3, <1>5 DEF Drained
<1> QED
  BY <1>4, <1>5, <1>9, <1>10

LEMMA LivePass == WatchInv /\ LiveApart /\ Thresholds /\ LiveInv /\ Pass => LiveInv'
<1> SUFFICES ASSUME WatchInv, LiveApart, Thresholds, LiveInv, Pass PROVE LiveInv'
  OBVIOUS
<1>0. /\ UNCHANGED <<env, hook, waiting, unposted, queued, ended>>
      /\ loop = "pass" /\ loop' = "wait" /\ drained' = [drained EXCEPT !.keys = 0]
  BY DEF Pass, inputVars
<1>1. Left' = Left /\ drained'.keys = 0 /\ drained'.pending = drained.pending
  BY <1>0, LiveTypes DEF Left
<1>2. IF Before.nextTick = 0
      THEN /\ IF Decides(Before, answered)
              THEN Ask(After) /\ moved' = FALSE
              ELSE /\ watchdog' = After /\ UNCHANGED moved
                   /\ reply' = IF reply = "asked" THEN "asked" ELSE "none"
           /\ answered' = 0
      ELSE /\ watchdog' = Before /\ UNCHANGED <<answered, moved>>
           /\ reply' = IF reply = "asked" THEN "asked" ELSE "none"
  BY DEF Pass, Before, After, Counted
<1>3. CASE hook = "none"
  <2>1. /\ watchdog.nextTick = None /\ reply = "none" /\ Counted = 0
    BY <1>3 DEF LiveInv, Counted
  <2>2. Before = watchdog
    BY <2>1 DEF Before, RawBatch, TakeAnswer, Outcome
  <2>3. watchdog' = watchdog /\ reply' = "none" /\ UNCHANGED answered
    BY <1>2, <2>1, <2>2, LiveTypes
  <2>4. drained' = [keys |-> 0, pending |-> FALSE]
    <3>1. drained = [keys |-> 0, pending |-> FALSE]
      BY <1>3 DEF LiveInv
    <3> QED  BY <1>0, <3>1
  <2> QED  BY <1>0, <1>1, <1>3, <2>3, <2>4 DEF LiveInv
<1>4. CASE hook = "live" /\ ~ended
  <2>0. Hears
    BY <1>4 DEF Hears
  <2>1. Drained /\ Lapses /\ Quick /\ (reply = "asked" => waiting \/ moved)
    BY <1>4 DEF LiveInv
  <2>2. /\ loop' # "pass" /\ Unit(waiting') = Unit(waiting)
        /\ Unit(waiting) \in {0, 1} /\ Left \in Nat /\ answered \in Nat
    BY <1>0, LiveTypes
  <2> SUFFICES /\ watchdog'.evidence + watchdog'.arrived + Left
                      <= Spare(watchdog') + answered' + Unit(waiting) + 1
               /\ watchdog'.nextTick # 0
               /\ "backlog" \notin env => (watchdog'.credit > 0 => watchdog'.evidence = 0)
               /\ "busy" \notin env =>
                    /\ reply' = "none" /\ watchdog'.evidence <= 1 + answered' + Unit(waiting)
               /\ reply' = "asked" => waiting \/ moved'
    <3>1. Explains(watchdog, drained.keys + Left, answered)'
      <4>1. drained'.keys + Left' = Left
        BY <1>1, <2>2
      <4> QED  BY <2>2, <4>1 DEF Explains, Spare
    <3>2. Drained'
      BY <2>2 DEF Drained
    <3>3. Lapses'
      BY <1>0, <1>1, <2>1 DEF Lapses
    <3>4. Quick'
      BY <1>0, <2>2 DEF Quick
    <3> QED  BY <1>0, <1>4, <3>1, <3>2, <3>3, <3>4 DEF LiveInv
  <2>3. CASE Before.nextTick # 0
    <3>1. /\ Before \in WatchdogState /\ Explains(Before, Left, answered)
          /\ "backlog" \notin env => (Before.credit > 0 => Before.evidence = 0)
          /\ "busy" \notin env => Before.evidence = watchdog.evidence
      BY <1>0, <2>0, LiveBefore
    <3>2. /\ watchdog' = Before /\ UNCHANGED <<answered, moved>>
          /\ reply' = IF reply = "asked" THEN "asked" ELSE "none"
      BY <1>2, <2>3
    <3>3. "busy" \notin env => reply = "none" /\ Before.evidence <= 1 + answered + Unit(waiting)
      BY <2>1, <3>1 DEF Quick
    <3> QED  BY <2>1, <2>3, <3>1, <3>2, <3>3 DEF Explains
  <2>4. CASE Before.nextTick = 0
    <3>1. /\ Explains(After, Left, 0) /\ After.nextTick # 0 /\ After.arrived = 0
          /\ "backlog" \notin env => (After.credit > 0 => After.evidence = 0)
          /\ "busy" \notin env => After.evidence <= 1 + Unit(waiting)
      BY <1>0, <2>0, <2>4, LiveTicked, LiveTypes
    <3>2. After \in WatchdogState /\ answered' = 0
      BY <1>2, <2>4, PassCounts
    <3>3. CASE ~Decides(Before, answered)
      <4>1. /\ watchdog' = After /\ UNCHANGED moved
            /\ reply' = IF reply = "asked" THEN "asked" ELSE "none"
        BY <1>2, <2>4, <3>3
      <4>2. "busy" \notin env => reply = "none"
        BY <2>1 DEF Quick
      <4>3. 1 + 0 + Unit(waiting) = 1 + Unit(waiting)
        BY <2>2
      <4> QED  BY <2>1, <3>1, <3>2, <4>1, <4>2, <4>3 DEF Explains
    <3>4. CASE Decides(Before, answered)
      <4>1. waiting /\ "busy" \in env /\ Left <= Unit(waiting)
        BY <1>0, <2>0, <2>4, <3>4, LiveDecides
      <4>2. watchdog' \in {After, NotSent(After), Declined(After)}
        BY <1>2, <2>4, <3>4 DEF Ask
      <4>3. /\ NotSent(After).evidence = After.evidence /\ NotSent(After).arrived = 0
            /\ NotSent(After).credit = After.credit /\ NotSent(After).nextTick = After.nextTick
        BY <3>1, <3>2 DEF NotSent, WatchdogState
      <4>4. /\ Declined(After).evidence = 0 /\ Declined(After).arrived = 0
            /\ Declined(After).credit = 0 /\ Declined(After).nextTick = After.nextTick
        BY <3>2 DEF Declined, StartOver, NotSent, WatchdogState
      <4>5. /\ After.evidence + 0 + Left <= Spare(After) + 0 + Unit(waiting) + 1
            /\ Spare(NotSent(After)) = Spare(After) /\ Spare(Declined(After)) = 0
        BY <3>1, <4>3, <4>4 DEF Explains, Spare
      <4>6. 0 + 0 + Left <= 0 + 0 + Unit(waiting) + 1
        <5>1. Left <= Unit(waiting)
          BY <4>1
        <5> HIDE DEF Left
        <5> QED  BY <2>2, <5>1
      <4>7. CASE watchdog' = After
        BY <3>1, <3>2, <4>1, <4>5, <4>7
      <4>8. CASE watchdog' = NotSent(After)
        BY <3>1, <3>2, <4>1, <4>3, <4>5, <4>8
      <4>9. CASE watchdog' = Declined(After)
        BY <3>1, <3>2, <4>1, <4>4, <4>5, <4>6, <4>9
      <4> QED  BY <4>2, <4>7, <4>8, <4>9
    <3> QED  BY <3>3, <3>4
  <2> QED  BY <2>3, <2>4
<1> QED
  BY <1>0, <1>3, <1>4 DEF LiveInv

LEMMA LiveStep == WatchInv /\ LiveApart /\ Thresholds /\ LiveInv /\ [Next]_vars => LiveInv'
<1>1. WatchInv /\ LiveApart /\ Thresholds /\ LiveInv /\ Next => LiveInv'
  BY LiveInput, LiveMain, LiveThread, LivePass DEF Next
<1>2. LiveInv /\ UNCHANGED vars => LiveInv'
  BY DEF vars, LiveInv, Left, Unit, Explains, Spare, Drained, Lapses, Quick
<1> QED
  BY <1>1, <1>2

(* A reinstall is of a request that no call has answered, and a live hook's   *)
(* request has one.                                                           *)
LEMMA LiveHeard == WatchInv /\ LiveApart /\ LiveInv /\ [Next]_vars => OnlyDeadReplaced
<1> SUFFICES ASSUME WatchInv, LiveApart, LiveInv, [Next]_vars, reply = "asked",
                    reply' = "Reinstalled"
             PROVE  FALSE
  BY DEF OnlyDeadReplaced, Replaced
<1>1. Serve
  BY DEF Next, vars, KeySeen, KeyUnseen, Post, Callback, GiveUp, HookRemoved, Install, Uninstall,
         MainEnds, Pass, Ask, WokenDrain, MessageDrain, DrainRaw, Tick
<1>2. ~moved /\ ~waiting /\ hook \in {"live", "dead"} /\ ~ended
  BY <1>1, LiveTypes DEF Serve, Heard
<1> QED
  BY <1>2 DEF LiveInv

(* A live hook is never replaced, whatever the order of raw input and calls,  *)
(* the backlog of the one and the delay of the other, if not of both; for any *)
(* thresholds above the least (Watchdog::tick, raw_batch, answered,           *)
(* reinstall_if_silent).                                                      *)
THEOREM LiveHooksAreKept ==
    ASSUME LiveApart, Thresholds
    PROVE  Spec => LiveHookKept
<1>1. Init => LiveInv
  BY LiveInit
<1>2. WatchInv /\ LiveInv /\ [Next]_vars => LiveInv'
  BY LiveStep
<1>3. WatchInv /\ LiveInv /\ [Next]_vars => OnlyDeadReplaced
  BY LiveHeard
<1> QED
  BY <1>1, <1>2, <1>3, WatchInvariant, PTL DEF Spec, LiveHookKept
=============================================================================
