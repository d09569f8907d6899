--------------------------- MODULE KeyPath_proofs ---------------------------
(* What KeyPath promises for every set of keys and generic codes and for      *)
(* every Feature, checked by TLAPS.                                           *)
EXTENDS KeyPath, TLAPS

(* The operators of the key table return a table.                             *)
LEMMA RecordFromOsType ==
    ASSUME NEW r \in [Code -> LastDown], NEW s
    PROVE  RecordFromOs(r, s) \in [Code -> LastDown]
BY DEF RecordFromOs, LastDown, Kept

LEMMA CompletedType ==
    ASSUME NEW r \in [Code -> LastDown], NEW act, NEW s
    PROVE  Completed(act, r, s) \in [Code -> LastDown]
BY DEF Completed, LastDown

LEMMA DownTypes ==
    ASSUME NEW repeat \in BOOLEAN, NEW ask \in BOOLEAN, NEW old \in LastDown
    PROVE  /\ RecordOfDown(repeat, old, ask) \in LastDown
           /\ DownSwallowed(repeat, old, ask) \in BOOLEAN
BY DEF RecordOfDown, DownSwallowed, LastDown

LEMMA ModifierType == Modifier \subseteq Code
BY KeysAssumption DEF Modifier, Code

LEMMA TouchedByType == ASSUME NEW c PROVE TouchedBy(c) \subseteq Modifier
BY DEF TouchedBy

LEMMA ActiveTypes ==
    ASSUME NEW act \in SUBSET Code, NEW r, NEW s \in SUBSET Code,
           NEW which \in SUBSET Code, NEW c \in Code, NEW d
    PROVE  /\ ClearReleased(act, r, c, which, s) \subseteq act
           /\ Reread(act, r, which, s) \subseteq Code
           /\ Tracked(act, r, c, d) \subseteq Code
           /\ ActiveFromOs(s) \subseteq Code
BY DEF ClearReleased, Reread, Tracked, ActiveFromOs

LEMMA DownType == TypeOK => Down \in SUBSET Code
BY DEF TypeOK, Down, ReadsDown, Code

LEMMA FateTypes ==
    ASSUME TypeOK, NEW k \in Key, NEW c, NEW repeat, NEW sw, NEW lt, NEW keys
    PROVE  /\ FateOfDown(c, k, repeat, sw, lt) \in Fates
           /\ Untracked(keys) \in [Key -> Fates]
BY DEF TypeOK, FateOfDown, Untracked, Fates

-----------------------------------------------------------------------------
LEMMA TypingKeyDown ==
    ASSUME TypeOK, NEW c \in Code, NEW k \in Key, KeyDown(c, k)
    PROVE  TypeOK'
<1> PICK ask \in BOOLEAN, swallowedLater \in SwallowedLater(k),
         done \in (IF "chord" \in Feature THEN SUBSET (active \cup {c}) ELSE {{}}),
         maskOnly \in (IF "maskonly" \in Feature THEN BOOLEAN ELSE {FALSE}) :
         Decide(c, k, ask, done, maskOnly, swallowedLater)
  BY DEF KeyDown
<1> DEFINE kept    == ClearReleased(active, record, c, Modifier, Down)
           repeat  == c \in kept
           pressed == kept \cup {c}
           before  == Completed(pressed, record, done)
           after   == [before EXCEPT ![c] = RecordOfDown(repeat, before[c], ask)]
           swallow == DownSwallowed(repeat, before[c], ask)
           hotkey  == maskOnly /\ ~repeat
<1>1. kept \subseteq Code /\ pressed \subseteq Code /\ repeat \in BOOLEAN
  <2>1. kept \subseteq active
    BY DEF ClearReleased
  <2> QED BY <2>1 DEF TypeOK
<1>2. done \subseteq Code /\ maskOnly \in BOOLEAN
  BY DEF TypeOK
<1>3. before \in [Code -> LastDown]
  <2> HIDE DEF pressed
  <2> QED BY <1>1, <1>2, CompletedType DEF TypeOK
<1>4. after \in [Code -> LastDown] /\ swallow \in BOOLEAN
  <2> HIDE DEF before, repeat
  <2> QED BY <1>1, <1>3, DownTypes
<1>5. /\ active' = pressed /\ record' = after /\ maskOwed' = hotkey
      /\ decision' = [event |-> "down", suppress |-> swallow,
                      mask |-> \/ maskOwed \/ hotkey
                               \/ swallow /\ MenuDown(pressed, after)]
      /\ fate' = [fate EXCEPT ![k] =
                      FateOfDown(c, k, repeat, swallow, swallowedLater)]
      /\ stale' = StaleAfterDown(c, k, repeat, swallow, swallowedLater)
      /\ IF swallow THEN UNCHANGED winVars ELSE PassDown(k, swallowedLater)
  BY DEF Decide
<1> HIDE DEF kept, repeat, pressed, before, after, swallow, hotkey
<1>6. hotkey \in BOOLEAN /\ MenuDown(pressed, after) \in BOOLEAN
  BY <1>2, <1>1 DEF hotkey, MenuDown
<1>7. decision' \in [event : {"none", "down", "up"}, suppress : BOOLEAN, mask : BOOLEAN]
  BY <1>4, <1>5, <1>6 DEF TypeOK
<1>8. fate' \in [Key -> Fates]
  BY <1>5, FateTypes DEF TypeOK
<1>9. stale' \subseteq Sided
  BY <1>5 DEF StaleAfterDown, Stale, TypeOK
<1>10. win' \subseteq Key /\ rising' \subseteq Key /\ falling' \subseteq Key /\ hooked' \in BOOLEAN
  BY <1>5 DEF winVars, PassDown, TypeOK
<1>11. fresh' \subseteq Modifier
  BY TouchedByType DEF KeyDown, TypeOK
<1>12. held' \in [Key -> Code \cup {None}]
  BY DEF KeyDown, TypeOK
<1> QED BY <1>1, <1>4, <1>5, <1>6, <1>7, <1>8, <1>9, <1>10, <1>11, <1>12
       DEF KeyDown, TypeOK

LEMMA TypingKeyUp ==
    ASSUME TypeOK, NEW c \in Code, NEW k \in Key, KeyUp(c, k)
    PROVE  TypeOK'
<1> PICK bound \in BOOLEAN :
        LET released == active \ {c}
            after    == [record EXCEPT ![c] = "Unknown"]
            swallow  == UpSwallowed(c, bound)
            checked  == IF swallow
                        THEN ClearReleased(released, after, c, Menu, Down)
                        ELSE released
        IN  /\ active' = checked
            /\ record' = after
            /\ maskOwed' = FALSE
            /\ decision' = [event |-> "up", suppress |-> swallow,
                            mask |-> \/ maskOwed
                                     \/ swallow /\ MenuDown(checked, after)]
            /\ fate' = [fate EXCEPT ![k] =
                            CASE fate[k] = "passed" /\ swallow     -> "broken"
                              [] fate[k] = "swallowed" /\ ~swallow -> "broken"
                              [] OTHER                             -> "none"]
            /\ stale' = (IF ~swallow /\ (c # k \/ fate[k] = "later")
                         THEN Stale({k}) ELSE stale \ ({c} \cap {k}))
            /\ IF swallow THEN UNCHANGED winVars ELSE PassUp(k)
  BY DEF KeyUp
<1> DEFINE after   == [record EXCEPT ![c] = "Unknown"]
           swallow == UpSwallowed(c, bound)
<1>1. active' \subseteq Code
  BY DEF ClearReleased, TypeOK
<1>2. after \in [Code -> LastDown] /\ record' = after
  BY DEF TypeOK, LastDown
<1>3. swallow \in BOOLEAN /\ MenuDown(active', after) \in BOOLEAN
  BY DEF UpSwallowed, MenuDown
<1>4. decision' \in [event : {"none", "down", "up"}, suppress : BOOLEAN, mask : BOOLEAN]
  <2>1. decision' = [event |-> "up", suppress |-> swallow,
                     mask |-> maskOwed \/ (swallow /\ MenuDown(active', after))]
    OBVIOUS
  <2> HIDE DEF after, swallow
  <2> QED BY <2>1, <1>3 DEF TypeOK
<1>5. fate' \in [Key -> Fates]
  BY DEF TypeOK, Fates
<1>6. stale' \subseteq Sided
  BY DEF Stale, TypeOK
<1>7. win' \subseteq Key /\ rising' \subseteq Key /\ falling' \subseteq Key /\ hooked' \in BOOLEAN
  BY DEF winVars, PassUp, TypeOK
<1>8. fresh' \subseteq Modifier
  BY TouchedByType DEF KeyUp, TypeOK
<1>9. held' \in [Key -> Code \cup {None}]
  BY DEF KeyUp, TypeOK
<1>10. maskOwed' \in BOOLEAN /\ away' \in BOOLEAN
  BY DEF KeyUp
<1> QED BY <1>1, <1>2, <1>4, <1>5, <1>6, <1>7, <1>8, <1>9, <1>10 DEF KeyUp, TypeOK

LEMMA TypingReset == ASSUME TypeOK, ResetFromOs, Served PROVE
    /\ active' \subseteq Code /\ record' \in [Code -> LastDown]
    /\ maskOwed' \in BOOLEAN /\ due' \in BOOLEAN /\ away' \in BOOLEAN
    /\ fresh' \subseteq Modifier /\ owed' \subseteq Modifier
    /\ fate' \in [Key -> Fates] /\ stale' \subseteq Sided
<1>1. Down \in SUBSET Code
  BY DownType
<1>2. active' \subseteq Code
  BY <1>1 DEF ResetFromOs, ActiveFromOs
<1>3. record' \in [Code -> LastDown]
  BY RecordFromOsType DEF ResetFromOs, TypeOK
<1>4. fate' \in [Key -> Fates]
  BY FateTypes DEF ResetFromOs, Untracked, TypeOK, Fates
<1> QED BY <1>2, <1>3, <1>4 DEF ResetFromOs, TypeOK

LEMMA TypingDrain == TypeOK /\ Drain => TypeOK'
<1> SUFFICES ASSUME TypeOK, Drain PROVE TypeOK'
  OBVIOUS
<1>1. Planned \subseteq Modifier /\ ToRead \subseteq Modifier
  BY DEF Planned, ToRead, TypeOK
<1>3. Reread(active, record, ToRead, Down) \subseteq Code
  BY <1>1, ModifierType DEF Reread, TypeOK
<1>4. NoDecision \in [event : {"none", "down", "up"}, suppress : BOOLEAN, mask : BOOLEAN]
  BY DEF NoDecision
<1>5. CASE enabled /\ ~away
  BY <1>1, <1>3, <1>4, <1>5 DEF Drain, ReadModifiers, winVars, TypeOK
<1>6. CASE enabled /\ away
  BY <1>4, <1>6 DEF Drain, ReadModifiers, winVars, TypeOK
<1>7. CASE ~enabled
  BY <1>4, <1>7 DEF Drain, winVars, TypeOK
<1> QED BY <1>5, <1>6, <1>7

(* Every variable keeps its type.                                             *)
THEOREM Typing == Spec => []TypeOK
<1>1. Init => TypeOK
  <2> SUFFICES ASSUME Init PROVE TypeOK
    OBVIOUS
  <2>1. record \in [Code -> LastDown] /\ fate \in [Key -> Fates]
    BY DEF Init, LastDown, Fates
  <2>2. held \in [Key -> Code \cup {None}]
    BY DEF Init
  <2>3. decision \in [event : {"none", "down", "up"}, suppress : BOOLEAN, mask : BOOLEAN]
    BY DEF Init, NoDecision
  <2> QED BY <2>1, <2>2, <2>3 DEF Init, TypeOK
<1>2. TypeOK /\ [Next]_vars => TypeOK'
  <2> SUFFICES ASSUME TypeOK, [Next]_vars PROVE TypeOK'
    OBVIOUS
  <2>0. NoDecision \in [event : {"none", "down", "up"}, suppress : BOOLEAN, mask : BOOLEAN]
    BY DEF NoDecision
  <2>1. ASSUME NEW c \in Code, NEW k \in Key, KeyDown(c, k) PROVE TypeOK'
    BY <2>1, TypingKeyDown
  <2>2. ASSUME NEW c \in Code, NEW k \in Key, KeyUp(c, k) PROVE TypeOK'
    BY <2>2, TypingKeyUp
  <2>3. ASSUME NEW c \in Code, NEW k \in Key, OffDown(c, k) PROVE TypeOK'
    BY <2>0, <2>3 DEF OffDown, PassDown, engineVars, resyncVars, TypeOK, Fates
  <2>4. ASSUME NEW c \in Code, NEW k \in Key, OffUp(c, k) PROVE TypeOK'
    BY <2>0, <2>4 DEF OffUp, PassUp, engineVars, resyncVars, TypeOK, Fates
  <2>5. ASSUME NEW k \in Key, UnseenDown(k) PROVE TypeOK'
    BY <2>0, <2>5 DEF UnseenDown, Stale, engineVars, resyncVars, TypeOK, Fates, Code
  <2>6. ASSUME NEW k \in Key, UnseenUp(k) PROVE TypeOK'
    BY <2>0, <2>6 DEF UnseenUp, Stale, engineVars, resyncVars, TypeOK, Fates
  <2>7. ASSUME NEW k \in Key, NEW isDown \in BOOLEAN, Inject(k, isDown) PROVE TypeOK'
    <3>1. active' \subseteq Code /\ fresh' \subseteq Modifier
      <4>1. k \in Code
        BY DEF Code
      <4> QED BY <2>7, <4>1, TouchedByType DEF Inject, Tracked, TypeOK
    <3>2. stale' \subseteq Sided /\ injected' \subseteq Key /\ fate' \in [Key -> Fates]
      BY <2>7 DEF Inject, Stale, TypeOK, Fates
    <3>3. win' \subseteq Key /\ rising' \subseteq Key /\ falling' \subseteq Key /\ hooked' \in BOOLEAN
      BY <2>7 DEF Inject, PassDown, TypeOK
    <3> QED BY <2>0, <2>7, <3>1, <3>2, <3>3 DEF Inject, TypeOK
  <2>8. CASE Apply
    BY <2>0, <2>8 DEF Apply, WinSoon, engineVars, resyncVars, TypeOK
  <2>9. CASE Switch
    BY <2>0, <2>9, TypingReset DEF Switch, Served, TypeOK
  <2>10. CASE Reload
    BY <2>0, <2>10 DEF Reload, Served, resyncVars, TypeOK
  <2>11. CASE Reinstall
    BY <2>0, <2>11, TypingReset DEF Reinstall, Served, TypeOK
  <2>12. CASE InputLeft
    BY <2>0, <2>12, FateTypes DEF InputLeft, Served, Untracked, TypeOK, Fates
  <2>13. CASE InputReturned
    BY <2>0, <2>13 DEF InputReturned, Served, engineVars, TypeOK
  <2>14. CASE ForegroundChanged
    BY <2>0, <2>14 DEF ForegroundChanged, engineVars, winVars, TypeOK
  <2>15. CASE NoteHidden
    BY <2>0, <2>15 DEF NoteHidden, engineVars, resyncVars, winVars, TypeOK
  <2>16. CASE Unhook
    BY <2>0, <2>16 DEF Unhook, engineVars, resyncVars, TypeOK
  <2>17. CASE Drain
    BY <2>17, TypingDrain
  <2>18. CASE UNCHANGED vars
    BY <2>18 DEF vars, TypeOK
  <2> QED BY <2>1, <2>2, <2>3, <2>4, <2>5, <2>6, <2>7, <2>8, <2>9, <2>10, <2>11,
             <2>12, <2>13, <2>14, <2>15, <2>16, <2>17, <2>18 DEF Next
<1> QED BY <1>1, <1>2, PTL DEF Spec

-----------------------------------------------------------------------------
(* One lemma per action, each by one step per conjunct it can disturb.        *)

(* What a key event needs of the state it finds.                              *)
LEMMA Presence ==
    ASSUME TypeOK, PathInv, Inflight = {}
    PROVE  /\ rising = {} /\ falling = {} /\ WinSoon = win
           /\ \A k \in Key : held[k] # None => held[k] \in Code
           /\ \A k \in Key : held[k] # None /\ k \in win => held[k] \in Down
           /\ \A k \in Key : k \in Down <=> k \in win
<1>1. rising = {} /\ falling = {} /\ WinSoon = win
  BY DEF Inflight, WinSoon
<1>2. \A k \in Key : held[k] # None => held[k] \in Code
  BY DEF TypeOK
<1>3. \A k \in Key : held[k] # None /\ k \in win => held[k] \in Down
  BY DEF PathInv, HeldByOne, Down, ReadsDown
<1>4. \A k \in Key : k \in Down <=> k \in win
  BY KeysAssumption DEF Down, ReadsDown
<1> QED BY <1>1, <1>2, <1>3, <1>4

(* The check of the held modifiers drops no key that Windows has down, and no *)
(* swallowed one.                                                             *)
LEMMA ClearKeeps ==
    ASSUME NEW act, NEW r, NEW own, NEW among, NEW s, NEW c \in act,
           c \in s \/ r[c] = "Suppressed" \/ c = own
    PROVE  c \in ClearReleased(act, r, own, among, s)
BY DEF ClearReleased

(* A completion leaves a passed record and a swallowed one as they are.       *)
LEMMA CompletedKeeps ==
    ASSUME NEW act, NEW r, NEW keys, NEW c \in Code
    PROVE  /\ r[c] = "Passed" => Completed(act, r, keys)[c] = "Passed"
           /\ r[c] \in Kept => Completed(act, r, keys)[c] \in Kept
           /\ r[c] = "Suppressed" => Completed(act, r, keys)[c] = "Suppressed"
BY DEF Completed, Kept

(* What a key-down leaves on record agrees with whether it was swallowed, and *)
(* a repeat does what its key-down did.                                       *)
LEMMA DownRule ==
    ASSUME NEW repeat \in BOOLEAN, NEW ask \in BOOLEAN, NEW old \in LastDown
    PROVE  /\ DownSwallowed(repeat, old, ask) => RecordOfDown(repeat, old, ask) \in Kept
           /\ ~DownSwallowed(repeat, old, ask) => RecordOfDown(repeat, old, ask) = "Passed"
           /\ DownSwallowed(repeat, old, ask) /\ ~repeat
                  => RecordOfDown(repeat, old, ask) = "Suppressed"
           /\ repeat /\ old = "Suppressed"
                  => /\ DownSwallowed(repeat, old, ask)
                     /\ RecordOfDown(repeat, old, ask) = "Suppressed"
           /\ repeat /\ old = "Passed" => ~DownSwallowed(repeat, old, ask)
<1>1. CASE repeat /\ old = "Suppressed"
  BY <1>1 DEF DownSwallowed, RecordOfDown, Kept
<1>2. CASE repeat /\ old = "Passed"
  BY <1>2 DEF DownSwallowed, RecordOfDown, Kept
<1>3. CASE repeat /\ old \notin {"Suppressed", "Passed"} /\ ask
  BY <1>3 DEF DownSwallowed, RecordOfDown, Kept
<1>4. CASE repeat /\ old \notin {"Suppressed", "Passed"} /\ ~ask
  BY <1>4 DEF DownSwallowed, RecordOfDown, Kept
<1>5. CASE ~repeat /\ ask
  BY <1>5 DEF DownSwallowed, RecordOfDown, Kept
<1>6. CASE ~repeat /\ ~ask
  BY <1>6 DEF DownSwallowed, RecordOfDown, Kept
<1> QED BY <1>1, <1>2, <1>3, <1>4, <1>5, <1>6

LEMMA StepKeyDown ==
    ASSUME TypeOK, PathInv, NEW c \in Code, NEW k \in Key, KeyDown(c, k)
    PROVE  PathInv'
<1> PICK ask \in BOOLEAN, swallowedLater \in SwallowedLater(k),
         done \in (IF "chord" \in Feature THEN SUBSET (active \cup {c}) ELSE {{}}),
         maskOnly \in (IF "maskonly" \in Feature THEN BOOLEAN ELSE {FALSE}) :
         Decide(c, k, ask, done, maskOnly, swallowedLater)
  BY DEF KeyDown
<1> DEFINE kept    == ClearReleased(active, record, c, Modifier, Down)
           repeat  == c \in kept
           pressed == kept \cup {c}
           before  == Completed(pressed, record, done)
           after   == [before EXCEPT ![c] = RecordOfDown(repeat, before[c], ask)]
           swallow == DownSwallowed(repeat, before[c], ask)
<1>0. /\ Inflight = {} /\ CanPress(c, k) /\ enabled /\ hooked
      /\ UNCHANGED <<enabled, injected>> /\ hooked' = hooked
      /\ held' = [held EXCEPT ![k] = c]
      /\ active' = pressed /\ record' = after
      /\ (done # {} => ask /\ ~repeat)
      /\ fate' = [fate EXCEPT ![k] =
                      FateOfDown(c, k, repeat, swallow, swallowedLater)]
      /\ win' = win /\ falling' = falling
      /\ rising' = IF swallow \/ swallowedLater THEN rising ELSE {k}
  <2>1. Inflight = {} => rising = {}
    BY DEF Inflight
  <2> QED BY <2>1 DEF KeyDown, Deliverable, Decide, winVars, PassDown
<1>1. /\ rising = {} /\ falling = {} /\ WinSoon = win
      /\ (k \in Down <=> k \in win)
      /\ \A j \in Key : held[j] # None => held[j] \in Code
      /\ \A j \in Key : held[j] # None /\ j \in win => held[j] \in Down
  BY <1>0, Presence
<1>2. /\ kept \subseteq Code /\ repeat \in BOOLEAN /\ swallow \in BOOLEAN
      /\ before \in [Code -> LastDown] /\ record' \in [Code -> LastDown]
  <2>1. kept \subseteq Code
    BY DEF ClearReleased, TypeOK
  <2>2. before \in [Code -> LastDown]
    BY CompletedType DEF TypeOK
  <2>4. repeat \in BOOLEAN
    OBVIOUS
  <2> HIDE DEF kept, before, repeat
  <2>3. RecordOfDown(repeat, before[c], ask) \in LastDown /\ swallow \in BOOLEAN
    BY <2>2, <2>4, DownTypes
  <2> QED BY <1>0, <2>1, <2>2, <2>3, <2>4
<1>3. repeat <=> c \in active
  BY DEF ClearReleased
<1>4. repeat => before[c] = record[c]
  BY <1>0 DEF Completed
<1>5. /\ swallow => record'[c] \in Kept
      /\ ~swallow => record'[c] = "Passed"
      /\ swallow /\ ~repeat => record'[c] = "Suppressed"
      /\ repeat /\ record[c] = "Suppressed" => swallow /\ record'[c] = "Suppressed"
      /\ repeat /\ record[c] = "Passed" => ~swallow
  <2>1. record'[c] = RecordOfDown(repeat, before[c], ask)
    BY <1>0, <1>2
  <2>2. before[c] \in LastDown
    BY <1>2
  <2> HIDE DEF kept, before, repeat
  <2> QED BY <1>2, <1>4, <2>1, <2>2, DownRule
<1>6. \A d \in Code \ {c} :
         /\ record[d] = "Passed" => record'[d] = "Passed"
         /\ record[d] \in Kept => record'[d] \in Kept
         /\ record[d] = "Suppressed" => record'[d] = "Suppressed"
  <2>1. \A d \in Code \ {c} : record'[d] = before[d]
    BY <1>0, <1>2
  <2> QED BY <2>1, CompletedKeeps
<1>7. /\ c \in active'
      /\ \A d \in active : d \in Down \/ record[d] = "Suppressed" => d \in active'
  BY <1>0, ClearKeeps
<1> HIDE DEF kept, repeat, pressed, before, after, swallow
<1>8. /\ held'[k] = c
      /\ \A j \in Key \ {k} : held'[j] = held[j] /\ fate'[j] = fate[j]
      /\ fate'[k] = FateOfDown(c, k, repeat, swallow, swallowedLater)
  BY <1>0 DEF TypeOK
<1>9. /\ c # None
      /\ held[k] = c \/ held[k] = None
      /\ k = c \/ (c \in Generic /\ k \in Pair[c])
      /\ \A j \in Key : held[j] = c => j = k
  BY <1>0, PathAssumption DEF CanPress, PathInv, HeldByOne
<1>10. /\ held[k] # None => swallowedLater = (fate[k] = "later")
       /\ swallowedLater \in BOOLEAN
  BY DEF SwallowedLater
<1>11. HeldByOne'
  BY <1>8, <1>9 DEF PathInv, HeldByOne
<1>12. OneInflight'
  BY <1>0, <1>1 DEF OneInflight, Inflight
<1>13. WinSoon' = win \cup rising' /\ Inflight' = rising'
  BY <1>0, <1>1 DEF WinSoon, Inflight
<1>14. SoonHeld'
  <2>1. ASSUME NEW j \in WinSoon', j # k
        PROVE  j \in injected' \/ (held'[j] # None /\ fate'[j] # "later")
    BY <1>0, <1>1, <1>8, <1>13, <2>1 DEF PathInv, SoonHeld, TypeOK
  <2>2. ASSUME k \in WinSoon'
        PROVE  k \in injected' \/ (held'[k] # None /\ fate'[k] # "later")
    <3>1. CASE k \in win
      BY <1>0, <1>1, <1>8, <1>9, <1>10, <3>1 DEF PathInv, SoonHeld, FateOfDown
    <3>2. CASE k \notin win
      <4>1. ~swallow /\ ~swallowedLater
        BY <1>0, <1>1, <1>13, <2>2, <3>2
      <4> QED BY <1>8, <1>9, <1>10, <4>1 DEF FateOfDown
    <3> QED BY <3>1, <3>2
  <2> QED BY <2>1, <2>2 DEF SoonHeld
<1>15. RecordsMatch'
  <2>1. ASSUME NEW j \in Key, j # k, held'[j] # None,
               fate'[j] \notin {"cut", "later"}, j \notin Inflight'
        PROVE  j \in win' \/ record'[held'[j]] \in Kept
    <3>1. held[j] \in Code \ {c} /\ j \notin Inflight
      BY <1>0, <1>1, <1>8, <1>9, <2>1
    <3>2. j \in win \/ record[held[j]] \in Kept
      BY <1>8, <2>1, <3>1 DEF PathInv, RecordsMatch
    <3> QED BY <1>0, <1>6, <1>8, <2>1, <3>1, <3>2
  <2>2. ASSUME fate'[k] \notin {"cut", "later"}, k \notin Inflight'
        PROVE  k \in win' \/ record'[held'[k]] \in Kept
    <3>1. swallow \/ swallowedLater
      BY <1>0, <1>13, <2>2
    <3>2. CASE swallow
      BY <1>5, <1>8, <3>2
    <3>3. CASE ~swallow /\ swallowedLater
      BY <1>8, <1>9, <1>10, <2>2, <3>3 DEF FateOfDown
    <3> QED BY <1>2, <3>1, <3>2, <3>3
  <2> QED BY <2>1, <2>2 DEF RecordsMatch
<1>16. PassedOnRecord'
  <2>1. ASSUME NEW j \in Key, j # k, fate'[j] = "passed"
        PROVE  /\ held'[j] # None /\ j \in WinSoon'
               /\ record'[held'[j]] = "Passed" /\ held'[j] \in active'
    <3>1. /\ held[j] # None /\ j \in win
          /\ record[held[j]] = "Passed" /\ held[j] \in active
      BY <1>0, <1>1, <1>8, <2>1 DEF PathInv, PassedOnRecord
    <3>2. held[j] \in Code \ {c} /\ held[j] \in Down
      BY <1>1, <1>9, <2>1, <3>1
    <3> QED BY <1>6, <1>7, <1>8, <1>13, <2>1, <3>1, <3>2
  <2>2. ASSUME fate'[k] = "passed"
        PROVE  /\ held'[k] # None /\ k \in WinSoon'
               /\ record'[held'[k]] = "Passed" /\ held'[k] \in active'
    <3>1. ~swallow /\ ~swallowedLater
      <4>1. CASE held[k] = None
        BY <1>2, <1>8, <1>10, <2>2, <4>1 DEF FateOfDown
      <4>2. CASE held[k] # None
        <5>1. fate[k] = "passed"
          BY <1>8, <2>2, <4>2 DEF FateOfDown
        <5>2. repeat /\ record[c] = "Passed"
          BY <1>0, <1>3, <1>9, <4>2, <5>1 DEF PathInv, PassedOnRecord
        <5> QED BY <1>5, <1>10, <4>2, <5>1, <5>2
      <4> QED BY <4>1, <4>2
    <3> QED BY <1>0, <1>5, <1>7, <1>8, <1>9, <1>13, <3>1
  <2> QED BY <2>1, <2>2 DEF PassedOnRecord
<1>17. SwallowedOnRecord'
  <2>1. ASSUME NEW j \in Key, j # k, fate'[j] = "swallowed"
        PROVE  /\ held'[j] = j /\ j \notin WinSoon'
               /\ record'[j] = "Suppressed" /\ j \in active'
    <3>1. /\ held[j] = j /\ j \notin win
          /\ record[j] = "Suppressed" /\ j \in active /\ j \in Code
      BY <1>1, <1>8, <2>1 DEF PathInv, SwallowedOnRecord, Code
    <3>2. j # c
      BY <1>9, <2>1, <3>1
    <3> QED BY <1>0, <1>1, <1>6, <1>7, <1>8, <1>13, <2>1, <3>1, <3>2
  <2>2. ASSUME fate'[k] = "swallowed"
        PROVE  /\ held'[k] = k /\ k \notin WinSoon'
               /\ record'[k] = "Suppressed" /\ k \in active'
    <3>1. swallow /\ k \notin win /\ record'[c] = "Suppressed" /\ c = k
      <4>1. CASE held[k] = None
        <5>1. swallow /\ ~repeat /\ k \notin win /\ c \notin Generic
          BY <1>2, <1>8, <1>10, <2>2, <4>1 DEF FateOfDown
        <5> QED BY <1>5, <1>9, <5>1
      <4>2. CASE held[k] # None
        <5>1. fate[k] = "swallowed"
          BY <1>8, <2>2, <4>2 DEF FateOfDown
        <5>2. held[k] = k /\ k \notin win /\ record[k] = "Suppressed" /\ k \in active
          BY <1>1, <5>1 DEF PathInv, SwallowedOnRecord
        <5>3. c = k /\ repeat
          BY <1>3, <1>9, <4>2, <5>2
        <5> QED BY <1>5, <5>2, <5>3
      <4> QED BY <4>1, <4>2
    <3> QED BY <1>0, <1>1, <1>7, <1>8, <1>13, <3>1
  <2> QED BY <1>0, <2>1, <2>2 DEF SwallowedOnRecord
<1>18. PressWhole'
  <2>1. ASSUME fate'[k] = "broken" PROVE FALSE
    <3>1. fate[k] # "broken"
      BY DEF PathInv, PressWhole
    <3>2. CASE fate[k] = "passed" /\ held[k] # None /\ swallow
      <4>1. record[c] = "Passed" /\ c \in active
        BY <1>0, <1>9, <3>2 DEF PathInv, PassedOnRecord
      <4> QED BY <1>3, <1>5, <3>2, <4>1
    <3>3. CASE fate[k] = "swallowed" /\ held[k] # None /\ ~swallow
      <4>1. c = k /\ record[c] = "Suppressed" /\ c \in active
        BY <1>9, <3>3 DEF PathInv, SwallowedOnRecord
      <4> QED BY <1>3, <1>5, <3>3, <4>1
    <3> QED BY <1>8, <2>1, <3>1, <3>2, <3>3 DEF FateOfDown
  <2> QED BY <1>8, <2>1 DEF PathInv, PressWhole
<1> QED BY <1>11, <1>12, <1>14, <1>15, <1>16, <1>17, <1>18 DEF PathInv

LEMMA StepKeyUp ==
    ASSUME TypeOK, PathInv, NEW c \in Code, NEW k \in Key, KeyUp(c, k)
    PROVE  /\ PathInv'
           /\ ~decision'.suppress /\ fate[k] \notin {"cut", "later"} => c \in Down
           /\ falling' \subseteq {k}
<1> PICK bound \in BOOLEAN :
        LET released == active \ {c}
            after    == [record EXCEPT ![c] = "Unknown"]
            swallow  == UpSwallowed(c, bound)
            checked  == IF swallow
                        THEN ClearReleased(released, after, c, Menu, Down)
                        ELSE released
        IN  /\ active' = checked
            /\ record' = after
            /\ maskOwed' = FALSE
            /\ decision' = [event |-> "up", suppress |-> swallow,
                            mask |-> \/ maskOwed
                                     \/ swallow /\ MenuDown(checked, after)]
            /\ fate' = [fate EXCEPT ![k] =
                            CASE fate[k] = "passed" /\ swallow     -> "broken"
                              [] fate[k] = "swallowed" /\ ~swallow -> "broken"
                              [] OTHER                             -> "none"]
            /\ stale' = (IF ~swallow /\ (c # k \/ fate[k] = "later")
                         THEN Stale({k}) ELSE stale \ ({c} \cap {k}))
            /\ IF swallow THEN UNCHANGED winVars ELSE PassUp(k)
  BY DEF KeyUp
<1> DEFINE swallow == UpSwallowed(c, bound)
<1>0. /\ Inflight = {} /\ enabled /\ hooked /\ held[k] = c
      /\ UNCHANGED <<enabled, injected>> /\ hooked' = hooked
      /\ held' = [held EXCEPT ![k] = None]
      /\ record' = [record EXCEPT ![c] = "Unknown"]
      /\ decision'.suppress = swallow
      /\ win' = win /\ rising' = rising
      /\ falling' = IF swallow \/ fate[k] = "later" THEN falling ELSE {k}
  <2>1. Inflight = {} => falling = {}
    BY DEF Inflight
  <2> QED BY <2>1 DEF KeyUp, Deliverable, winVars, PassUp
<1>1. /\ rising = {} /\ falling = {} /\ WinSoon = win
      /\ (k \in Down <=> k \in win)
      /\ \A j \in Key : held[j] # None => held[j] \in Code
      /\ \A j \in Key : held[j] # None /\ j \in win => held[j] \in Down
  BY <1>0, Presence
<1>2. /\ c # None /\ \A j \in Key : held[j] = c => j = k
      /\ k = c \/ (c \in Generic /\ k \in Pair[c])
  BY <1>0, PathAssumption DEF PathInv, HeldByOne
<1>3. \A d \in active \ {c} : d \in Down \/ record[d] = "Suppressed" => d \in active'
  BY DEF ClearReleased, TypeOK
<1>4. \A d \in Code \ {c} : record'[d] = record[d]
  BY <1>0 DEF TypeOK
<1>5. /\ held'[k] = None
      /\ \A j \in Key \ {k} : held'[j] = held[j] /\ fate'[j] = fate[j]
      /\ fate'[k] = CASE fate[k] = "passed" /\ swallow     -> "broken"
                      [] fate[k] = "swallowed" /\ ~swallow -> "broken"
                      [] OTHER                             -> "none"
  BY <1>0 DEF TypeOK
<1>6. /\ swallow => c \notin Down
      /\ swallow => record[c] # "Passed"
      /\ ~swallow => record[c] \notin Kept \/ c \in Down
  BY DEF UpSwallowed, Kept
<1> HIDE DEF swallow
<1>7. k \in win => c \in Down
  BY <1>0, <1>1, <1>2
<1>8. /\ fate[k] = "passed" => record[c] = "Passed" /\ k \in win
      /\ fate[k] = "swallowed" => record[c] = "Suppressed" /\ c = k /\ k \notin win
  BY <1>0, <1>1 DEF PathInv, PassedOnRecord, SwallowedOnRecord
<1>9. fate'[k] = "none"
  <2>1. ~(fate[k] = "passed" /\ swallow)
    BY <1>6, <1>8
  <2>2. ~(fate[k] = "swallowed" /\ ~swallow)
    BY <1>1, <1>6, <1>8 DEF Kept
  <2> QED BY <1>5, <2>1, <2>2
<1>10. falling' \subseteq {k} /\ Inflight' = falling' /\ WinSoon' = win \ falling'
  BY <1>0, <1>1 DEF Inflight, WinSoon
<1>11. HeldByOne'
  BY <1>5 DEF PathInv, HeldByOne
<1>12. OneInflight'
  BY <1>0, <1>1, <1>5, <1>10 DEF OneInflight, Inflight
<1>13. SoonHeld'
  <2>1. ASSUME NEW j \in WinSoon', j # k
        PROVE  j \in injected' \/ (held'[j] # None /\ fate'[j] # "later")
    BY <1>0, <1>1, <1>5, <1>10, <2>1 DEF PathInv, SoonHeld, TypeOK
  <2>2. ASSUME k \in WinSoon' PROVE k \in injected'
    <3>1. k \in win /\ ~swallow
      BY <1>6, <1>7, <1>10, <2>2
    <3>2. fate[k] = "later"
      BY <1>0, <1>10, <2>2, <3>1
    <3> QED BY <1>0, <1>1, <3>1, <3>2 DEF PathInv, SoonHeld
  <2> QED BY <2>1, <2>2 DEF SoonHeld
<1>14. RecordsMatch'
  <2>1. ASSUME NEW j \in Key, held'[j] # None,
               fate'[j] \notin {"cut", "later"}, j \notin Inflight'
        PROVE  j \in win' \/ record'[held'[j]] \in Kept
    <3>1. j # k /\ held[j] \in Code \ {c} /\ j \notin Inflight
      BY <1>0, <1>1, <1>2, <1>5, <2>1
    <3>2. j \in win \/ record[held[j]] \in Kept
      BY <1>5, <2>1, <3>1 DEF PathInv, RecordsMatch
    <3> QED BY <1>0, <1>4, <1>5, <3>1, <3>2
  <2> QED BY <2>1 DEF RecordsMatch
<1>15. PassedOnRecord'
  <2>1. ASSUME NEW j \in Key, fate'[j] = "passed"
        PROVE  /\ held'[j] # None /\ j \in WinSoon'
               /\ record'[held'[j]] = "Passed" /\ held'[j] \in active'
    <3>0. j # k /\ fate[j] = "passed"
      BY <1>5, <1>9, <2>1
    <3>1. /\ held[j] # None /\ j \in win
          /\ record[held[j]] = "Passed" /\ held[j] \in active
      BY <1>0, <1>1, <3>0 DEF PathInv, PassedOnRecord
    <3>2. held[j] \in Code \ {c} /\ held[j] \in Down
      BY <1>1, <1>2, <3>0, <3>1
    <3> QED BY <1>3, <1>4, <1>5, <1>10, <3>0, <3>1, <3>2
  <2> QED BY <2>1 DEF PassedOnRecord
<1>16. SwallowedOnRecord'
  <2>1. ASSUME NEW j \in Key, fate'[j] = "swallowed"
        PROVE  /\ enabled' /\ held'[j] = j /\ j \notin WinSoon'
               /\ record'[j] = "Suppressed" /\ j \in active'
    <3>0. j # k /\ fate[j] = "swallowed"
      BY <1>5, <1>9, <2>1
    <3>1. /\ held[j] = j /\ j \notin win
          /\ record[j] = "Suppressed" /\ j \in active /\ j \in Code
      BY <1>1, <3>0 DEF PathInv, SwallowedOnRecord, Code
    <3> QED BY <1>0, <1>2, <1>3, <1>4, <1>5, <1>10, <3>0, <3>1
  <2> QED BY <2>1 DEF SwallowedOnRecord
<1>17. PressWhole'
  BY <1>5, <1>9 DEF PathInv, PressWhole
<1>18. ~decision'.suppress /\ fate[k] \notin {"cut", "later"} => c \in Down
  BY <1>0, <1>1, <1>2, <1>6, <1>7 DEF PathInv, RecordsMatch
<1> QED BY <1>10, <1>11, <1>12, <1>13, <1>14, <1>15, <1>16, <1>17, <1>18 DEF PathInv

(* What OffDown and OffUp share with the steps that leave the table alone.    *)
LEMMA StepOffDown ==
    ASSUME TypeOK, PathInv, NEW c \in Code, NEW k \in Key, OffDown(c, k)
    PROVE  PathInv'
<1>0. /\ Inflight = {} /\ ~enabled /\ CanPress(c, k)
      /\ UNCHANGED <<active, record, enabled, hooked, injected, win, falling>>
      /\ held' = [held EXCEPT ![k] = c]
      /\ fate' = [fate EXCEPT ![k] = IF held[k] = None THEN "passed" ELSE fate[k]]
      /\ rising' = IF fate[k] = "later" /\ held[k] # None THEN {} ELSE {k}
  BY DEF OffDown, Deliverable, PassDown, engineVars
<1>1. rising = {} /\ falling = {} /\ WinSoon = win
  BY <1>0, Presence
<1>2. /\ c # None /\ held[k] \in {c, None}
      /\ k = c \/ (c \in Generic /\ k \in Pair[c])
      /\ \A j \in Key : held[j] = c => j = k
  BY <1>0, PathAssumption DEF CanPress, PathInv, HeldByOne
<1>3. /\ held'[k] = c
      /\ \A j \in Key \ {k} : held'[j] = held[j] /\ fate'[j] = fate[j]
      /\ fate'[k] = IF held[k] = None THEN "passed" ELSE fate[k]
  BY <1>0 DEF TypeOK
<1>4. Inflight' = rising' /\ WinSoon' = win \cup rising'
  BY <1>0, <1>1 DEF Inflight, WinSoon
<1>5. HeldByOne'
  BY <1>2, <1>3 DEF PathInv, HeldByOne
<1>6. OneInflight'
  BY <1>0, <1>1 DEF OneInflight, Inflight
<1>7. SoonHeld'
  BY <1>0, <1>1, <1>2, <1>3, <1>4 DEF PathInv, SoonHeld, TypeOK
<1>8. RecordsMatch'
  BY <1>0, <1>1, <1>3, <1>4 DEF PathInv, RecordsMatch, Inflight
<1>9. PassedOnRecord'
  BY <1>0, <1>1, <1>2, <1>3, <1>4 DEF PathInv, PassedOnRecord
<1>10. SwallowedOnRecord' /\ PressWhole'
  BY <1>0, <1>3 DEF PathInv, SwallowedOnRecord, PressWhole
<1> QED BY <1>5, <1>6, <1>7, <1>8, <1>9, <1>10 DEF PathInv

LEMMA StepOffUp ==
    ASSUME TypeOK, PathInv, NEW c \in Code, NEW k \in Key, OffUp(c, k)
    PROVE  PathInv'
<1>0. /\ Inflight = {} /\ ~enabled /\ held[k] = c
      /\ UNCHANGED <<active, record, enabled, hooked, injected, win, rising>>
      /\ held' = [held EXCEPT ![k] = None]
      /\ fate' = [fate EXCEPT ![k] = "none"]
      /\ falling' = IF fate[k] = "later" THEN {} ELSE {k}
  BY DEF OffUp, Deliverable, PassUp, engineVars
<1>1. rising = {} /\ falling = {} /\ WinSoon = win
  BY <1>0, Presence
<1>3. /\ held'[k] = None /\ fate'[k] = "none"
      /\ \A j \in Key \ {k} : held'[j] = held[j] /\ fate'[j] = fate[j]
  BY <1>0 DEF TypeOK
<1>4. Inflight' = falling' /\ WinSoon' = win \ falling'
  BY <1>0, <1>1 DEF Inflight, WinSoon
<1>5. HeldByOne'
  BY <1>3 DEF PathInv, HeldByOne
<1>6. OneInflight'
  BY <1>0, <1>1, <1>3 DEF OneInflight, Inflight
<1>7. SoonHeld'
  BY <1>0, <1>1, <1>3, <1>4 DEF PathInv, SoonHeld, TypeOK
<1>8. RecordsMatch'
  BY <1>0, <1>1, <1>3, <1>4 DEF PathInv, RecordsMatch, Inflight
<1>9. PassedOnRecord' /\ SwallowedOnRecord' /\ PressWhole'
  BY <1>0, <1>1, <1>3, <1>4 DEF PathInv, PassedOnRecord, SwallowedOnRecord, PressWhole
<1> QED BY <1>5, <1>6, <1>7, <1>8, <1>9 DEF PathInv

LEMMA StepUnseenDown ==
    ASSUME TypeOK, PathInv, NEW k \in Key, UnseenDown(k)
    PROVE  PathInv'
<1>0. /\ Inflight = {}
      /\ UNCHANGED <<active, record, enabled, hooked, injected, rising, falling>>
      /\ win' = win \cup {k}
      /\ held' = [held EXCEPT ![k] = IF held[k] = None THEN k ELSE held[k]]
      /\ fate' = [fate EXCEPT ![k] =
                     IF held[k] = None /\ ~hooked THEN "passed"
                     ELSE IF fate[k] = "passed" THEN "passed" ELSE "none"]
  BY DEF UnseenDown, engineVars
<1>1. rising = {} /\ falling = {} /\ WinSoon = win
  BY <1>0, Presence
<1>2. /\ \A j \in Key \ {k} : held'[j] = held[j] /\ fate'[j] = fate[j]
      /\ held'[k] = IF held[k] = None THEN k ELSE held[k]
      /\ fate'[k] = IF held[k] = None /\ ~hooked THEN "passed"
                    ELSE IF fate[k] = "passed" THEN "passed" ELSE "none"
  BY <1>0 DEF TypeOK
<1>3. k # None /\ k \notin Generic /\ k \in Code
  BY PathAssumption, KeysAssumption DEF Code
<1>4. Inflight' = {} /\ WinSoon' = win \cup {k}
  BY <1>0, <1>1 DEF Inflight, WinSoon
<1>5. HeldByOne'
  BY <1>2, <1>3 DEF PathInv, HeldByOne
<1>6. OneInflight'
  BY <1>0, <1>1 DEF OneInflight, Inflight
<1>7. SoonHeld'
  BY <1>0, <1>1, <1>2, <1>3, <1>4 DEF PathInv, SoonHeld, TypeOK
<1>8. RecordsMatch'
  BY <1>0, <1>1, <1>2, <1>4 DEF PathInv, RecordsMatch, Inflight
<1>9. PassedOnRecord'
  BY <1>0, <1>1, <1>2, <1>3, <1>4 DEF PathInv, PassedOnRecord
<1>10. SwallowedOnRecord' /\ PressWhole'
  BY <1>0, <1>1, <1>2, <1>4 DEF PathInv, SwallowedOnRecord, PressWhole
<1> QED BY <1>5, <1>6, <1>7, <1>8, <1>9, <1>10 DEF PathInv

LEMMA StepUnseenUp ==
    ASSUME TypeOK, PathInv, NEW k \in Key, UnseenUp(k)
    PROVE  PathInv'
<1>0. /\ Inflight = {}
      /\ UNCHANGED <<active, record, enabled, hooked, injected, rising, falling>>
      /\ win' = win \ {k}
      /\ held' = [held EXCEPT ![k] = None]
      /\ fate' = [fate EXCEPT ![k] = "none"]
  BY DEF UnseenUp, engineVars
<1>1. rising = {} /\ falling = {} /\ WinSoon = win
  BY <1>0, Presence
<1>2. /\ held'[k] = None /\ fate'[k] = "none"
      /\ \A j \in Key \ {k} : held'[j] = held[j] /\ fate'[j] = fate[j]
  BY <1>0 DEF TypeOK
<1>4. Inflight' = {} /\ WinSoon' = win \ {k}
  BY <1>0, <1>1 DEF Inflight, WinSoon
<1>5. HeldByOne' /\ OneInflight'
  BY <1>0, <1>1, <1>2 DEF PathInv, HeldByOne, OneInflight, Inflight
<1>7. SoonHeld'
  BY <1>0, <1>1, <1>2, <1>4 DEF PathInv, SoonHeld, TypeOK
<1>8. RecordsMatch'
  BY <1>0, <1>1, <1>2, <1>4 DEF PathInv, RecordsMatch, Inflight
<1>9. PassedOnRecord' /\ SwallowedOnRecord' /\ PressWhole'
  BY <1>0, <1>1, <1>2, <1>4 DEF PathInv, PassedOnRecord, SwallowedOnRecord, PressWhole
<1> QED BY <1>5, <1>7, <1>8, <1>9 DEF PathInv

LEMMA StepApply == ASSUME TypeOK, PathInv, Apply PROVE PathInv'
<1>0. /\ UNCHANGED <<active, record, enabled, hooked, held, injected, fate>>
      /\ win' = WinSoon /\ rising' = {} /\ falling' = {}
  BY DEF Apply, engineVars
<1>1. Inflight' = {} /\ WinSoon' = WinSoon
  BY <1>0 DEF Inflight, WinSoon
<1>2. HeldByOne' /\ PressWhole'
  BY <1>0 DEF PathInv, HeldByOne, PressWhole
<1>3. OneInflight'
  BY <1>0 DEF OneInflight, Inflight
<1>4. SoonHeld' /\ PassedOnRecord' /\ SwallowedOnRecord'
  BY <1>0, <1>1 DEF PathInv, SoonHeld, PassedOnRecord, SwallowedOnRecord
<1>5. RecordsMatch'
  <2>1. ASSUME NEW k \in Key, held[k] # None, fate[k] \notin {"cut", "later"}
        PROVE  k \in WinSoon \/ record[held[k]] \in Kept
    <3>1. k \notin falling
      BY <2>1 DEF PathInv, OneInflight
    <3> QED BY <2>1, <3>1 DEF PathInv, RecordsMatch, Inflight, WinSoon
  <2> QED BY <1>0, <2>1 DEF RecordsMatch
<1> QED BY <1>2, <1>3, <1>4, <1>5 DEF PathInv

LEMMA StepInject ==
    ASSUME TypeOK, PathInv, NEW k \in Key, NEW isDown \in BOOLEAN, Inject(k, isDown)
    PROVE  PathInv'
<1>0. /\ Inflight = {}
      /\ UNCHANGED <<record, enabled, hooked, held, win>>
      /\ injected' = (IF isDown THEN injected \cup {k} ELSE injected \ {k})
      /\ rising' = (IF isDown THEN {k} ELSE rising)
      /\ falling' = (IF isDown THEN falling ELSE {k})
      /\ fate' = (IF held[k] = None \/ fate[k] = "later" THEN fate
                  ELSE [fate EXCEPT ![k] = IF isDown THEN "none" ELSE "cut"])
  BY DEF Inject, Deliverable, PassDown
<1>1. rising = {} /\ falling = {} /\ WinSoon = win
  BY <1>0, Presence
<1>2. /\ \A j \in Key \ {k} : fate'[j] = fate[j]
      /\ held[k] # None => fate'[k] \in {"none", "cut", "later"}
      /\ held[k] # None /\ ~isDown => fate'[k] \in {"cut", "later"}
      /\ held[k] = None => fate'[k] = fate[k]
      /\ fate'[k] # "broken"
  BY <1>0 DEF TypeOK, PathInv, PressWhole
<1>3. \A c \in Code \ {k} : c \in active => c \in active'
  BY DEF Inject, Tracked
<1>4. Inflight' = {k} /\ WinSoon' = IF isDown THEN win \cup {k} ELSE win \ {k}
  BY <1>0, <1>1 DEF Inflight, WinSoon
<1>5. HeldByOne'
  BY <1>0 DEF PathInv, HeldByOne
<1>6. OneInflight'
  BY <1>0, <1>1, <1>2, <1>4 DEF OneInflight
<1>7. SoonHeld'
  BY <1>0, <1>1, <1>2, <1>4 DEF PathInv, SoonHeld, TypeOK
<1>8. RecordsMatch'
  BY <1>0, <1>1, <1>2, <1>4 DEF PathInv, RecordsMatch
<1>9. PassedOnRecord'
  <2>1. ASSUME NEW j \in Key, fate'[j] = "passed"
        PROVE  /\ held'[j] # None /\ j \in WinSoon'
               /\ enabled' /\ hooked' => record'[held'[j]] = "Passed" /\ held'[j] \in active'
    <3>1. j # k
      BY <1>2, <2>1 DEF PathInv, PassedOnRecord
    <3>2. /\ held[j] # None /\ j \in win
          /\ enabled /\ hooked => record[held[j]] = "Passed" /\ held[j] \in active
      BY <1>1, <1>2, <2>1, <3>1 DEF PathInv, PassedOnRecord
    <3>3. held[j] \in Code \ {k}
      BY <3>1, <3>2, KeysAssumption DEF PathInv, HeldByOne, TypeOK
    <3> QED BY <1>0, <1>3, <1>4, <3>1, <3>2, <3>3
  <2> QED BY <2>1 DEF PassedOnRecord
<1>10. SwallowedOnRecord'
  <2>1. ASSUME NEW j \in Key, fate'[j] = "swallowed"
        PROVE  /\ enabled' /\ held'[j] = j /\ j \notin WinSoon'
               /\ record'[j] = "Suppressed" /\ j \in active'
    <3>1. fate[j] = "swallowed" => held[j] = j /\ j # None
      BY PathAssumption DEF PathInv, SwallowedOnRecord, Code
    <3>2. j # k /\ fate[j] = "swallowed"
      BY <1>2, <2>1, <3>1
    <3> QED BY <1>0, <1>1, <1>3, <1>4, <3>2 DEF PathInv, SwallowedOnRecord, Code
  <2> QED BY <2>1 DEF SwallowedOnRecord
<1>11. PressWhole'
  BY <1>2 DEF PathInv, PressWhole
<1> QED BY <1>5, <1>6, <1>7, <1>8, <1>9, <1>10, <1>11 DEF PathInv

(* `swch on`, `swch off` and a reinstall: what the reset reads from Windows.  *)
LEMMA StepReset ==
    ASSUME TypeOK, PathInv, ResetFromOs, Served, enabled' \in BOOLEAN, hooked' \in BOOLEAN
    PROVE  PathInv'
<1>0. /\ UNCHANGED <<win, rising, falling, held, injected>>
      /\ active' = ActiveFromOs(Down) /\ record' = RecordFromOs(record, Down)
      /\ fate' = Untracked({k \in Key : fate[k] = "swallowed" \/ k \in Inflight
                                          \/ held[k] \in Generic})
  BY DEF ResetFromOs, Served
<1>1. Inflight' = Inflight /\ WinSoon' = WinSoon
  BY <1>0 DEF Inflight, WinSoon
<1>2. \A k \in Key :
         /\ fate'[k] \in {"cut", "later"} <=> fate[k] \in {"cut", "later"}
         /\ fate'[k] = "later" <=> fate[k] = "later"
         /\ fate'[k] = "passed" => /\ fate[k] = "passed" /\ k \notin Inflight
                                   /\ held[k] \notin Generic
         /\ fate'[k] # "swallowed"
         /\ fate'[k] = "broken" => fate[k] = "broken"
  BY <1>0 DEF Untracked
<1>3. HeldByOne'
  BY <1>0 DEF PathInv, HeldByOne
<1>4. OneInflight'
  BY <1>0, <1>1, <1>2 DEF PathInv, OneInflight, TypeOK
<1>5. SoonHeld'
  BY <1>0, <1>1, <1>2 DEF PathInv, SoonHeld, WinSoon, TypeOK
<1>6. RecordsMatch'
  <2>1. ASSUME NEW k \in Key, held[k] # None, fate[k] \notin {"cut", "later"},
               k \notin Inflight, k \notin win
        PROVE  record'[held[k]] \in Kept
    <3>1. record[held[k]] \in Kept /\ held[k] \in Code
      BY <2>1 DEF PathInv, RecordsMatch, TypeOK
    <3>2. held[k] \notin Down \ Generic
      BY <2>1 DEF PathInv, HeldByOne, Down, ReadsDown
    <3> QED BY <1>0, <3>1, <3>2 DEF RecordFromOs
  <2> QED BY <1>0, <1>1, <1>2, <2>1 DEF RecordsMatch
<1>7. PassedOnRecord'
  <2>1. ASSUME NEW k \in Key, fate'[k] = "passed"
        PROVE  /\ held'[k] # None /\ k \in WinSoon'
               /\ record'[held'[k]] = "Passed" /\ held'[k] \in active'
    <3>1. /\ held[k] # None /\ k \in WinSoon /\ k \notin Inflight
          /\ held[k] \notin Generic
      BY <1>2, <2>1 DEF PathInv, PassedOnRecord
    <3>2. held[k] = k /\ k \in win
      BY <3>1 DEF PathInv, HeldByOne, WinSoon, Inflight
    <3>3. k \in Down \ Generic /\ k \in Code
      BY <3>1, <3>2 DEF Down, ReadsDown, Code
    <3> QED BY <1>0, <1>1, <3>1, <3>2, <3>3 DEF ActiveFromOs, RecordFromOs
  <2> QED BY <2>1 DEF PassedOnRecord
<1>8. SwallowedOnRecord' /\ PressWhole'
  BY <1>2 DEF PathInv, SwallowedOnRecord, PressWhole
<1> QED BY <1>3, <1>4, <1>5, <1>6, <1>7, <1>8 DEF PathInv

LEMMA StepInputLeft == ASSUME TypeOK, PathInv, InputLeft PROVE PathInv'
<1>0. /\ UNCHANGED <<win, rising, falling, held, injected, record, enabled, hooked>>
      /\ fate' = Untracked(Key)
  BY DEF InputLeft, Served
<1>1. Inflight' = Inflight /\ WinSoon' = WinSoon
  BY <1>0 DEF Inflight, WinSoon
<1>2. \A k \in Key :
         /\ fate'[k] \in {"cut", "later"} <=> fate[k] \in {"cut", "later"}
         /\ fate'[k] = "later" <=> fate[k] = "later"
         /\ fate'[k] \notin {"passed", "swallowed"}
         /\ fate'[k] = "broken" => fate[k] = "broken"
  BY <1>0 DEF Untracked
<1>3. HeldByOne' /\ OneInflight' /\ RecordsMatch'
  BY <1>0, <1>1, <1>2 DEF PathInv, HeldByOne, OneInflight, RecordsMatch, TypeOK
<1>4. SoonHeld'
  BY <1>0, <1>1, <1>2 DEF PathInv, SoonHeld, WinSoon, TypeOK
<1>5. PassedOnRecord' /\ SwallowedOnRecord' /\ PressWhole'
  BY <1>2 DEF PathInv, PassedOnRecord, SwallowedOnRecord, PressWhole
<1> QED BY <1>3, <1>4, <1>5 DEF PathInv

(* The drain's read drops no key that Windows has down or that is swallowed:  *)
(* one whose key-down is not applied yet is left out as fresh.                *)
LEMMA StepDrain == ASSUME TypeOK, PathInv, Drain PROVE PathInv'
<1>0. UNCHANGED <<record, enabled, hooked, win, rising, falling, held, injected, fate>>
  BY DEF Drain, winVars
<1>1. Inflight' = Inflight /\ WinSoon' = WinSoon
  BY <1>0 DEF Inflight, WinSoon
<1>2. HeldByOne' /\ OneInflight' /\ SoonHeld' /\ RecordsMatch' /\ PressWhole'
  BY <1>0, <1>1 DEF PathInv, HeldByOne, OneInflight, SoonHeld, RecordsMatch, PressWhole
<1>3. ASSUME NEW c \in active,
             \/ record[c] = "Suppressed" \/ c \in Down
             \/ \E k \in Inflight : c \in TouchedBy(k) \/ c \notin Modifier
      PROVE  c \in active'
  <2>1. CASE active' = active
    BY <2>1
  <2>2. CASE /\ active' = Reread(active, record, ToRead, Down)
             /\ \A k \in Inflight : TouchedBy(k) \cap Planned \subseteq fresh
    <3>1. Planned \subseteq Modifier
      BY DEF Planned, TypeOK
    <3>2. c \in ToRead => record[c] = "Suppressed" \/ c \in Down
      BY <1>3, <2>2, <3>1 DEF ToRead
    <3> QED BY <2>2, <3>2 DEF Reread
  <2> QED BY <2>1, <2>2 DEF Drain, ReadModifiers
<1>4. PassedOnRecord'
  <2>1. ASSUME NEW k \in Key, fate[k] = "passed", enabled, hooked
        PROVE  held[k] \in active'
    <3>1. /\ held[k] # None /\ k \in WinSoon /\ held[k] \in active
          /\ k = held[k] \/ (held[k] \in Generic /\ k \in Pair[held[k]])
      BY <2>1 DEF PathInv, PassedOnRecord, HeldByOne
    <3>2. CASE k \in win
      BY <1>3, <3>1, <3>2 DEF Down, ReadsDown
    <3>3. CASE k \in Inflight
      <4>1. held[k] \in TouchedBy(k) \/ held[k] \notin Modifier
        BY <3>1 DEF TouchedBy, Modifier
      <4> QED BY <1>3, <3>1, <3>3, <4>1
    <3> QED BY <3>1, <3>2, <3>3 DEF WinSoon, Inflight
  <2> QED BY <1>0, <1>1, <2>1 DEF PathInv, PassedOnRecord
<1>5. SwallowedOnRecord'
  BY <1>0, <1>1, <1>3 DEF PathInv, SwallowedOnRecord
<1> QED BY <1>2, <1>4, <1>5 DEF PathInv

(* A step that leaves the keys alone; Windows may remove the hook in it.      *)
LEMMA StepFrame ==
    ASSUME PathInv,
           UNCHANGED <<active, record, enabled, win, rising, falling, held, injected, fate>>,
           UNCHANGED hooked \/ ~hooked'
    PROVE  PathInv'
<1>1. Inflight' = Inflight /\ WinSoon' = WinSoon
  BY DEF Inflight, WinSoon
<1>2. HeldByOne' /\ OneInflight' /\ SoonHeld' /\ RecordsMatch' /\ PressWhole'
  BY <1>1 DEF PathInv, HeldByOne, OneInflight, SoonHeld, RecordsMatch, PressWhole
<1>3. PassedOnRecord' /\ SwallowedOnRecord'
  BY <1>1 DEF PathInv, PassedOnRecord, SwallowedOnRecord
<1> QED BY <1>2, <1>3 DEF PathInv
-----------------------------------------------------------------------------
LEMMA InitPathInv == Init => PathInv
BY DEF Init, PathInv, HeldByOne, OneInflight, SoonHeld, RecordsMatch, PassedOnRecord,
       SwallowedOnRecord, PressWhole, Inflight, WinSoon

LEMMA StepPathInv == TypeOK /\ PathInv /\ [Next]_vars => PathInv'
<1> SUFFICES ASSUME TypeOK, PathInv, [Next]_vars PROVE PathInv'
  OBVIOUS
<1>1. ASSUME NEW c \in Code, NEW k \in Key,
             KeyDown(c, k) \/ KeyUp(c, k) \/ OffDown(c, k) \/ OffUp(c, k)
      PROVE  PathInv'
  BY <1>1, StepKeyDown, StepKeyUp, StepOffDown, StepOffUp
<1>2. ASSUME NEW k \in Key, UnseenDown(k) \/ UnseenUp(k) PROVE PathInv'
  BY <1>2, StepUnseenDown, StepUnseenUp
<1>3. ASSUME NEW k \in Key, NEW isDown \in BOOLEAN, Inject(k, isDown) PROVE PathInv'
  BY <1>3, StepInject
<1>4. CASE Apply
  BY <1>4, StepApply
<1>5. CASE Switch
  BY <1>5, StepReset DEF Switch, TypeOK
<1>6. CASE Reinstall
  BY <1>6, StepReset DEF Reinstall, TypeOK
<1>7. CASE InputLeft
  BY <1>7, StepInputLeft
<1>8. CASE Drain
  BY <1>8, StepDrain
<1>9. CASE Reload
  BY <1>9, StepFrame DEF Reload, Served
<1>10. CASE InputReturned
  BY <1>10, StepFrame DEF InputReturned, Served, engineVars
<1>11. CASE ForegroundChanged
  BY <1>11, StepFrame DEF ForegroundChanged, engineVars, winVars
<1>12. CASE NoteHidden
  BY <1>12, StepFrame DEF NoteHidden, engineVars, winVars
<1>13. CASE Unhook
  BY <1>13, StepFrame DEF Unhook, engineVars
<1>14. CASE UNCHANGED vars
  BY <1>14, StepFrame DEF vars
<1> QED BY <1>1, <1>2, <1>3, <1>4, <1>5, <1>6, <1>7, <1>8, <1>9, <1>10, <1>11,
           <1>12, <1>13, <1>14 DEF Next

(* The strengthened invariant holds in every reachable state.                 *)
THEOREM Invariance == Spec => []PathInv
BY InitPathInv, StepPathInv, Typing, PTL DEF Spec

(* No key is left down in Windows that nobody holds.                          *)
THEOREM NeverStuck == Spec => []NothingStuck
<1>1. PathInv => NothingStuck
  BY DEF PathInv, SoonHeld, NothingStuck, WinSoon
<1> QED BY <1>1, Invariance, PTL

(* A press is passed whole or swallowed whole.                                *)
THEOREM AlwaysWhole == Spec => []PressWhole
<1>1. PathInv => PressWhole
  BY DEF PathInv
<1> QED BY <1>1, Invariance, PTL

(* No key-up that the engine passes releases a key Windows has up.            *)
THEOREM NeverLone == Spec => NoLoneKeyUp
<1>1. TypeOK /\ PathInv /\ [Next]_vars => [KeyUpOfDown]_vars
  <2> SUFFICES ASSUME TypeOK, PathInv, Next, ~KeyUpOfDown PROVE FALSE
    OBVIOUS
  <2>1. ASSUME NEW c \in Code, NEW k \in Key, KeyUp(c, k) PROVE FALSE
    <3>1. falling' \subseteq {k} /\ held[k] = c
      BY <2>1, StepKeyUp DEF KeyUp
    <3> QED BY <2>1, <3>1, StepKeyUp DEF KeyUpOfDown
  <2>2. ASSUME NEW c \in Code, NEW k \in Key, KeyDown(c, k) PROVE FALSE
    BY <2>2 DEF KeyDown, Decide, KeyUpOfDown
  <2>3. decision' # NoDecision
    BY DEF NoDecision, KeyUpOfDown
  <2>4. ASSUME NEW c \in Code, NEW k \in Key, OffDown(c, k) \/ OffUp(c, k) PROVE FALSE
    BY <2>3, <2>4 DEF OffDown, OffUp
  <2>5. ASSUME NEW k \in Key, UnseenDown(k) \/ UnseenUp(k) PROVE FALSE
    BY <2>3, <2>5 DEF UnseenDown, UnseenUp
  <2>6. ASSUME NEW k \in Key, NEW isDown \in BOOLEAN, Inject(k, isDown) PROVE FALSE
    BY <2>3, <2>6 DEF Inject
  <2>7. ~(Apply \/ Switch \/ Reload \/ Reinstall \/ InputLeft \/ InputReturned)
    BY <2>3 DEF Apply, Switch, Reload, Reinstall, InputLeft, InputReturned, Served
  <2>8. ~(ForegroundChanged \/ NoteHidden \/ Unhook \/ Drain)
    BY <2>3 DEF ForegroundChanged, NoteHidden, Unhook, Drain
  <2> QED BY <2>1, <2>2, <2>4, <2>5, <2>6, <2>7, <2>8 DEF Next
<1> QED BY <1>1, Typing, Invariance, PTL DEF Spec, NoLoneKeyUp
-----------------------------------------------------------------------------
(* What the table says of the modifiers, and the menu mask that follows from  *)
(* it: one lemma per action for FlagsMatch again, from PathInv alone.         *)
LEMMA FlagsKeyDown ==
    ASSUME TypeOK, PathInv, FlagsMatch, NEW c \in Code, NEW k \in Key, KeyDown(c, k)
    PROVE  FlagsMatch'
<1> PICK ask \in BOOLEAN, swallowedLater \in SwallowedLater(k),
         done \in (IF "chord" \in Feature THEN SUBSET (active \cup {c}) ELSE {{}}),
         maskOnly \in (IF "maskonly" \in Feature THEN BOOLEAN ELSE {FALSE}) :
         Decide(c, k, ask, done, maskOnly, swallowedLater)
  BY DEF KeyDown
<1> DEFINE kept    == ClearReleased(active, record, c, Modifier, Down)
           repeat  == c \in kept
           pressed == kept \cup {c}
           before  == Completed(pressed, record, done)
           after   == [before EXCEPT ![c] = RecordOfDown(repeat, before[c], ask)]
           swallow == DownSwallowed(repeat, before[c], ask)
<1>0. /\ Inflight = {} /\ CanPress(c, k) /\ enabled
      /\ active' = pressed /\ record' = after
      /\ (done # {} => ask /\ ~repeat)
      /\ stale' = StaleAfterDown(c, k, repeat, swallow, swallowedLater)
      /\ win' = win /\ falling' = falling
      /\ rising' = IF swallow \/ swallowedLater THEN rising ELSE {k}
  <2>1. Inflight = {} => rising = {}
    BY DEF Inflight
  <2> QED BY <2>1 DEF KeyDown, Deliverable, Decide, winVars, PassDown
<1>1. /\ rising = {} /\ falling = {} /\ WinSoon = win
      /\ \A j \in Key : j \in Down <=> j \in win
  BY <1>0, Presence
<1>2. WinSoon' = win \cup rising'
  BY <1>0, <1>1 DEF WinSoon
<1>3. /\ before \in [Code -> LastDown] /\ repeat \in BOOLEAN
      /\ swallow \in BOOLEAN /\ swallowedLater \in BOOLEAN
  <2>1. before \in [Code -> LastDown] /\ repeat \in BOOLEAN
    BY CompletedType DEF TypeOK
  <2> HIDE DEF kept, before, repeat
  <2> QED BY <2>1, DownTypes DEF SwallowedLater
<1>4. repeat <=> c \in active
  BY DEF ClearReleased
<1>5. /\ repeat => before[c] = record[c]
      /\ record'[c] = RecordOfDown(repeat, before[c], ask)
      /\ \A d \in Code \ {c} : record'[d] = before[d]
  BY <1>0, <1>3 DEF Completed
<1>6. /\ swallow /\ ~repeat => record'[c] = "Suppressed"
      /\ repeat /\ record[c] = "Suppressed" => record'[c] = "Suppressed"
  <2> HIDE DEF kept, before, repeat
  <2> QED BY <1>3, <1>5, DownRule
<1>7. c \in active' /\ \A m \in Sided \ {c} : m \notin stale =>
         \/ record'[m] = "Suppressed"
         \/ m \in active' <=> m \in win
  <2> SUFFICES ASSUME NEW m \in Sided \ {c}, m \notin stale, record'[m] # "Suppressed"
               PROVE  m \in active' <=> m \in win
    BY <1>0
  <2>1. m \in Key /\ m \in Modifier /\ m \in Code
    BY KeysAssumption DEF Modifier, Code
  <2>2. record[m] # "Suppressed"
    BY <1>5, <2>1, CompletedKeeps
  <2>3. m \in active <=> m \in win
    BY <1>0, <1>1, <2>2 DEF FlagsMatch
  <2> QED BY <1>0, <1>1, <2>1, <2>2, <2>3 DEF ClearReleased
<1>8. k = c \/ (c \in Generic /\ k # c)
  BY <1>0, KeysAssumption DEF CanPress
<1> HIDE DEF kept, repeat, pressed, before, after, swallow
<1>9. \A m \in Sided \ {k} : m # c /\ (m \notin stale' => m \notin stale) /\ (m \in WinSoon' <=> m \in win)
  BY <1>0, <1>1, <1>2, <1>8, KeysAssumption DEF StaleAfterDown, Stale
<1>10. ASSUME k \in Sided, k \notin stale'
       PROVE  record'[k] = "Suppressed" \/ (k \in active' <=> k \in WinSoon')
  <2>1. CASE ~swallow
    <3>1. ~swallowedLater /\ c = k
      BY <1>3, <1>10, <2>1, <1>0 DEF StaleAfterDown, Stale
    <3> QED BY <1>0, <1>2, <1>7, <2>1, <3>1
  <2>2. CASE swallow /\ c = k
    <3>1. CASE ~repeat
      BY <1>6, <2>2, <3>1
    <3>2. CASE repeat
      <4>1. k \notin stale /\ k \in active
        BY <1>0, <1>4, <1>10, <2>2, <3>2 DEF StaleAfterDown
      <4>2. record[k] = "Suppressed" \/ k \in win
        BY <1>0, <1>1, <1>10, <4>1 DEF FlagsMatch
      <4> QED BY <1>2, <1>6, <1>7, <2>2, <3>2, <4>2
    <3> QED BY <3>1, <3>2
  <2>3. CASE swallow /\ c # k
    <3>1. k \notin stale
      BY <1>0, <1>10, <2>3 DEF StaleAfterDown
    <3> QED BY <1>0, <1>1, <1>2, <1>7, <1>10, <2>3, <3>1
  <2> QED BY <1>3, <2>1, <2>2, <2>3
<1> QED BY <1>7, <1>9, <1>10 DEF FlagsMatch

LEMMA FlagsKeyUp ==
    ASSUME TypeOK, PathInv, FlagsMatch, NEW c \in Code, NEW k \in Key, KeyUp(c, k)
    PROVE  FlagsMatch'
<1> PICK bound \in BOOLEAN :
        LET released == active \ {c}
            after    == [record EXCEPT ![c] = "Unknown"]
            swallow  == UpSwallowed(c, bound)
            checked  == IF swallow
                        THEN ClearReleased(released, after, c, Menu, Down)
                        ELSE released
        IN  /\ active' = checked
            /\ record' = after
            /\ stale' = (IF ~swallow /\ (c # k \/ fate[k] = "later")
                         THEN Stale({k}) ELSE stale \ ({c} \cap {k}))
            /\ IF swallow THEN UNCHANGED winVars ELSE PassUp(k)
  BY DEF KeyUp
<1> DEFINE swallow == UpSwallowed(c, bound)
<1>0. /\ Inflight = {} /\ enabled /\ held[k] = c
      /\ record' = [record EXCEPT ![c] = "Unknown"]
      /\ win' = win /\ rising' = rising
      /\ falling' = IF swallow \/ fate[k] = "later" THEN falling ELSE {k}
  <2>1. Inflight = {} => falling = {}
    BY DEF Inflight
  <2> QED BY <2>1 DEF KeyUp, Deliverable, winVars, PassUp
<1>1. /\ rising = {} /\ falling = {} /\ WinSoon = win
      /\ \A j \in Key : j \in Down <=> j \in win
  BY <1>0, Presence
<1>2. WinSoon' = win \ falling'
  BY <1>0, <1>1 DEF WinSoon
<1>3. k = c \/ c \in Generic
  BY <1>0, PathAssumption DEF PathInv, HeldByOne
<1>4. c \notin active' /\ \A m \in Sided \ {c} : m \notin stale =>
         \/ record'[m] = "Suppressed"
         \/ m \in active' <=> m \in win
  <2> SUFFICES ASSUME NEW m \in Sided \ {c}, m \notin stale, record'[m] # "Suppressed"
               PROVE  m \in active' <=> m \in win
    BY <1>0 DEF ClearReleased
  <2>1. m \in Key /\ m \in Code /\ record[m] = record'[m]
    BY <1>0, KeysAssumption DEF TypeOK, Code
  <2>2. m \in active <=> m \in win
    BY <1>0, <1>1, <2>1 DEF FlagsMatch
  <2> QED BY <1>0, <1>1, <2>1, <2>2 DEF ClearReleased
<1>5. ASSUME NEW m \in Sided, m \notin stale'
      PROVE  record'[m] = "Suppressed" \/ (m \in active' <=> m \in WinSoon')
  <2>1. CASE m # k
    <3>1. m # c /\ (m \in WinSoon' <=> m \in win)
      BY <1>0, <1>1, <1>2, <1>3, <2>1, KeysAssumption
    <3>2. m \notin stale
      BY <1>5, <2>1 DEF Stale
    <3> QED BY <1>4, <3>1, <3>2
  <2>2. CASE m = k /\ swallow /\ c = k
    BY <1>0, <1>1, <1>2, <1>4, <2>2 DEF UpSwallowed
  <2>3. CASE m = k /\ swallow /\ c # k
    BY <1>0, <1>1, <1>2, <1>4, <1>5, <2>3
  <2>4. CASE m = k /\ ~swallow
    BY <1>0, <1>2, <1>4, <1>5, <2>4 DEF Stale
  <2> QED BY <2>1, <2>2, <2>3, <2>4 DEF UpSwallowed
<1> QED BY <1>5 DEF FlagsMatch

(* A step that moves no flag, and what it makes unsure it calls stale.        *)
LEMMA FlagsFrame ==
    ASSUME FlagsMatch, UNCHANGED <<active, record, enabled>>,
           \A m \in Sided \ stale' : m \notin stale /\ (m \in WinSoon' <=> m \in WinSoon)
    PROVE  FlagsMatch'
BY DEF FlagsMatch

LEMMA FlagsUnseen ==
    ASSUME TypeOK, PathInv, FlagsMatch, NEW k \in Key, UnseenDown(k) \/ UnseenUp(k)
    PROVE  FlagsMatch'
<1>1. /\ UNCHANGED <<active, record, enabled, rising, falling>> /\ stale' = Stale({k})
      /\ \A m \in Key : m # k => (m \in win' <=> m \in win)
  BY DEF UnseenDown, UnseenUp, engineVars
<1>2. \A m \in Sided \ stale' : m \notin stale /\ (m \in WinSoon' <=> m \in WinSoon)
  BY <1>1, KeysAssumption DEF Stale, WinSoon
<1> QED BY <1>1, <1>2, FlagsFrame

LEMMA FlagsInject ==
    ASSUME TypeOK, PathInv, FlagsMatch, NEW k \in Key, NEW isDown \in BOOLEAN, Inject(k, isDown)
    PROVE  FlagsMatch'
<1>0. /\ Inflight = {} /\ UNCHANGED <<record, enabled>>
      /\ win' = win
      /\ IF isDown THEN rising' = {k} /\ falling' = falling
         ELSE falling' = {k} /\ rising' = rising
  BY DEF Inject, Deliverable, PassDown
<1>1. rising = {} /\ falling = {} /\ WinSoon = win
  BY <1>0, Presence
<1>2. /\ k \in WinSoon' <=> isDown
      /\ \A m : m # k => (m \in WinSoon' <=> m \in WinSoon)
  BY <1>0, <1>1 DEF WinSoon
<1>3. CASE enabled /\ hooked
  <2>1. active' = Tracked(active, record, k, isDown) /\ stale' = stale \ {k}
    BY <1>3 DEF Inject
  <2>2. \A m \in Sided : m \in Modifier
    BY DEF Modifier
  <2>3. ASSUME NEW m \in Sided \ stale', record'[m] # "Suppressed", m # k
        PROVE  m \in active' <=> m \in WinSoon'
    <3>1. m \in active <=> m \in WinSoon
      BY <1>0, <1>3, <2>1, <2>3 DEF FlagsMatch
    <3> QED BY <1>2, <2>1, <2>3, <3>1 DEF Tracked
  <2>4. ASSUME k \in Sided, record'[k] # "Suppressed"
        PROVE  k \in active' <=> k \in WinSoon'
    BY <1>0, <1>2, <2>1, <2>2, <2>4 DEF Tracked
  <2> QED BY <2>3, <2>4 DEF FlagsMatch
<1>4. CASE ~(enabled /\ hooked)
  <2>1. UNCHANGED active /\ stale' = Stale({k})
    BY <1>4 DEF Inject
  <2> QED BY <1>0, <1>2, <2>1, FlagsFrame DEF Stale
<1> QED BY <1>3, <1>4

LEMMA FlagsReset ==
    ASSUME TypeOK, ResetFromOs, UNCHANGED <<win, rising, falling>>
    PROVE  FlagsMatch'
<1> SUFFICES ASSUME NEW m \in Sided, m \notin stale'
             PROVE  m \in active' <=> m \in WinSoon'
  BY DEF FlagsMatch
<1>1. m \in Key /\ m \notin Generic /\ m \notin Inflight
  BY KeysAssumption DEF ResetFromOs
<1>2. m \in active' <=> m \in win
  BY <1>1 DEF ResetFromOs, ActiveFromOs, Down, ReadsDown
<1> QED BY <1>1, <1>2 DEF WinSoon, Inflight

LEMMA FlagsDrain == ASSUME TypeOK, FlagsMatch, Drain PROVE FlagsMatch'
<1>1. UNCHANGED <<record, enabled, win, rising, falling>> /\ WinSoon' = WinSoon
  BY DEF Drain, winVars, WinSoon
<1>2. CASE ~enabled \/ away
  <2>1. UNCHANGED <<active, stale>>
    BY <1>2 DEF Drain, ReadModifiers
  <2> QED BY <1>1, <2>1, FlagsFrame
<1>3. CASE enabled /\ ~away
  <2>1. /\ \A k \in Inflight : TouchedBy(k) \cap Planned \subseteq fresh
        /\ active' = Reread(active, record, ToRead, Down)
        /\ stale' = stale \ ToRead
    BY <1>3 DEF Drain, ReadModifiers
  <2> SUFFICES ASSUME NEW m \in Sided, m \notin stale', record[m] # "Suppressed"
               PROVE  m \in active' <=> m \in WinSoon
    BY <1>1 DEF FlagsMatch
  <2>2. m \in Key /\ m \in Modifier
    BY KeysAssumption DEF Modifier
  <2>3. CASE m \in ToRead
    <3>1. m \notin Inflight
      BY <2>1, <2>2, <2>3 DEF ToRead, TouchedBy
    <3>2. m \in Down <=> m \in win
      BY <2>2, KeysAssumption DEF Down, ReadsDown
    <3> QED BY <2>1, <2>3, <3>1, <3>2 DEF Reread, WinSoon, Inflight
  <2>4. CASE m \notin ToRead
    BY <1>3, <2>1, <2>4 DEF Reread, FlagsMatch
  <2> QED BY <2>3, <2>4
<1> QED BY <1>2, <1>3

LEMMA StepFlags == TypeOK /\ PathInv /\ FlagsMatch /\ [Next]_vars => FlagsMatch'
<1> SUFFICES ASSUME TypeOK, PathInv, FlagsMatch, [Next]_vars PROVE FlagsMatch'
  OBVIOUS
<1>1. ASSUME NEW c \in Code, NEW k \in Key, KeyDown(c, k) \/ KeyUp(c, k)
      PROVE  FlagsMatch'
  BY <1>1, FlagsKeyDown, FlagsKeyUp
<1>2. ASSUME NEW c \in Code, NEW k \in Key, OffDown(c, k) \/ OffUp(c, k)
      PROVE  FlagsMatch'
  BY <1>2 DEF OffDown, OffUp, FlagsMatch
<1>3. ASSUME NEW k \in Key, UnseenDown(k) \/ UnseenUp(k) PROVE FlagsMatch'
  BY <1>3, FlagsUnseen
<1>4. ASSUME NEW k \in Key, NEW isDown \in BOOLEAN, Inject(k, isDown) PROVE FlagsMatch'
  BY <1>4, FlagsInject
<1>5. CASE Apply
  BY <1>5, FlagsFrame DEF Apply, engineVars, WinSoon
<1>6. CASE Switch \/ Reinstall
  BY <1>6, FlagsReset DEF Switch, Reinstall, Served
<1>7. CASE InputLeft
  BY <1>7 DEF InputLeft, FlagsMatch
<1>8. CASE Drain
  BY <1>8, FlagsDrain
<1>9. CASE Reload \/ InputReturned \/ ForegroundChanged \/ NoteHidden \/ Unhook
  <2>1. UNCHANGED <<active, record, enabled, win, rising, falling, stale>>
    BY <1>9 DEF Reload, InputReturned, ForegroundChanged, NoteHidden, Unhook, Served,
                engineVars, winVars
  <2> QED BY <2>1, FlagsFrame DEF WinSoon
<1>10. CASE UNCHANGED vars
  BY <1>10, FlagsFrame DEF vars, WinSoon
<1> QED BY <1>1, <1>2, <1>3, <1>4, <1>5, <1>6, <1>7, <1>8, <1>9, <1>10 DEF Next

(* The flag of a modifier whose events the engine saw agrees with Windows.    *)
THEOREM FlagsAgree == Spec => []FlagsMatch
<1>1. Init => FlagsMatch
  BY DEF Init, FlagsMatch, WinSoon
<1> QED BY <1>1, StepFlags, Typing, Invariance, PTL DEF Spec
-----------------------------------------------------------------------------
(* A generic code is active by a key-down of its own, which was put on record.*)
GenericOnRecord == \A g \in Generic \cap active : record[g] \in {"Passed", "Suppressed"}

(* An active generic code of the menu keys was swallowed or reads down.       *)
GenericDown == \A g \in Generic \cap Menu \cap active : record[g] = "Suppressed" \/ g \in Down

LEMMA StepGeneric == TypeOK /\ GenericOnRecord /\ [Next]_vars => GenericOnRecord'
<1> SUFFICES ASSUME TypeOK, GenericOnRecord, [Next]_vars,
                    NEW g \in Generic, g \in active'
             PROVE  record'[g] \in {"Passed", "Suppressed"}
  BY DEF GenericOnRecord
<1>0. /\ g \in Code /\ g \notin Sided /\ g \notin Key
      /\ g \in active => record[g] \in {"Passed", "Suppressed"}
  BY KeysAssumption DEF Code, GenericOnRecord
<1>1. ASSUME NEW c \in Code, NEW k \in Key, KeyDown(c, k)
      PROVE  record'[g] \in {"Passed", "Suppressed"}
  <2> PICK ask \in BOOLEAN, swallowedLater \in SwallowedLater(k),
           done \in (IF "chord" \in Feature THEN SUBSET (active \cup {c}) ELSE {{}}),
           maskOnly \in (IF "maskonly" \in Feature THEN BOOLEAN ELSE {FALSE}) :
           Decide(c, k, ask, done, maskOnly, swallowedLater)
    BY <1>1 DEF KeyDown
  <2> DEFINE kept    == ClearReleased(active, record, c, Modifier, Down)
             repeat  == c \in kept
             pressed == kept \cup {c}
             before  == Completed(pressed, record, done)
  <2>1. /\ active' = pressed
        /\ record' = [before EXCEPT ![c] = RecordOfDown(repeat, before[c], ask)]
        /\ before \in [Code -> LastDown]
    BY CompletedType DEF Decide, TypeOK
  <2>2. before[g] \in {record[g], "Suppressed"} /\ kept \subseteq active
    BY <1>0 DEF Completed, ClearReleased
  <2>3. CASE g # c
    BY <1>0, <2>1, <2>2, <2>3
  <2>4. CASE g = c
    <3>1. record'[g] = RecordOfDown(repeat, before[g], ask)
      BY <1>0, <2>1, <2>4
    <3>2. repeat => before[g] \in {"Passed", "Suppressed"}
      BY <1>0, <2>2, <2>4
    <3> HIDE DEF kept, before, repeat
    <3> QED BY <3>1, <3>2 DEF RecordOfDown
  <2> QED BY <2>3, <2>4
<1>2. ASSUME NEW c \in Code, NEW k \in Key, KeyUp(c, k)
      PROVE  record'[g] \in {"Passed", "Suppressed"}
  <2>1. g \in active \ {c} /\ record' = [record EXCEPT ![c] = "Unknown"]
    BY <1>2 DEF KeyUp, ClearReleased
  <2> QED BY <1>0, <2>1 DEF TypeOK
<1>3. ASSUME NEW c \in Code, NEW k \in Key, OffDown(c, k) \/ OffUp(c, k)
      PROVE  record'[g] \in {"Passed", "Suppressed"}
  BY <1>0, <1>3 DEF OffDown, OffUp, engineVars
<1>4. ASSUME NEW k \in Key, UnseenDown(k) \/ UnseenUp(k)
      PROVE  record'[g] \in {"Passed", "Suppressed"}
  BY <1>0, <1>4 DEF UnseenDown, UnseenUp, engineVars
<1>5. ASSUME NEW k \in Key, NEW isDown \in BOOLEAN, Inject(k, isDown)
      PROVE  record'[g] \in {"Passed", "Suppressed"}
  BY <1>0, <1>5 DEF Inject, Tracked
<1>6. ~(Switch \/ Reinstall \/ InputLeft)
  BY <1>0 DEF Switch, Reinstall, InputLeft, ResetFromOs, ActiveFromOs
<1>7. CASE Drain
  BY <1>0, <1>7 DEF Drain, ReadModifiers, Reread
<1>8. CASE Apply \/ Reload \/ InputReturned \/ ForegroundChanged \/ NoteHidden \/ Unhook
  BY <1>0, <1>8 DEF Apply, Reload, InputReturned, ForegroundChanged, NoteHidden, Unhook,
                    engineVars
<1>9. CASE UNCHANGED vars
  BY <1>0, <1>9 DEF vars
<1> QED BY <1>1, <1>2, <1>3, <1>4, <1>5, <1>6, <1>7, <1>8, <1>9 DEF Next

LEMMA GenericsOnRecord == Spec => []GenericOnRecord
<1>1. Init => GenericOnRecord
  BY DEF Init, GenericOnRecord
<1> QED BY <1>1, StepGeneric, Typing, PTL DEF Spec

(* With no event on its way, and the menu keys known, the table tells whether *)
(* Windows has one of them down.                                              *)
LEMMA MenuExact ==
    TypeOK /\ HeldByOne /\ FlagsMatch /\ MenuKnown /\ GenericDown /\ enabled /\ WinSoon = win
        => (MenuDown(active, record) <=> Menu \cap win # {})
<1> SUFFICES ASSUME TypeOK, HeldByOne, FlagsMatch, MenuKnown, GenericDown, enabled,
                    WinSoon = win
             PROVE  MenuDown(active, record) <=> Menu \cap win # {}
  OBVIOUS
<1>1. /\ Menu \subseteq Sided \cup Generic /\ Sided \subseteq Key /\ win \subseteq Key
      /\ Key \cap Generic = {}
  BY KeysAssumption DEF Modifier, TypeOK
<1>2. ASSUME NEW c \in Menu, c \in active, record[c] # "Suppressed"
      PROVE  Menu \cap win # {}
  <2>1. CASE c \in Sided
    BY <1>1, <1>2, <2>1 DEF MenuKnown, FlagsMatch
  <2>2. CASE c \in Generic
    <3>1. c \in Down
      BY <1>2, <2>2 DEF GenericDown
    <3>2. PICK j \in Pair[c] : j \in win
      BY <1>1, <2>2, <3>1 DEF Down, ReadsDown
    <3> QED BY <1>1, <2>2, <3>2, KeysAssumption
  <2> QED BY <1>1, <2>1, <2>2
<1>3. ASSUME NEW k \in Menu \cap win
      PROVE  \E c \in Menu \cap active : record[c] # "Suppressed"
  <2>1. k \in Sided /\ k \in Menu \cap Key
    BY <1>1
  <2>2. CASE k \notin stale /\ record[k] # "Suppressed"
    BY <2>1, <2>2 DEF FlagsMatch
  <2>3. CASE held[k] \in Generic \cap active /\ record[held[k]] # "Suppressed"
    <3>1. held[k] # None /\ k # held[k]
      BY <1>1, <2>1, <2>3, PathAssumption DEF Code
    <3>2. k \in Pair[held[k]]
      BY <2>1, <3>1 DEF HeldByOne
    <3> QED BY <2>1, <2>3, <3>2, KeysAssumption
  <2> QED BY <2>1, <2>2, <2>3 DEF MenuKnown
<1> QED BY <1>2, <1>3 DEF MenuDown

LEMMA MenuExactNext ==
    (TypeOK /\ HeldByOne /\ FlagsMatch /\ MenuKnown /\ GenericDown /\ enabled /\ WinSoon = win
        => (MenuDown(active, record) <=> Menu \cap win # {}))'
BY MenuExact, PTL

LEMMA MaskKeyDown ==
    ASSUME TypeOK, PathInv, GenericOnRecord, NEW c \in Code, NEW k \in Key, KeyDown(c, k),
           TypeOK', PathInv', FlagsMatch'
    PROVE  MaskIfNeeded
<1> PICK ask \in BOOLEAN, swallowedLater \in SwallowedLater(k),
         done \in (IF "chord" \in Feature THEN SUBSET (active \cup {c}) ELSE {{}}),
         maskOnly \in (IF "maskonly" \in Feature THEN BOOLEAN ELSE {FALSE}) :
         Decide(c, k, ask, done, maskOnly, swallowedLater)
  BY DEF KeyDown
<1> DEFINE kept    == ClearReleased(active, record, c, Modifier, Down)
           repeat  == c \in kept
           pressed == kept \cup {c}
           before  == Completed(pressed, record, done)
           after   == [before EXCEPT ![c] = RecordOfDown(repeat, before[c], ask)]
           swallow == DownSwallowed(repeat, before[c], ask)
           hotkey  == maskOnly /\ ~repeat
<1>0. /\ Inflight = {} /\ enabled /\ enabled'
      /\ active' = pressed /\ record' = after /\ maskOwed' = hotkey
      /\ decision' = [event |-> "down", suppress |-> swallow,
                      mask |-> \/ maskOwed \/ hotkey
                               \/ swallow /\ MenuDown(pressed, after)]
      /\ win' = win
      /\ swallow => rising' = rising /\ falling' = falling
      /\ (done # {} => ask /\ ~repeat)
  BY DEF KeyDown, Deliverable, Decide, winVars, PassDown
<1>1. rising = {} /\ falling = {}
  BY <1>0 DEF Inflight
<1>2. before \in [Code -> LastDown] /\ repeat \in BOOLEAN
  BY CompletedType DEF TypeOK
<1>3. swallow \in BOOLEAN /\ hotkey \in BOOLEAN
  <2>1. maskOnly \in BOOLEAN
    OBVIOUS
  <2> HIDE DEF kept, before, repeat
  <2> QED BY <1>2, <2>1, DownTypes
<1>4. swallow => GenericDown'
  <2> SUFFICES ASSUME swallow, NEW g \in Generic \cap Menu, g \in active'
               PROVE  record'[g] = "Suppressed" \/ g \in Down'
    BY DEF GenericDown
  <2>1. g \in Code /\ g \in Modifier /\ Down' = Down
    BY <1>0 DEF Code, Modifier, Down
  <2>2. CASE g # c
    <3>1. record[g] = "Suppressed" \/ g \in Down
      BY <1>0, <2>1, <2>2 DEF ClearReleased
    <3>2. record'[g] = before[g]
      BY <1>0, <1>2, <2>1, <2>2
    <3> QED BY <2>1, <3>1, <3>2, CompletedKeeps
  <2>3. CASE g = c
    <3>1. record'[c] = RecordOfDown(repeat, before[c], ask)
      BY <1>0, <1>2
    <3>2. repeat => before[c] = record[c] /\ c \in active
      BY <1>0 DEF Completed, ClearReleased
    <3>3. repeat => record[c] \in {"Passed", "Suppressed"}
      BY <2>3, <3>2 DEF GenericOnRecord
    <3> HIDE DEF kept, before, repeat
    <3> QED BY <1>2, <2>3, <3>1, <3>2, <3>3, DownRule
  <2> QED BY <2>2, <2>3
<1> HIDE DEF kept, repeat, pressed, before, after, swallow, hotkey
<1>5. swallow /\ MenuKnown' => (MenuDown(pressed, after) <=> Menu \cap win # {})
  <2>1. swallow => WinSoon' = win'
    BY <1>0, <1>1 DEF WinSoon
  <2> QED BY <1>0, <1>4, <2>1, MenuExactNext DEF PathInv
<1> QED BY <1>0, <1>3, <1>5 DEF MaskIfNeeded

LEMMA MaskKeyUp ==
    ASSUME TypeOK, PathInv, GenericOnRecord, NEW c \in Code, NEW k \in Key, KeyUp(c, k),
           TypeOK', PathInv', FlagsMatch'
    PROVE  MaskIfNeeded
<1> PICK bound \in BOOLEAN :
        LET released == active \ {c}
            after    == [record EXCEPT ![c] = "Unknown"]
            swallow  == UpSwallowed(c, bound)
            checked  == IF swallow
                        THEN ClearReleased(released, after, c, Menu, Down)
                        ELSE released
        IN  /\ active' = checked
            /\ record' = after
            /\ maskOwed' = FALSE
            /\ decision' = [event |-> "up", suppress |-> swallow,
                            mask |-> \/ maskOwed
                                     \/ swallow /\ MenuDown(checked, after)]
            /\ IF swallow THEN UNCHANGED winVars ELSE PassUp(k)
  BY DEF KeyUp
<1> DEFINE swallow == UpSwallowed(c, bound)
<1>0. /\ rising = {} /\ falling = {} /\ enabled'
      /\ record' = [record EXCEPT ![c] = "Unknown"] /\ maskOwed' = FALSE
      /\ decision' = [event |-> "up", suppress |-> swallow,
                      mask |-> maskOwed \/ (swallow /\ MenuDown(active', record'))]
      /\ win' = win
      /\ swallow => rising' = rising /\ falling' = falling
  BY DEF KeyUp, Deliverable, Inflight, winVars, PassUp
<1>1. swallow \in BOOLEAN
  BY DEF UpSwallowed
<1>2. swallow => GenericDown'
  <2> SUFFICES ASSUME swallow, NEW g \in Generic \cap Menu, g \in active'
               PROVE  record'[g] = "Suppressed" \/ g \in Down'
    BY DEF GenericDown
  <2>1. Down' = Down
    BY <1>0 DEF Down
  <2>2. active' = ClearReleased(active \ {c}, record', c, Menu, Down)
    BY <1>0
  <2> QED BY <2>1, <2>2 DEF ClearReleased
<1> HIDE DEF swallow
<1>3. swallow /\ MenuKnown' => (MenuDown(active', record') <=> Menu \cap win # {})
  <2>1. swallow => WinSoon' = win'
    BY <1>0 DEF WinSoon
  <2> QED BY <1>0, <1>2, <2>1, MenuExactNext DEF PathInv
<1> QED BY <1>0, <1>1, <1>3 DEF MaskIfNeeded

(* The menu mask goes with the events that need it, and with no other.        *)
THEOREM MaskExact == Spec => MaskRule
<1>1. TypeOK /\ PathInv /\ GenericOnRecord /\ TypeOK' /\ PathInv' /\ FlagsMatch' /\ [Next]_vars
         => [MaskIfNeeded]_vars
  <2> SUFFICES ASSUME TypeOK, PathInv, GenericOnRecord, TypeOK', PathInv', FlagsMatch', Next,
                      ~MaskIfNeeded
               PROVE  FALSE
    OBVIOUS
  <2>1. ASSUME NEW c \in Code, NEW k \in Key, KeyDown(c, k) \/ KeyUp(c, k) PROVE FALSE
    BY <2>1, MaskKeyDown, MaskKeyUp
  <2>2. decision' # NoDecision
    BY DEF NoDecision, MaskIfNeeded
  <2>3. ASSUME NEW c \in Code, NEW k \in Key, OffDown(c, k) \/ OffUp(c, k) PROVE FALSE
    BY <2>2, <2>3 DEF OffDown, OffUp
  <2>4. ASSUME NEW k \in Key, UnseenDown(k) \/ UnseenUp(k) PROVE FALSE
    BY <2>2, <2>4 DEF UnseenDown, UnseenUp
  <2>5. ASSUME NEW k \in Key, NEW isDown \in BOOLEAN, Inject(k, isDown) PROVE FALSE
    BY <2>2, <2>5 DEF Inject
  <2>6. ~(Apply \/ Switch \/ Reload \/ Reinstall \/ InputLeft \/ InputReturned)
    BY <2>2 DEF Apply, Switch, Reload, Reinstall, InputLeft, InputReturned, Served
  <2>7. ~(ForegroundChanged \/ NoteHidden \/ Unhook \/ Drain)
    BY <2>2 DEF ForegroundChanged, NoteHidden, Unhook, Drain
  <2> QED BY <2>1, <2>3, <2>4, <2>5, <2>6, <2>7 DEF Next
<1> QED BY <1>1, Typing, Invariance, FlagsAgree, GenericsOnRecord, PTL DEF Spec, MaskRule
=============================================================================
