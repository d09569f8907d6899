--------------------------- MODULE Executor_proofs ---------------------------
(* Theorems of Executor: its types, that it implements JobQueue, that it never *)
(* sleeps on work, and that what was cancelled calls no runner.  The last three*)
(* have a hypothesis each on what is fired and asked for in one behaviour      *)
(* (TimerApart, CrowdApart, LaunchApart): without it the code does otherwise.  *)
EXTENDS Executor, SequenceTheorems, FiniteSetTheorems, TLAPS

Waiting == loop \in {"drain", "arm", "wait"} /\ ending = "none"
Quiet   == ~posting /\ wakes = 0
AllLive == \A work \in Work : work.live

(* Where the loop is and what the pass has made of it.                        *)
PlaceInv ==
    /\ posting => wakes < MaxWakes
    /\ pumping => calls /\ loop \in {"poll", "advance"}
    /\ loop \in {"drain", "poll", "advance"} => ending = "none"
    /\ loop \in {"close", "ended"} => ending # "none"
    /\ loop \in {"arm", "wait"} /\ ending = "none" => final /\ ~calls

(* Only a paste holds jobs back, and it is at its step.                       *)
PasteInv ==
    /\ \A work \in Work : HasPaste(work.steps) => "paste" \in env
    /\ \A work \in Work : work.kind = "action" => "launch" \in env
    /\ \A i \in DOMAIN active : active[i].attempt # None =>
          active[i].steps # <<>> /\ Head(active[i].steps) = "paste"
    /\ held # <<>> => "paste" \in env

(* Jobs are held only while a paste waits, and of them the older ones were    *)
(* cancelled first.                                                           *)
HeldInv ==
    /\ Waiting => held = <<>> \/ AttemptWaits
    /\ \A i, j \in DOMAIN held : i < j /\ ~held[j].live => ~held[i].live
    /\ stopping => \A i \in DOMAIN held : ~held[i].live
-----------------------------------------------------------------------------
(* Sequences and selections.                                                  *)
LEMMA LeastNumber ==
    ASSUME NEW T, T \subseteq Nat, T # {}
    PROVE  \E n \in T : \A m \in T : n <= m
<1>1. PICK x \in T : \A y \in T : ~ (<<y, x>> \in OpToRel(<, Nat))
  BY NatLessThanWellFounded, WFMin
<1>2. ASSUME NEW y \in T PROVE x <= y
  <2>1. y \in Nat /\ x \in Nat
    OBVIOUS
  <2>2. y < x => <<y, x>> \in OpToRel(<, Nat)
    BY <2>1 DEF OpToRel
  <2>3. ~(y < x)
    BY <1>1, <2>2
  <2> QED BY <2>1, <2>3
<1> QED BY <1>2

(* A rising sequence of numbers from an interval as long as itself takes each.*)
LEMMA RisingIsAll ==
    ASSUME NEW n \in Nat, NEW k \in Nat, NEW at \in [1 .. n -> k + 1 .. k + n],
           \A i, j \in 1 .. n : i < j => at[i] < at[j]
    PROVE  \A i \in 1 .. n : at[i] = k + i
<1>1. \A i \in 1 .. n : at[i] \in Nat /\ k + 1 <= at[i] /\ at[i] <= k + n
  OBVIOUS
<1>2. \A i \in 1 .. n : at[i] >= k + i
  <2> DEFINE Low == {i \in 1 .. n : at[i] < k + i}
  <2> SUFFICES ASSUME Low # {} PROVE FALSE
    BY <1>1
  <2>0. Low \subseteq Nat
    OBVIOUS
  <2>1. PICK i \in Low : \A j \in Low : i <= j
    <3> HIDE DEF Low
    <3> QED BY <2>0, LeastNumber
  <2>2. i \in 1 .. n /\ at[i] < k + i
    BY <2>1
  <2> HIDE DEF Low
  <2>3. i # 1
    BY <1>1, <2>2
  <2>4. i - 1 \in 1 .. n /\ i - 1 \notin Low
    BY <2>1, <2>2, <2>3
  <2>5. at[i - 1] >= k + i - 1
    BY <1>1, <2>2, <2>4 DEF Low
  <2>6. at[i - 1] < at[i]
    BY <2>2, <2>4
  <2> QED BY <1>1, <2>2, <2>4, <2>5, <2>6
<1>3. \A i \in 1 .. n : at[i] <= k + i
  <2> DEFINE High == {d \in 0 .. n - 1 : at[n - d] > k + (n - d)}
  <2>0. ASSUME NEW i \in 1 .. n, at[i] > k + i PROVE n - i \in High
    <3>1. n - i \in 0 .. n - 1 /\ n - (n - i) = i
      OBVIOUS
    <3> QED BY <2>0, <3>1
  <2> SUFFICES ASSUME High # {} PROVE FALSE
    <3>1. ASSUME NEW i \in 1 .. n, ~(at[i] <= k + i) PROVE n - i \in High
      <4>1. at[i] > k + i
        BY <1>1, <3>1
      <4> HIDE DEF High
      <4> QED BY <2>0, <4>1
    <3> HIDE DEF High
    <3> QED BY <3>1
  <2>a. High \subseteq Nat
    OBVIOUS
  <2>1. PICK d \in High : \A c \in High : d <= c
    <3> HIDE DEF High
    <3> QED BY <2>a, LeastNumber
  <2>2. d \in 0 .. n - 1 /\ at[n - d] > k + (n - d)
    BY <2>1
  <2> HIDE DEF High
  <2>3. d # 0
    BY <1>1, <2>2
  <2>4. d - 1 \in 0 .. n - 1 /\ d - 1 \notin High
    BY <2>1, <2>2, <2>3
  <2>5. n - (d - 1) \in 1 .. n /\ n - d \in 1 .. n /\ n - d < n - (d - 1)
    BY <2>2, <2>4
  <2>6. at[n - (d - 1)] <= k + (n - (d - 1))
    BY <1>1, <2>4, <2>5 DEF High
  <2>7. at[n - d] < at[n - (d - 1)]
    BY <2>5
  <2> QED BY <1>1, <2>2, <2>4, <2>5, <2>6, <2>7
<1> TAKE i \in 1 .. n
<1>4. at[i] >= k + i /\ at[i] <= k + i /\ at[i] \in Nat
  BY <1>1, <1>2, <1>3
<1> QED BY <1>4

(* A selection takes elements of the sequence, and not more of them.          *)
LEMMA OnlyType ==
    ASSUME NEW S, NEW work \in Seq(S), NEW places \in SUBSET DOMAIN work,
           NEW kept \in Only(work, places)
    PROVE  /\ kept \in Seq(S) /\ Len(kept) <= Len(work)
           /\ \A i \in DOMAIN kept : \E j \in places : kept[i] = work[j]
<1>1. DOMAIN work = 1 .. Len(work) /\ Len(work) \in Nat
  BY LenProperties
<1>2. /\ IsFiniteSet(places) /\ Cardinality(places) \in Nat
      /\ Cardinality(places) <= Len(work)
  <2>1. IsFiniteSet(1 .. Len(work)) /\ Cardinality(1 .. Len(work)) = Len(work)
    <3>1. 1 \in Int /\ Len(work) \in Int
      BY <1>1
    <3>2. /\ IsFiniteSet(1 .. Len(work))
          /\ Cardinality(1 .. Len(work)) = IF 1 > Len(work) THEN 0 ELSE Len(work) - 1 + 1
      BY <3>1, FS_Interval
    <3> QED BY <1>1, <3>2
  <2>2. places \in SUBSET (1 .. Len(work))
    BY <1>1
  <2>3. IsFiniteSet(places) /\ Cardinality(places) <= Cardinality(1 .. Len(work))
    BY <2>1, <2>2, FS_Subset
  <2> QED BY <2>1, <2>3, FS_CardinalityType
<1>3. PICK at \in [1 .. Cardinality(places) -> places] : kept = [i \in DOMAIN at |-> work[at[i]]]
  BY DEF Only
<1>4. DOMAIN kept = 1 .. Cardinality(places) /\ \A i \in DOMAIN kept : kept[i] = work[at[i]]
  BY <1>3
<1>5. \A i \in DOMAIN kept : at[i] \in places /\ work[at[i]] \in S
  BY <1>1, <1>4, ElementOfSeq
<1>6. kept \in [1 .. Cardinality(places) -> S]
  BY <1>3, <1>4, <1>5
<1>7. kept \in Seq(S)
  BY <1>2, <1>6, SeqDef
<1>8. Len(kept) = Cardinality(places)
  BY <1>2, <1>4, <1>7, LenProperties
<1> QED BY <1>2, <1>4, <1>5, <1>7, <1>8

(* The selection of the last places is the end of the sequence.               *)
LEMMA OnlyEnd ==
    ASSUME NEW S, NEW work \in Seq(S), NEW k \in 0 .. Len(work),
           NEW kept \in Only(work, k + 1 .. Len(work))
    PROVE  kept = SubSeq(work, k + 1, Len(work))
<1> DEFINE n == Len(work) - k
<1>1. /\ Len(work) \in Nat /\ k \in Nat /\ n \in Nat /\ k + n = Len(work)
      /\ DOMAIN work = 1 .. Len(work)
  BY LenProperties
<1>2. Cardinality(k + 1 .. k + n) = n
  <2>1. k + 1 \in Int /\ k + n \in Int
    BY <1>1
  <2> HIDE DEF n
  <2>2. Cardinality((k + 1) .. (k + n)) =
           IF k + 1 > k + n THEN 0 ELSE (k + n) - (k + 1) + 1
    BY <2>1, FS_Interval
  <2> QED BY <1>1, <2>2
<1> HIDE DEF n
<1>3. PICK at \in [1 .. n -> k + 1 .. k + n] :
         /\ \A i, j \in 1 .. n : i < j => at[i] < at[j]
         /\ kept = [i \in 1 .. n |-> work[at[i]]]
  <2>1. kept \in Only(work, k + 1 .. k + n)
    BY <1>1
  <2>2. PICK at \in [1 .. n -> k + 1 .. k + n] :
           /\ \A i, j \in DOMAIN at : i < j => at[i] < at[j]
           /\ kept = [i \in DOMAIN at |-> work[at[i]]]
    BY <1>2, <2>1 DEF Only
  <2>3. DOMAIN at = 1 .. n
    OBVIOUS
  <2> QED  BY <2>2, <2>3
<1>4. \A i \in 1 .. n : at[i] = k + i
  BY <1>1, <1>3, RisingIsAll
<1>5. kept = [i \in 1 .. n |-> work[k + i]]
  BY <1>3, <1>4
<1>6. /\ SubSeq(work, k + 1, Len(work)) \in Seq(S)
      /\ Len(SubSeq(work, k + 1, Len(work))) = n
      /\ \A i \in 1 .. n : SubSeq(work, k + 1, Len(work))[i] = work[k + i]
  <2>1. \A i \in k + 1 .. Len(work) : work[i] \in S
    BY <1>1, ElementOfSeq
  <2>2. /\ SubSeq(work, k + 1, Len(work)) \in Seq(S)
        /\ Len(SubSeq(work, k + 1, Len(work))) =
              IF k + 1 <= Len(work) THEN Len(work) - (k + 1) + 1 ELSE 0
        /\ \A i \in 1 .. Len(work) - (k + 1) + 1 :
              SubSeq(work, k + 1, Len(work))[i] = work[(k + 1) + i - 1]
    BY <1>1, <2>1, SubSeqProperties
  <2>3. Len(work) - (k + 1) + 1 = n /\ \A i \in 1 .. n : (k + 1) + i - 1 = k + i
    BY <1>1
  <2> QED BY <1>1, <2>2, <2>3
<1>7. \A i \in 1 .. n : work[k + i] \in S
  BY <1>1, ElementOfSeq
<1>8. kept \in Seq(S) /\ Len(kept) = n
  <2>1. kept \in [1 .. n -> S]
    BY <1>5, <1>7
  <2>2. kept \in Seq(S)
    BY <1>1, <2>1, SeqDef
  <2> QED BY <1>1, <1>5, <2>2, LenProperties
<1>9. \A i \in 1 .. Len(kept) : kept[i] = SubSeq(work, k + 1, Len(work))[i]
  BY <1>5, <1>6, <1>8
<1> QED BY <1>6, <1>8, <1>9, SeqEqual

(* The selection of all places is the sequence.                               *)
LEMMA OnlyAll ==
    ASSUME NEW S, NEW work \in Seq(S), NEW kept \in Only(work, DOMAIN work)
    PROVE  kept = work
<1>1. DOMAIN work = 0 + 1 .. Len(work) /\ 0 \in 0 .. Len(work)
  BY LenProperties
<1>2. kept = SubSeq(work, 0 + 1, Len(work))
  BY <1>1, OnlyEnd
<1>3. SubSeq(work, 1, Len(work)) = work
  BY SubSeqFull
<1> QED BY <1>2, <1>3

(* A sequence without its first element.                                      *)
LEMMA TailOf ==
    ASSUME NEW S, NEW q \in Seq(S), q # <<>>
    PROVE  /\ Tail(q) \in Seq(S) /\ Len(Tail(q)) = Len(q) - 1 /\ Len(q) \in Nat \ {0}
           /\ DOMAIN q = 1 .. Len(q) /\ DOMAIN Tail(q) = 1 .. Len(q) - 1
           /\ Head(q) = q[1] /\ 1 \in DOMAIN q /\ Head(q) \in S
           /\ \A i \in DOMAIN Tail(q) : i + 1 \in DOMAIN q /\ Tail(q)[i] = q[i + 1]
<1>1. /\ Tail(q) \in Seq(S) /\ Len(Tail(q)) = Len(q) - 1 /\ Len(q) \in Nat \ {0}
      /\ \A i \in 1 .. Len(Tail(q)) : Tail(q)[i] = q[i + 1]
      /\ Head(q) = q[1] /\ Head(q) \in S
  BY HeadTailProperties, EmptySeq
<1>2. DOMAIN q = 1 .. Len(q) /\ DOMAIN Tail(q) = 1 .. Len(Tail(q))
  BY <1>1, LenProperties
<1> QED
  BY <1>1, <1>2

(* A sequence with one element more.                                          *)
LEMMA AppendTo ==
    ASSUME NEW S, NEW q \in Seq(S), NEW e \in S
    PROVE  /\ Append(q, e) \in Seq(S) /\ Len(Append(q, e)) = Len(q) + 1 /\ Len(q) \in Nat
           /\ DOMAIN q = 1 .. Len(q) /\ DOMAIN Append(q, e) = 1 .. Len(q) + 1
           /\ Append(q, e) # <<>>
           /\ \A i \in DOMAIN q : Append(q, e)[i] = q[i]
           /\ Append(q, e)[Len(q) + 1] = e
<1>1. /\ Append(q, e) \in Seq(S) /\ Len(Append(q, e)) = Len(q) + 1 /\ Len(q) \in Nat
      /\ \A i \in 1 .. Len(q) : Append(q, e)[i] = q[i]
      /\ Append(q, e)[Len(q) + 1] = e
  BY AppendProperties, LenProperties
<1>2. DOMAIN q = 1 .. Len(q) /\ DOMAIN Append(q, e) = 1 .. Len(Append(q, e))
  BY <1>1, LenProperties
<1> QED
  BY <1>1, <1>2, EmptySeq

(* A sequence without the element at a place.                                 *)
LEMMA RemoveOne ==
    ASSUME NEW S, NEW s \in Seq(S), NEW i \in 1 .. Len(s)
    PROVE  /\ RemoveAt(s, i) \in Seq(S) /\ Len(RemoveAt(s, i)) = Len(s) - 1
           /\ DOMAIN s = 1 .. Len(s) /\ DOMAIN RemoveAt(s, i) = 1 .. Len(s) - 1
           /\ \A j \in 1 .. Len(s) - 1 :
                 RemoveAt(s, i)[j] = IF j < i THEN s[j] ELSE s[j + 1]
<1> DEFINE before == SubSeq(s, 1, i - 1)
           after == SubSeq(s, i + 1, Len(s))
<1>1. Len(s) \in Nat /\ DOMAIN s = 1 .. Len(s) /\ \A j \in 1 .. Len(s) : s[j] \in S
  BY LenProperties, ElementOfSeq
<1>2. /\ before \in Seq(S) /\ Len(before) = i - 1
      /\ \A j \in 1 .. i - 1 : before[j] = s[j]
  <2>1. /\ 1 \in Int /\ i - 1 \in Int /\ \A j \in 1 .. i - 1 : s[j] \in S
        /\ (i - 1) - 1 + 1 = i - 1
    BY <1>1
  <2>2. /\ before \in Seq(S) /\ Len(before) = IF 1 <= i - 1 THEN (i - 1) - 1 + 1 ELSE 0
        /\ \A j \in 1 .. (i - 1) - 1 + 1 : before[j] = s[1 + j - 1]
    BY <2>1, SubSeqProperties
  <2> QED
    <3> HIDE DEF before
    <3>1. \A j \in 1 .. i - 1 : 1 + j - 1 = j
      OBVIOUS
    <3> QED  BY <1>1, <2>1, <2>2, <3>1
<1>3. /\ after \in Seq(S) /\ Len(after) = Len(s) - i
      /\ \A j \in 1 .. Len(s) - i : after[j] = s[i + j]
  <2>1. /\ i + 1 \in Int /\ Len(s) \in Int /\ \A j \in i + 1 .. Len(s) : s[j] \in S
        /\ Len(s) - (i + 1) + 1 = Len(s) - i
    BY <1>1
  <2>2. /\ after \in Seq(S)
        /\ Len(after) = IF i + 1 <= Len(s) THEN Len(s) - (i + 1) + 1 ELSE 0
        /\ \A j \in 1 .. Len(s) - (i + 1) + 1 : after[j] = s[(i + 1) + j - 1]
    BY <2>1, SubSeqProperties
  <2> QED
    <3> HIDE DEF after
    <3>1. \A j \in 1 .. Len(s) - i : (i + 1) + j - 1 = i + j
      BY <1>1
    <3>2. Len(after) = Len(s) - i
      <4>0. Len(s) \in Nat /\ i \in Nat /\ i <= Len(s)
        BY <1>1
      <4>1. i + 1 <= Len(s) \/ Len(s) - i = 0
        BY <4>0
      <4> QED  BY <1>1, <2>1, <2>2, <4>1
    <3>3. \A j \in 1 .. Len(s) - i : after[j] = s[i + j]
      BY <2>1, <2>2, <3>1
    <3> QED  BY <2>2, <3>2, <3>3
<1> HIDE DEF before, after
<1>4. /\ before \o after \in Seq(S) /\ Len(before \o after) = Len(before) + Len(after)
      /\ \A j \in 1 .. Len(before) + Len(after) :
            (before \o after)[j] = IF j <= Len(before) THEN before[j] ELSE after[j - Len(before)]
  BY <1>2, <1>3, ConcatProperties
<1>5. RemoveAt(s, i) = before \o after
  BY DEF RemoveAt, before, after
<1>6. ASSUME NEW j \in 1 .. Len(s) - 1
      PROVE  RemoveAt(s, i)[j] = IF j < i THEN s[j] ELSE s[j + 1]
  <2>1. CASE j < i
    BY <1>1, <1>2, <1>3, <1>4, <1>5, <2>1
  <2>2. CASE j >= i
    <3>1. j - Len(before) \in 1 .. Len(s) - i /\ i + (j - Len(before)) = j + 1
      BY <1>1, <1>2, <2>2
    <3>2. after[j - Len(before)] = s[j + 1]
      BY <1>3, <3>1
    <3> QED  BY <1>1, <1>2, <1>3, <1>4, <1>5, <2>2, <3>2
  <2> QED  BY <1>1, <2>1, <2>2
<1>7. RemoveAt(s, i) \in Seq(S) /\ Len(RemoveAt(s, i)) = Len(s) - 1
  <2>1. Len(before) + Len(after) = Len(s) - 1
    BY <1>1, <1>2, <1>3
  <2> QED  BY <1>4, <1>5, <2>1
<1> QED
  BY <1>1, <1>6, <1>7, LenProperties

(* A sequence with another element at a place.                                *)
LEMMA ReplaceOne ==
    ASSUME NEW S, NEW s \in Seq(S), NEW i \in 1 .. Len(s), NEW e \in S
    PROVE  /\ ReplaceAt(s, i, e) \in Seq(S) /\ Len(ReplaceAt(s, i, e)) = Len(s)
           /\ DOMAIN s = 1 .. Len(s) /\ DOMAIN ReplaceAt(s, i, e) = 1 .. Len(s)
           /\ \A j \in 1 .. Len(s) : ReplaceAt(s, i, e)[j] = IF j = i THEN e ELSE s[j]
<1>1. /\ ReplaceAt(s, i, e) \in Seq(S) /\ Len(ReplaceAt(s, i, e)) = Len(s)
      /\ \A j \in 1 .. Len(s) : ReplaceAt(s, i, e)[j] = IF j = i THEN e ELSE s[j]
  BY ExceptSeq DEF ReplaceAt
<1> QED
  BY <1>1, LenProperties

(* A sequence changed at each place.                                          *)
LEMMA EachPlace ==
    ASSUME NEW S, NEW s \in Seq(S), NEW t, DOMAIN t = DOMAIN s,
           t = [i \in DOMAIN s |-> t[i]], \A i \in DOMAIN s : t[i] \in S
    PROVE  t \in Seq(S) /\ Len(t) = Len(s) /\ DOMAIN s = 1 .. Len(s) /\ Len(s) \in Nat
<1>1. DOMAIN s = 1 .. Len(s) /\ Len(s) \in Nat
  BY LenProperties
<1>2. t \in [1 .. Len(s) -> S]
  BY <1>1
<1>3. t \in Seq(S)
  BY <1>1, <1>2, SeqDef
<1> QED
  BY <1>1, <1>3, LenProperties
-----------------------------------------------------------------------------
(* What the steps, jobs, runs and deadlines are.                              *)
StepName == {"call", "delay", "forever", "paste"}

(* The steps that a run has left are those of a macro, less the first ones.   *)
LEMMA StepsAre ==
    ASSUME NEW s \in Steps
    PROVE  /\ s \in Seq(StepName)
           /\ s # <<>> => Tail(s) \in Steps /\ (HasPaste(Tail(s)) => HasPaste(s))
           /\ s # <<>> /\ Head(s) = "paste" => HasPaste(s)
<1>1. s \in Seq(StepName) /\ (s # <<>> => Tail(s) \in Steps)
  <2>1. CASE s = <<>>
    BY <2>1, EmptySeq
  <2>2. CASE s = <<"paste">>
    <3>1. s \in Seq(StepName) /\ Tail(s) = <<>>
      BY <2>2 DEF StepName
    <3> QED  BY <3>1 DEF Steps
  <2>3. CASE s \in Stretch
    <3>1. PICK m \in Macros : \E i \in 1 .. Len(m) + 1 : s = SubSeq(m, i, Len(m))
      BY <2>3 DEF Stretch
    <3>2. PICK i \in 1 .. Len(m) + 1 : s = SubSeq(m, i, Len(m))
      BY <3>1
    <3>3. m \in Seq(StepName) /\ Len(m) \in Nat /\ \A j \in 1 .. Len(m) : m[j] \in StepName
      BY ExecutorAssumption, LenProperties, ElementOfSeq DEF StepName
    <3>4. s \in Seq(StepName)
      <4>1. i \in Int /\ Len(m) \in Int /\ \A j \in i .. Len(m) : m[j] \in StepName
        BY <3>3
      <4> QED  BY <3>2, <4>1, SubSeqProperties
    <3>5. CASE i = Len(m) + 1
      <4>1. s = <<>>
        BY <3>2, <3>3, <3>5, SubSeqEmpty
      <4> QED  BY <3>4, <4>1
    <3>6. CASE i <= Len(m)
      <4>1. i \in 1 .. Len(m) /\ Len(m) \in i .. Len(m) /\ i + 1 \in 1 .. Len(m) + 1
        BY <3>3, <3>6
      <4>2. Tail(s) = SubSeq(m, i + 1, Len(m))
        BY <3>2, <3>3, <4>1, HeadTailOfSubSeq
      <4>3. Tail(s) \in Stretch
        <5>1. Tail(s) \in {SubSeq(m, j, Len(m)) : j \in 1 .. Len(m) + 1}
          BY <4>1, <4>2
        <5> QED  BY <5>1 DEF Stretch
      <4> QED  BY <3>4, <4>3 DEF Steps
    <3> QED  BY <3>2, <3>3, <3>5, <3>6
  <2> QED  BY <2>1, <2>2, <2>3 DEF Steps
<1>2. ASSUME s # <<>> PROVE (HasPaste(Tail(s)) => HasPaste(s)) /\ (Head(s) = "paste" => HasPaste(s))
  BY <1>1, <1>2, TailOf DEF HasPaste
<1> QED  BY <1>1, <1>2

(* A fired job is live, and is one that the environment fires.                *)
LEMMA FiredType ==
    /\ Fired \subseteq Job
    /\ \A job \in Fired : job.live /\ (HasPaste(job.steps) => "paste" \in env)
                          /\ (job.kind = "action" => "launch" \in env)
<1>1. ASSUME NEW m \in Macros PROVE m \in Steps
  <2>1. m \in Seq(StepName) /\ Len(m) \in Nat /\ 1 \in 1 .. Len(m) + 1
    BY ExecutorAssumption, LenProperties DEF StepName
  <2>2. m = SubSeq(m, 1, Len(m))
    BY <2>1, SubSeqFull
  <2> QED  BY <2>1, <2>2 DEF Steps, Stretch
<1>2. ASSUME NEW job \in Fired
      PROVE  /\ job \in Job /\ job.live /\ (HasPaste(job.steps) => "paste" \in env)
             /\ (job.kind = "action" => "launch" \in env)
  <2>1. CASE \E m \in Macros : /\ (IF HasPaste(m) THEN "paste" ELSE "macro") \in env
                               /\ job = [kind |-> "macro", steps |-> m, live |-> TRUE]
    BY <1>1, <2>1 DEF Job, Kinds
  <2>2. CASE "launch" \in env /\ job = [kind |-> "action", steps |-> <<>>, live |-> TRUE]
    <3>1. ~HasPaste(<<>>)
      BY DEF HasPaste
    <3> QED  BY <2>2, <3>1 DEF Job, Kinds, Steps
  <2>3. CASE "paste" \in env /\ job = [kind |-> "paste", steps |-> <<"paste">>, live |-> TRUE]
    BY <2>3 DEF Job, Kinds, Steps
  <2> QED  BY <2>1, <2>2, <2>3 DEF Fired
<1> QED  BY <1>2

(* The nearest deadline is one of them, and none is nearer.                   *)
LEMMA NearestIs ==
    ASSUME active \in Seq(Run), restore \in Restore \cup {None}
    PROVE  /\ Deadlines \subseteq Time
           /\ Deadlines = {} => Nearest = None
           /\ Deadlines # {} => /\ Nearest \in Deadlines /\ Nearest \in Time /\ Nearest # None
                                /\ \A at \in Deadlines : Nearest <= at
<1>1. Time \subseteq Nat /\ None \notin Time
  BY ExecutorAssumption DEF Time
<1>2. \A i \in DOMAIN active : active[i] \in Run
  BY LenProperties, ElementOfSeq
<1>3. Deadlines \subseteq Time
  BY <1>1, <1>2 DEF Deadlines, Run, Restore
<1>4. ASSUME Deadlines # {} PROVE \E n \in Deadlines : \A m \in Deadlines : n <= m
  BY <1>1, <1>3, <1>4, LeastNumber
<1>5. Deadlines # {} => Min(Deadlines) \in Deadlines /\ \A m \in Deadlines : Min(Deadlines) <= m
  BY <1>4 DEF Min
<1> QED  BY <1>1, <1>3, <1>5 DEF Nearest
-----------------------------------------------------------------------------
(* The types.                                                                 *)
TypeInv == TypeOK /\ PlaceInv

USE DEF handles, queues, pass, place, end, timer

(* The initial states are typed.                                              *)
LEMMA InitTypes == Init => TypeInv
<1> SUFFICES ASSUME Init PROVE TypeInv
  OBVIOUS
<1>1. <<>> \in Seq(Job) /\ <<>> \in Seq(Run) /\ Len(<<>>) = 0
  BY EmptySeq
<1>2. Capacity[env] \in Nat /\ MaxWakes \in Nat /\ 0 \in Time /\ 1 \in 1 .. 0 + 1
  BY ExecutorAssumption DEF Init, Time
<1>3. TypeOK
  <2>1. queue \in Seq(Job) /\ Len(queue) <= Capacity[env] /\ held \in Seq(Job)
        /\ Len(held) <= Capacity[env] /\ active \in Seq(Run) /\ index \in 1 .. Len(active) + 1
    BY <1>1, <1>2 DEF Init
  <2>2. /\ posting \in BOOLEAN /\ wakes \in 0 .. MaxWakes /\ stopping \in BOOLEAN
        /\ restore \in Restore \cup {None} /\ armed \in Time \cup {None}
        /\ signal \in Time \cup {None} /\ until \in Time
    <3>1. wakes = 0 /\ 0 \in 0 .. MaxWakes
      BY <1>2 DEF Init
    <3> QED  BY <1>2, <3>1 DEF Init
  <2>3. /\ final \in BOOLEAN /\ calls \in BOOLEAN /\ pumping \in BOOLEAN
        /\ turn \in BOOLEAN /\ disobeyed \in BOOLEAN
        /\ ending \in {"none", "stopped", "died"} /\ env \in Environments
        /\ loop \in {"drain", "poll", "advance", "arm", "wait", "close", "ended"}
    BY DEF Init
  <2> QED  BY <2>1, <2>2, <2>3 DEF TypeOK
<1>4. PlaceInv
  BY DEF Init, PlaceInv
<1> QED  BY <1>3, <1>4 DEF TypeInv

(* A fired job, a cancel, a stop, and the WAKE that follows each of them.     *)
LEMMA CancelledType ==
    TypeOK => /\ Cancelled(queue) \in Seq(Job) /\ Len(Cancelled(queue)) = Len(queue)
              /\ Cancelled(held) \in Seq(Job) /\ Len(Cancelled(held)) = Len(held)
              /\ Cancelled(active) \in Seq(Run) /\ Len(Cancelled(active)) = Len(active)
<1> SUFFICES ASSUME TypeOK PROVE /\ Cancelled(queue) \in Seq(Job)
                                 /\ Len(Cancelled(queue)) = Len(queue)
                                 /\ Cancelled(held) \in Seq(Job)
                                 /\ Len(Cancelled(held)) = Len(held)
                                 /\ Cancelled(active) \in Seq(Run)
                                 /\ Len(Cancelled(active)) = Len(active)
  OBVIOUS
<1>1. ASSUME NEW q \in Seq(Job) PROVE Cancelled(q) \in Seq(Job) /\ Len(Cancelled(q)) = Len(q)
  <2>1. \A i \in DOMAIN q : q[i] \in Job
    BY LenProperties, ElementOfSeq
  <2>2. \A i \in DOMAIN q : Cancelled(q)[i] \in Job
    BY <2>1 DEF Cancelled, Job
  <2>3. DOMAIN Cancelled(q) = DOMAIN q /\ Cancelled(q) = [i \in DOMAIN q |-> Cancelled(q)[i]]
    BY DEF Cancelled
  <2> QED  BY <2>2, <2>3, EachPlace
<1>2. ASSUME NEW q \in Seq(Run) PROVE Cancelled(q) \in Seq(Run) /\ Len(Cancelled(q)) = Len(q)
  <2>1. \A i \in DOMAIN q : q[i] \in Run
    BY LenProperties, ElementOfSeq
  <2>2. \A i \in DOMAIN q : Cancelled(q)[i] \in Run
    BY <2>1 DEF Cancelled, Run
  <2>3. DOMAIN Cancelled(q) = DOMAIN q /\ Cancelled(q) = [i \in DOMAIN q |-> Cancelled(q)[i]]
    BY DEF Cancelled
  <2> QED  BY <2>2, <2>3, EachPlace
<1> QED  BY <1>1, <1>2 DEF TypeOK

(* What the daemon's thread does keeps the types.                             *)
LEMMA HandleTypes == TypeInv /\ (Submit \/ Cancel \/ Stop \/ PostWake) => TypeInv'
<1> SUFFICES ASSUME TypeInv, Submit \/ Cancel \/ Stop \/ PostWake PROVE TypeInv'
  OBVIOUS
<1>1. MaxWakes \in Nat /\ wakes \in Nat /\ Len(queue) \in Nat /\ Capacity[env] \in Nat
  BY ExecutorAssumption, LenProperties DEF TypeInv, TypeOK
<1>2. CASE Submit
  <2>1. PICK job \in Fired : queue' = Append(queue, job)
    BY <1>2 DEF Submit
  <2>2. queue' \in Seq(Job) /\ Len(queue') = Len(queue) + 1 /\ Len(queue) < Capacity[env]
    BY <1>2, <2>1, FiredType, AppendTo DEF Submit, TypeInv, TypeOK
  <2>3. TypeOK'
    BY <1>1, <1>2, <2>2 DEF Submit, TypeInv, TypeOK
  <2>4. PlaceInv'
    BY <1>2 DEF Submit, Room, TypeInv, PlaceInv
  <2> QED  BY <2>3, <2>4 DEF TypeInv
<1>3. CASE Cancel \/ Stop
  <2>1. CancelPending /\ stopping' \in BOOLEAN
    BY <1>3 DEF Cancel, Stop, TypeInv, TypeOK
  <2>2. TypeOK'
    <3>1. /\ queue' \in Seq(Job) /\ Len(queue') = Len(queue)
          /\ held' \in Seq(Job) /\ Len(held') = Len(held)
          /\ active' \in Seq(Run) /\ Len(active') = Len(active)
      BY <2>1, CancelledType DEF CancelPending, TypeInv
    <3>2. index' = index /\ env' = env /\ index \in 1 .. Len(active) + 1
          /\ Len(queue) <= Capacity[env] /\ Len(held) <= Capacity[env]
      BY <2>1 DEF CancelPending, TypeInv, TypeOK
    <3>3. /\ Len(queue') <= Capacity[env'] /\ Len(held') <= Capacity[env']
          /\ index' \in 1 .. Len(active') + 1
      BY <3>1, <3>2
    <3> QED  BY <2>1, <3>1, <3>3 DEF CancelPending, TypeInv, TypeOK
  <2>3. PlaceInv'
    BY <2>1 DEF CancelPending, TypeInv, PlaceInv
  <2> QED  BY <2>2, <2>3 DEF TypeInv
<1>4. CASE PostWake
  <2>1. wakes' \in 0 .. MaxWakes
    BY <1>1, <1>4 DEF PostWake, TypeInv, TypeOK, PlaceInv
  <2>2. TypeOK'
    <3>1. posting' \in BOOLEAN /\ UNCHANGED <<env, queues, place, end, timer, restore>>
      BY <1>4 DEF PostWake
    <3> QED  BY <2>1, <3>1 DEF TypeInv, TypeOK
  <2>3. PlaceInv'
    BY <1>4 DEF PostWake, TypeInv, PlaceInv
  <2> QED  BY <2>2, <2>3 DEF TypeInv
<1> QED  BY <1>2, <1>3, <1>4

(* What begins becomes a run, or has been run.                                *)
LEMMA BeginTypes ==
    ASSUME TypeInv, ~pumping, NEW job \in Job, Begin(job)
    PROVE  /\ active' \in Seq(Run) /\ Len(active') >= Len(active)
           /\ turn' \in BOOLEAN /\ calls' \in BOOLEAN /\ disobeyed' \in BOOLEAN
           /\ pumping' \in BOOLEAN /\ (pumping' => calls')
<1>1. CASE job.kind = "action" /\ Call(job) /\ UNCHANGED active
  BY <1>1, LenProperties DEF Begin, Call, Live, TypeInv, TypeOK
<1>2. CASE job.kind # "action" /\ UNCHANGED <<calls, disobeyed, pumping>>
  <2>1. active' = Append(active, [kind |-> job.kind, steps |-> job.steps,
                                  live |-> job.live, resume |-> 0, attempt |-> None])
    BY <1>2 DEF Begin
  <2>2. [kind |-> job.kind, steps |-> job.steps, live |-> job.live, resume |-> 0,
         attempt |-> None] \in Run
    BY ExecutorAssumption DEF Job, Run, Time
  <2>3. active' \in Seq(Run) /\ Len(active') = Len(active) + 1 /\ Len(active) \in Nat
    BY <2>1, <2>2, AppendTo DEF TypeInv, TypeOK
  <2> QED  BY <1>2, <2>3 DEF Begin, TypeInv, TypeOK
<1> QED  BY <1>1, <1>2 DEF Begin

(* So does the drain, which takes a job,                                      *)
LEMMA TakeTypes == TypeInv /\ TakeJob => TypeInv'
<1> SUFFICES ASSUME TypeInv, TakeJob PROVE TypeInv'
  OBVIOUS
<1>1. /\ queue \in Seq(Job) /\ queue # <<>> /\ held \in Seq(Job) /\ Len(held) < Capacity[env]
      /\ Len(queue) <= Capacity[env] /\ Capacity[env] \in Nat /\ Len(held) \in Nat
      /\ active \in Seq(Run) /\ Len(active) \in Nat
  BY ExecutorAssumption, LenProperties DEF TakeJob, CanTake, TypeInv, TypeOK
<1>2. queue' \in Seq(Job) /\ Len(queue') <= Capacity[env] /\ Head(queue) \in Job
  BY <1>1, TailOf DEF TakeJob
<1>3. ~pumping /\ ending = "none"
  BY DEF TakeJob, Draining, TypeInv, PlaceInv
<1>4. /\ held' \in Seq(Job) /\ Len(held') <= Capacity[env]
      /\ active' \in Seq(Run) /\ Len(active') >= Len(active)
      /\ turn' \in BOOLEAN /\ calls' \in BOOLEAN /\ disobeyed' \in BOOLEAN
      /\ pumping' \in BOOLEAN /\ (pumping' => calls')
  <2>1. CASE Refused(Head(queue)) /\ UNCHANGED <<held, active, turn, calls, disobeyed, pumping>>
    BY <1>1, <1>3, <2>1 DEF TypeInv, TypeOK
  <2>2. CASE /\ held' = Append(held, Head(queue))
             /\ UNCHANGED <<active, turn, calls, disobeyed, pumping>>
    BY <1>1, <1>2, <1>3, <2>2, AppendTo DEF TypeInv, TypeOK
  <2>3. CASE Begin(Head(queue)) /\ UNCHANGED held
    BY <1>1, <1>2, <1>3, <2>3, BeginTypes
  <2> QED  BY <2>1, <2>2, <2>3 DEF TakeJob, Start
<1>5. Len(active') \in Nat /\ index' \in 1 .. Len(active') + 1
  BY <1>1, <1>4, LenProperties DEF TakeJob, TypeInv, TypeOK
<1>6. TypeOK'
  BY <1>2, <1>4, <1>5 DEF TakeJob, TypeInv, TypeOK
<1>7. PlaceInv'
  BY <1>3, <1>4 DEF TakeJob, TypeInv, PlaceInv
<1> QED  BY <1>6, <1>7 DEF TypeInv

(* and ends, by itself or with a stop.                                        *)
LEMMA DrainTypes == TypeInv /\ (DrainEnds \/ StopSeen \/ CallReturns) => TypeInv'
<1> SUFFICES ASSUME TypeInv, DrainEnds \/ StopSeen \/ CallReturns PROVE TypeInv'
  OBVIOUS
<1>1. Longest \in Time /\ wakes \in 0 .. MaxWakes /\ MaxWakes \in Nat
  BY ExecutorAssumption DEF TypeInv, TypeOK, Time
<1>2. TypeOK'
  <2>1. CASE DrainEnds
    BY <2>1 DEF DrainEnds, TypeInv, TypeOK
  <2>2. CASE StopSeen
    <3>1. /\ ending' \in {"none", "stopped", "died"} /\ until' \in Time /\ loop' = "close"
          /\ UNCHANGED <<handles, wakes, queues, stopping, timer, restore, index, pass>>
      BY <1>1, <2>2 DEF StopSeen
    <3> QED  BY <3>1 DEF TypeInv, TypeOK
  <2>3. CASE CallReturns
    <3>1. /\ wakes' \in 0 .. MaxWakes /\ pumping' \in BOOLEAN
          /\ UNCHANGED <<handles, queues, loop, index, final, calls, end, timer, restore>>
      <4>1. wakes' \in 0 .. wakes
        BY <2>3 DEF CallReturns
      <4>2. wakes' \in 0 .. MaxWakes
        BY <1>1, <4>1
      <4> QED  BY <2>3, <4>2 DEF CallReturns
    <3> QED  BY <3>1 DEF TypeInv, TypeOK
  <2> QED  BY <2>1, <2>2, <2>3
<1>3. PlaceInv'
  <2>1. CASE DrainEnds
    BY <2>1 DEF DrainEnds, Draining, TypeInv, PlaceInv
  <2>2. CASE StopSeen
    BY <2>2 DEF StopSeen, TypeInv, PlaceInv
  <2>3. CASE CallReturns
    BY <1>1, <2>3 DEF CallReturns, TypeInv, PlaceInv
  <2> QED  BY <2>1, <2>2, <2>3
<1> QED  BY <1>2, <1>3 DEF TypeInv
(* A poll: what is left of the runs, and what becomes of the one that goes on.*)
LEMMA RetainedTypes ==
    ASSUME NEW S, NEW work \in Seq(S), NEW kept \in Retained(work)
    PROVE  /\ kept \in Seq(S) /\ Len(kept) <= Len(work)
           /\ \A i \in DOMAIN kept : \E j \in DOMAIN work : kept[i] = work[j] /\ Live(work[j])
<1> DEFINE places == {i \in DOMAIN work : Live(work[i])}
<1>1. kept \in Only(work, places) /\ places \in SUBSET DOMAIN work
  BY DEF Retained
<1>2. /\ kept \in Seq(S) /\ Len(kept) <= Len(work)
      /\ \A i \in DOMAIN kept : \E j \in places : kept[i] = work[j]
  <2> HIDE DEF places
  <2> QED  BY <1>1, OnlyType
<1> QED  BY <1>2

(* The present run is one of the runs, and so is what it goes on as.          *)
LEMMA PresentIs ==
    TypeOK /\ Advancing =>
        /\ index \in 1 .. Len(active) /\ index \in DOMAIN active /\ Len(active) \in Nat
        /\ Present \in Run
        /\ Present.steps # <<>> => StepDone \in Run
<1> SUFFICES ASSUME TypeOK, Advancing
             PROVE  /\ index \in 1 .. Len(active) /\ index \in DOMAIN active
                    /\ Len(active) \in Nat /\ Present \in Run
                    /\ Present.steps # <<>> => StepDone \in Run
  OBVIOUS
<1>1. Len(active) \in Nat /\ DOMAIN active = 1 .. Len(active)
  BY LenProperties DEF TypeOK
<1>2. index \in 1 .. Len(active)
  BY <1>1 DEF TypeOK, Advancing
<1>3. Present \in Run
  BY <1>2, ElementOfSeq DEF TypeOK, Present
<1>4. ASSUME Present.steps # <<>> PROVE StepDone \in Run
  <2>1. Tail(Present.steps) \in Steps
    BY <1>3, <1>4, StepsAre DEF Run
  <2> QED  BY <1>3, <2>1 DEF StepDone, Run
<1> QED  BY <1>1, <1>2, <1>3, <1>4

(* What becomes of the present run leaves runs, and an index of them.         *)
LEMMA AdvancedTypes ==
    ASSUME TypeOK, Advancing
    PROVE  /\ Ended \/ (Present.steps # <<>> /\ GoesOn)
                \/ (\E run \in Run, resume \in Time \cup {None} : Waits(run, resume)) =>
                  /\ active' \in Seq(Run) /\ Len(active') \in Nat
                  /\ index' \in 1 .. Len(active') + 1
<1>0. /\ index \in 1 .. Len(active) /\ Len(active) \in Nat /\ active \in Seq(Run)
      /\ Present.steps # <<>> => StepDone \in Run
  BY PresentIs DEF TypeOK
<1>1. CASE Ended
  <2>1. active' \in Seq(Run) /\ Len(active') = Len(active) - 1
    BY <1>0, <1>1, RemoveOne DEF Ended
  <2> QED  BY <1>0, <1>1, <2>1 DEF Ended
<1>2. CASE Present.steps # <<>> /\ GoesOn
  <2>1. active' \in Seq(Run) /\ Len(active') = Len(active)
    BY <1>0, <1>2, ReplaceOne DEF GoesOn
  <2> QED  BY <1>0, <1>2, <2>1 DEF GoesOn
<1>3. ASSUME NEW run \in Run, NEW resume \in Time \cup {None}, Waits(run, resume)
      PROVE  /\ active' \in Seq(Run) /\ Len(active') \in Nat
             /\ index' \in 1 .. Len(active') + 1
  <2>1. [run EXCEPT !.resume = resume] \in Run
    BY DEF Run
  <2>2. active' \in Seq(Run) /\ Len(active') = Len(active)
    BY <1>0, <1>3, <2>1, ReplaceOne DEF Waits
  <2> QED  BY <1>0, <1>3, <2>2 DEF Waits
<1> QED  BY <1>1, <1>2, <1>3

(* The restore that the session decides on is a restore.                      *)
LEMMA SessionTypes ==
    TypeOK /\ SessionTicks =>
        restore' \in Restore \cup {None} /\ calls' \in BOOLEAN /\ (calls => calls')
<1> SUFFICES ASSUME TypeOK, SessionTicks
             PROVE  restore' \in Restore \cup {None} /\ calls' \in BOOLEAN /\ (calls => calls')
  OBVIOUS
<1>1. calls \in BOOLEAN /\ restore \in Restore \cup {None}
  BY DEF TypeOK
<1>2. CASE UNCHANGED <<restore, calls>>
  BY <1>1, <1>2
<1>3. CASE /\ restore # None /\ restore' = [restore EXCEPT !.due = TRUE]
           /\ calls' \in {calls, calls \/ restore.sent}
  BY <1>1, <1>3 DEF Restore
<1>4. CASE /\ restore # None /\ calls' = TRUE
           /\ \E at \in Time \ {0} : restore' = [restore EXCEPT !.at = at]
  BY <1>1, <1>4 DEF Restore
<1>5. CASE restore' = None /\ calls' = TRUE
  BY <1>5
<1> QED  BY <1>2, <1>3, <1>4, <1>5 DEF SessionTicks, Undecided

(* A poll that begins keeps the types.                                        *)
LEMMA PollBeginTypes == TypeInv /\ PollBegins => TypeInv'
<1> SUFFICES ASSUME TypeInv, PollBegins PROVE TypeInv'
  OBVIOUS
<1>1. /\ active' \in Seq(Run) /\ held' \in Seq(Job) /\ Len(held') <= Len(held)
      /\ Len(held) <= Capacity[env] /\ Capacity[env] \in Nat /\ Len(held) \in Nat
  BY RetainedTypes, LenProperties, ExecutorAssumption DEF PollBegins, TypeInv, TypeOK
<1>2. /\ Len(held') <= Capacity[env'] /\ env' = env
      /\ Len(active') \in Nat /\ index' \in 1 .. Len(active') + 1
  <2>1. Len(held') \in Nat /\ Len(active') \in Nat /\ env' = env /\ index' = 1
    BY <1>1, LenProperties DEF PollBegins
  <2> QED  BY <1>1, <2>1
<1>3. restore' \in Restore \cup {None} /\ calls' \in BOOLEAN /\ (calls => calls')
  BY SessionTypes DEF PollBegins, TypeInv
<1>4. /\ loop' = "advance" /\ loop = "poll"
      /\ UNCHANGED <<handles, wakes, queue, turn, disobeyed, final, pumping, end, timer>>
  BY DEF PollBegins
<1>5. TypeOK'
  BY <1>1, <1>2, <1>3, <1>4 DEF TypeInv, TypeOK
<1>6. PlaceInv'
  BY <1>3, <1>4 DEF TypeInv, PlaceInv
<1> QED  BY <1>5, <1>6 DEF TypeInv

RunGoesOn == RunEnds \/ RunCalls \/ RunDelays \/ PasteBehind \/ PasteTries

(* There is a first run among those before the present one.                   *)
LEMMA OlderIs ==
    ASSUME TypeOK, Advancing, Older # {}
    PROVE  Min(Older) \in Older /\ Min(Older) \in DOMAIN active
           /\ active[Min(Older)].resume \in Time \cup {None}
<1>1. Older \subseteq Nat /\ Older \subseteq DOMAIN active
  BY PresentIs, LenProperties DEF Older, TypeOK
<1>2. \E n \in Older : \A m \in Older : n <= m
  BY <1>1, LeastNumber
<1>3. Min(Older) \in Older
  BY <1>2 DEF Min
<1>4. active[Min(Older)] \in Run
  BY <1>1, <1>3, LenProperties, ElementOfSeq DEF TypeOK
<1> QED  BY <1>1, <1>3, <1>4 DEF Run

(* Each way in which a run goes on is one of the three of advance.            *)
LEMMA RunGoesOnTypes ==
    ASSUME TypeInv, RunGoesOn, ~pumping
    PROVE  /\ loop = "advance" /\ loop' = "advance"
           /\ active' \in Seq(Run) /\ Len(active') \in Nat /\ index' \in 1 .. Len(active') + 1
           /\ restore' \in Restore \cup {None} /\ calls' \in BOOLEAN /\ disobeyed' \in BOOLEAN
           /\ pumping' \in BOOLEAN /\ (pumping' => calls')
           /\ UNCHANGED <<handles, wakes, queue, held, turn, final, end, timer>>
<1>1. Advancing
  BY DEF RunGoesOn, RunEnds, RunCalls, RunDelays, PasteBehind, PasteTries, AtStep, DueNow
<1>2. Present \in Run /\ (Present.steps # <<>> => StepDone \in Run)
  BY <1>1, PresentIs DEF TypeInv
<1>3. Time \subseteq Nat /\ MaxTries \in Nat /\ None \notin Nat
      /\ Longest \in Nat /\ 0 \in Time
  BY ExecutorAssumption DEF Time
<1>4. CASE RunEnds
  BY <1>1, <1>4, AdvancedTypes DEF RunEnds, Advancing, TypeInv, TypeOK
<1>5. CASE RunCalls
  <2>1. Ended \/ (Present.steps # <<>> /\ GoesOn)
    BY <1>5 DEF RunCalls, AtStep
  <2>2. calls' \in BOOLEAN /\ disobeyed' \in BOOLEAN /\ pumping' \in BOOLEAN /\ calls'
    BY <1>5 DEF RunCalls, Call, TypeInv, TypeOK
  <2> QED  BY <1>1, <1>5, <2>1, <2>2, AdvancedTypes DEF RunCalls, Advancing, TypeInv, TypeOK
<1>6. CASE RunDelays
  <2>1. \E run \in Run, resume \in Time \cup {None} : Waits(run, resume)
    BY <1>2, <1>6 DEF RunDelays, AtStep
  <2> QED  BY <1>1, <1>6, <2>1, AdvancedTypes DEF RunDelays, Advancing, TypeInv, TypeOK
<1>7. CASE PasteBehind
  <2>1. active[Min(Older)].resume \in Time \cup {None}
    BY <1>1, <1>7, OlderIs DEF PasteBehind, TypeInv
  <2>2. \E run \in Run, resume \in Time \cup {None} : Waits(run, resume)
    BY <1>2, <1>7, <2>1 DEF PasteBehind
  <2> QED  BY <1>1, <1>7, <2>2, AdvancedTypes DEF PasteBehind, Advancing, TypeInv, TypeOK
<1>8. CASE PasteTries
  <2>1. Present.steps # <<>>
    BY <1>8 DEF PasteTries, AtStep
  <2>2. CASE PasteWaitsOn
    <3>1. PICK resume \in (Time \ {0}) \cup (IF Chained THEN 0 .. restore.at ELSE {}) :
             Waits([Present EXCEPT !.attempt = Tried + 1], resume)
      BY <2>2 DEF PasteWaitsOn
    <3>2. resume \in Time
      <4>1. CASE Chained
        <5>1. restore.at \in Time
          BY <4>1 DEF Chained, Restore, TypeInv, TypeOK
        <5>2. 0 .. restore.at \subseteq Time
          BY <1>3, <5>1 DEF Time
        <5> QED  BY <3>1, <4>1, <5>2
      <4> QED  BY <3>1, <4>1
    <3>3. Tried + 1 \in 0 .. MaxTries
      BY <1>2, <1>3, <2>2 DEF Tried, Run, PasteWaitsOn
    <3>4. [Present EXCEPT !.attempt = Tried + 1] \in Run
      BY <1>2, <3>3 DEF Run
    <3>5. \E run \in Run, r \in Time \cup {None} : Waits(run, r)
      BY <3>1, <3>2, <3>4
    <3> QED
      BY <1>1, <1>8, <2>2, <3>5, AdvancedTypes
      DEF PasteTries, PasteWaitsOn, Advancing, TypeInv, TypeOK
  <2>3. CASE PasteOver
    <3>1. Ended \/ (Present.steps # <<>> /\ GoesOn)
      BY <2>1, <2>3 DEF PasteOver
    <3>2. restore' \in Restore \cup {None}
      <4>1. restore \in Restore \cup {None}
        BY DEF TypeInv, TypeOK
      <4>2. \A at \in Time : [at |-> at, due |-> FALSE, sent |-> TRUE] \in Restore
        BY DEF Restore
      <4>3. [at |-> 0, due |-> FALSE, sent |-> FALSE] \in Restore
        BY <1>3 DEF Restore
      <4> QED  BY <2>3, <4>1, <4>2, <4>3 DEF PasteOver
    <3> QED
      BY <1>1, <1>8, <3>1, <3>2, AdvancedTypes DEF PasteTries, Advancing, TypeInv, TypeOK
  <2> QED  BY <1>8, <2>2, <2>3 DEF PasteTries
<1> QED  BY <1>4, <1>5, <1>6, <1>7, <1>8 DEF RunGoesOn

(* Each step of a run keeps the types.                                        *)
LEMMA AdvanceTypes == TypeInv /\ ~pumping /\ (NotDue \/ RunGoesOn) => TypeInv'
<1> SUFFICES ASSUME TypeInv, ~pumping, NotDue \/ RunGoesOn PROVE TypeInv'
  OBVIOUS
<1>1. CASE NotDue
  <2>1. index' \in 1 .. Len(active) + 1 /\ Advancing
    BY <1>1, PresentIs DEF NotDue, TypeInv
  <2>2. UNCHANGED <<handles, wakes, queues, loop, pass, end, timer, restore>>
    BY <1>1 DEF NotDue
  <2> QED  BY <2>1, <2>2 DEF TypeInv, TypeOK, PlaceInv
<1>2. CASE RunGoesOn
  <2>1. /\ loop = "advance" /\ loop' = "advance"
        /\ active' \in Seq(Run) /\ Len(active') \in Nat /\ index' \in 1 .. Len(active') + 1
        /\ restore' \in Restore \cup {None} /\ calls' \in BOOLEAN /\ disobeyed' \in BOOLEAN
        /\ pumping' \in BOOLEAN /\ (pumping' => calls')
        /\ UNCHANGED <<handles, wakes, queue, held, turn, final, end, timer>>
    BY <1>2, RunGoesOnTypes
  <2>2. TypeOK'
    BY <2>1 DEF TypeInv, TypeOK
  <2>3. PlaceInv'
    BY <2>1 DEF TypeInv, PlaceInv
  <2> QED  BY <2>2, <2>3 DEF TypeInv
<1> QED  BY <1>1, <1>2

(* A held job that begins keeps the types,                                    *)
LEMMA HeldBeginTypes == TypeInv /\ ~pumping /\ HeldBegins => TypeInv'
<1> SUFFICES ASSUME TypeInv, ~pumping, HeldBegins PROVE TypeInv'
  OBVIOUS
<1>1. /\ held' \in Seq(Job) /\ Len(held') = Len(held) - 1 /\ Len(held) \in Nat
      /\ Head(held) \in Job
  BY TailOf DEF HeldBegins, TypeInv, TypeOK
<1>2. /\ active' \in Seq(Run) /\ Len(active') >= Len(active)
      /\ turn' \in BOOLEAN /\ calls' \in BOOLEAN /\ disobeyed' \in BOOLEAN
      /\ pumping' \in BOOLEAN /\ (pumping' => calls')
  BY <1>1, BeginTypes DEF HeldBegins
<1>3. /\ Len(active') \in Nat /\ Len(active) \in Nat /\ index' = index /\ env' = env
      /\ index \in 1 .. Len(active) + 1 /\ Len(held) <= Capacity[env]
      /\ Capacity[env] \in Nat
  BY <1>2, LenProperties, ExecutorAssumption DEF HeldBegins, TypeInv, TypeOK
<1>4. index' \in 1 .. Len(active') + 1 /\ Len(held') <= Capacity[env']
  BY <1>1, <1>2, <1>3
<1>5. /\ loop = "advance"
      /\ UNCHANGED <<handles, wakes, queue, loop, index, final, end, timer, restore>>
  BY DEF HeldBegins
<1>6. TypeOK'
  BY <1>1, <1>2, <1>4, <1>5 DEF TypeInv, TypeOK
<1>7. PlaceInv'
  BY <1>2, <1>5 DEF TypeInv, PlaceInv
<1> QED  BY <1>6, <1>7 DEF TypeInv

(* and so does the end of a poll.                                             *)
LEMMA PollEndTypes == TypeInv /\ ~pumping /\ PollEnds => TypeInv'
<1> SUFFICES ASSUME TypeInv, ~pumping, PollEnds PROVE TypeInv'
  OBVIOUS
<1>1. /\ loop = "advance" /\ ending = "none"
      /\ UNCHANGED <<handles, wakes, queues, index, final, pumping, stopping, timer>>
  BY DEF PollEnds, TypeInv, PlaceInv
<1>2. Longest \in Time /\ Time \subseteq Nat /\ 0 \in Time
  BY ExecutorAssumption DEF Time
<1>3. restore' \in Restore \cup {None}
  <2>1. restore \in Restore \cup {None}
    BY DEF TypeInv, TypeOK
  <2>2. \/ restore' = restore \/ restore' = None
        \/ /\ restore # None
           /\ \E at \in Time \ {0} : restore' = [restore EXCEPT !.due = TRUE, !.at = at]
    BY DEF PollEnds, RestoreTried, RestoreDue
  <2> QED BY <1>2, <2>1, <2>2 DEF Restore
<1>4. PICK asked \in BOOLEAN :
         /\ calls' = (~final /\ (calls \/ asked))
         /\ \/ ~final /\ loop' = "drain" /\ UNCHANGED <<ending, until>>
            \/ /\ final /\ stopping
               /\ loop' = "close" /\ ending' = "stopped" /\ until' = Longest
            \/ /\ final /\ ~stopping
               /\ loop' = IF PassOver(asked) THEN "arm" ELSE "drain"
               /\ UNCHANGED <<ending, until>>
  BY DEF PollEnds
<1>5. /\ calls' \in BOOLEAN /\ loop' \in {"drain", "close", "arm"}
      /\ ending' \in {"none", "stopped"} /\ until' \in Time
      /\ loop' = "close" => ending' = "stopped"
      /\ loop' # "close" => ending' = "none"
      /\ loop' = "arm" => final /\ ~calls'
  BY <1>1, <1>2, <1>4 DEF TypeInv, TypeOK
<1>6. TypeOK'
  BY <1>1, <1>3, <1>5 DEF TypeInv, TypeOK
<1>7. PlaceInv'
  BY <1>1, <1>5 DEF TypeInv, PlaceInv
<1> QED  BY <1>6, <1>7 DEF TypeInv
(* The timer, the wait, and the end of the thread.                            *)
LEMMA EndTypes ==
    ASSUME TypeInv, ~pumping, Ends, ending' \in {"stopped", "died"} PROVE TypeInv'
<1>1. <<>> \in Seq(Job) /\ <<>> \in Seq(Run) /\ Len(<<>>) = 0
  BY EmptySeq
<1>2. /\ Capacity[env] \in Nat /\ MaxWakes \in Nat /\ env \in Environments
      /\ wakes \in 0 .. MaxWakes
  BY ExecutorAssumption DEF TypeInv, TypeOK
<1>3. /\ loop' = "ended" /\ queue' = <<>> /\ held' = <<>> /\ active' = <<>> /\ restore' = None
      /\ armed' = None /\ signal' = None /\ wakes' = 0 /\ index' = 1
      /\ UNCHANGED <<handles, turn, disobeyed, pass, stopping, until>>
  BY DEF Ends
<1>4. /\ queue' \in Seq(Job) /\ Len(queue') <= Capacity[env'] /\ held' \in Seq(Job)
      /\ Len(held') <= Capacity[env'] /\ active' \in Seq(Run)
      /\ index' \in 1 .. Len(active') + 1
  BY <1>1, <1>2, <1>3
<1>5. wakes' \in 0 .. MaxWakes /\ (posting' => wakes' < MaxWakes)
  BY <1>2, <1>3 DEF TypeInv, PlaceInv
<1>6. TypeOK'
  BY <1>3, <1>4, <1>5 DEF TypeInv, TypeOK
<1>7. PlaceInv'
  BY <1>3, <1>5 DEF PlaceInv
<1> QED  BY <1>6, <1>7 DEF TypeInv

(* The timer that is armed, or is refused, keeps the types.                   *)
LEMMA ArmTypes == TypeInv /\ (Arm \/ ArmFails) => TypeInv'
<1> SUFFICES ASSUME TypeInv, Arm \/ ArmFails PROVE TypeInv'
  OBVIOUS
<1>1. loop = "arm" /\ ~pumping /\ (ending = "none" => final /\ ~calls)
  BY DEF Arm, ArmFails, TypeInv, PlaceInv
<1>2. Nearest \in Time \cup {None}
  BY NearestIs DEF TypeInv, TypeOK
<1>3. CASE Arm
  <2>1. /\ armed' \in Time \cup {None} /\ signal' \in Time \cup {None}
        /\ loop' \in {"wait", Again}
        /\ UNCHANGED <<handles, wakes, queues, index, pass, end, restore>>
    <3>1. CASE Nearest \notin {None, 0} /\ armed' = Nearest
               /\ signal' = IF armed = Nearest THEN signal ELSE Nearest
      BY <1>2, <1>3, <3>1 DEF Arm, TypeInv, TypeOK
    <3>2. CASE CancelTimer
      BY <1>3, <3>2 DEF Arm, CancelTimer, TypeInv, TypeOK
    <3> QED  BY <1>3, <3>1, <3>2 DEF Arm
  <2>2. loop' \in {"wait", "drain", "close"} /\ (loop' = "drain" => ending = "none")
        /\ (loop' = "close" => ending # "none")
    BY <2>1 DEF Again
  <2>3. TypeOK'
    BY <2>1, <2>2 DEF TypeInv, TypeOK
  <2>4. PlaceInv'
    BY <1>1, <2>1, <2>2 DEF TypeInv, PlaceInv
  <2> QED  BY <2>3, <2>4 DEF TypeInv
<1>4. CASE ArmFails /\ ending = "none"
  <2>1. /\ active' \in Only(active, {i \in DOMAIN active : active[i].resume = None})
        /\ armed' = None /\ signal' \in {signal, None} /\ restore' = None
        /\ index' = 1 /\ loop' = "wait"
        /\ UNCHANGED <<handles, wakes, queue, held, turn, disobeyed, pass, end>>
    BY <1>4 DEF ArmFails
  <2>2. active' \in Seq(Run)
    <3>1. {i \in DOMAIN active : active[i].resume = None} \in SUBSET DOMAIN active
      OBVIOUS
    <3> QED  BY <2>1, <3>1, OnlyType DEF TypeInv, TypeOK
  <2>3. index' \in 1 .. Len(active') + 1
    BY <2>1, <2>2, LenProperties
  <2>4. TypeOK'
    BY <2>1, <2>2, <2>3 DEF TypeInv, TypeOK
  <2>5. PlaceInv'
    BY <1>1, <2>1 DEF TypeInv, PlaceInv
  <2> QED  BY <2>4, <2>5 DEF TypeInv
<1>5. CASE ArmFails /\ ending # "none"
  <2>1. Ends /\ ending' \in {"stopped", "died"}
    BY <1>5 DEF ArmFails, TypeInv, TypeOK
  <2> QED  BY <1>1, <2>1, EndTypes
<1> QED  BY <1>3, <1>4, <1>5

Wakes == TimerWakes \/ WakeTaken \/ ForeignMessage \/ QuitTaken

(* What ends the wait keeps the types,                                        *)
LEMMA WakeTypes == TypeInv /\ Wakes => TypeInv'
<1> SUFFICES ASSUME TypeInv, Wakes PROVE TypeInv'
  OBVIOUS
<1>1. /\ loop = "wait" /\ ~pumping
      /\ UNCHANGED <<handles, queues, index, pass, stopping, restore>>
  BY DEF Wakes, TimerWakes, WakeTaken, ForeignMessage, QuitTaken, TypeInv, PlaceInv
<1>2. MaxWakes \in Nat /\ wakes \in 0 .. MaxWakes /\ Longest \in Time
  BY ExecutorAssumption DEF TypeInv, TypeOK, Time
<1>3. wakes' \in 0 .. MaxWakes /\ wakes' <= wakes
  BY <1>2 DEF Wakes, TimerWakes, WakeTaken, ForeignMessage, QuitTaken
<1>4. armed' \in Time \cup {None} /\ signal' \in Time \cup {None}
  BY DEF Wakes, TimerWakes, WakeTaken, ForeignMessage, QuitTaken, TypeInv, TypeOK
<1>5. /\ ending' \in {"none", "stopped", "died"} /\ until' \in Time
      /\ loop' \in {"drain", "close"} /\ (loop' = "drain" => ending' = "none")
      /\ (loop' = "close" => ending' # "none")
  <2>1. ending \in {"none", "stopped", "died"} /\ until \in Time
    BY DEF TypeInv, TypeOK
  <2>2. CASE QuitTaken
    BY <1>2, <2>1, <2>2 DEF QuitTaken
  <2>3. CASE TimerWakes \/ WakeTaken \/ ForeignMessage
    <3>1. loop' = Again /\ UNCHANGED <<ending, until>>
      BY <2>3 DEF TimerWakes, WakeTaken, ForeignMessage
    <3> QED  BY <2>1, <3>1 DEF Again
  <2> QED  BY <2>2, <2>3 DEF Wakes
<1>6. TypeOK'
  BY <1>1, <1>3, <1>4, <1>5 DEF TypeInv, TypeOK
<1>7. posting' => wakes' < MaxWakes
  BY <1>1, <1>2, <1>3 DEF TypeInv, PlaceInv
<1>8. PlaceInv'
  BY <1>1, <1>5, <1>7 DEF PlaceInv
<1> QED  BY <1>6, <1>8 DEF TypeInv

(* and so does what ends the thread.                                          *)
LEMMA CloseTypes == TypeInv /\ (WaitFails \/ Close) => TypeInv'
<1> SUFFICES ASSUME TypeInv, WaitFails \/ Close PROVE TypeInv'
  OBVIOUS
<1>1. ~pumping /\ (loop = "close" => ending \in {"stopped", "died"})
  BY DEF WaitFails, Close, TypeInv, PlaceInv, TypeOK
<1>2. CASE WaitFails \/ (Close /\ Ends)
  <2>1. Ends /\ ending' \in {"stopped", "died"}
    BY <1>1, <1>2 DEF WaitFails, Close, Ends
  <2> QED  BY <1>1, <2>1, EndTypes
<1>3. CASE Close /\ ~Ends
  <2>1. /\ loop = "close" /\ restore # None /\ loop' = "arm"
        /\ restore' = [restore EXCEPT !.at = 1]
        /\ UNCHANGED <<handles, wakes, queues, index, pass, end, timer>>
    BY <1>3 DEF Close
  <2>2. restore' \in Restore \cup {None}
    <3>1. 1 \in Time /\ restore \in Restore
      BY <2>1, ExecutorAssumption DEF Time, TypeInv, TypeOK
    <3> QED  BY <2>1, <3>1 DEF Restore
  <2>3. TypeOK'
    BY <2>1, <2>2 DEF TypeInv, TypeOK
  <2>4. PlaceInv'
    BY <1>1, <2>1 DEF TypeInv, PlaceInv
  <2> QED  BY <2>3, <2>4 DEF TypeInv
<1> QED  BY <1>2, <1>3

(* A tick keeps the order of deadlines.                                       *)
LEMMA SoonerIs ==
    ASSUME NEW at \in Time \cup {None}
    PROVE  /\ Sooner(at) \in Time \cup {None}
           /\ Sooner(at) = None <=> at = None
           /\ at \in Time => Sooner(at) \in Time /\ Sooner(at) <= at
           /\ \A later \in Time : at \in Time /\ at <= later => Sooner(at) <= Sooner(later)
BY ExecutorAssumption DEF Sooner, Time

(* A tick changes nothing of a run but its deadline.                          *)
LEMMA TickedRuns ==
    TypeOK /\ Tick =>
        /\ active' \in Seq(Run) /\ Len(active') = Len(active) /\ DOMAIN active' = DOMAIN active
        /\ \A i \in DOMAIN active :
              /\ active'[i].resume = Sooner(active[i].resume)
              /\ active'[i].kind = active[i].kind /\ active'[i].steps = active[i].steps
              /\ active'[i].live = active[i].live /\ active'[i].attempt = active[i].attempt
<1> SUFFICES ASSUME TypeOK, Tick
    PROVE /\ active' \in Seq(Run) /\ Len(active') = Len(active) /\ DOMAIN active' = DOMAIN active
          /\ \A i \in DOMAIN active :
                /\ active'[i].resume = Sooner(active[i].resume)
                /\ active'[i].kind = active[i].kind /\ active'[i].steps = active[i].steps
                /\ active'[i].live = active[i].live /\ active'[i].attempt = active[i].attempt
  OBVIOUS
<1>1. active \in Seq(Run) /\ \A i \in DOMAIN active : active[i] \in Run
  BY LenProperties, ElementOfSeq DEF TypeOK
<1>2. active' = [i \in DOMAIN active |-> [active[i] EXCEPT !.resume = Sooner(@)]]
  BY DEF Tick
<1>3. \A i \in DOMAIN active :
         /\ active'[i] \in Run
         /\ active'[i].resume = Sooner(active[i].resume)
         /\ active'[i].kind = active[i].kind /\ active'[i].steps = active[i].steps
         /\ active'[i].live = active[i].live /\ active'[i].attempt = active[i].attempt
  <2> TAKE i \in DOMAIN active
  <2>1. active[i] \in Run /\ active'[i] = [active[i] EXCEPT !.resume = Sooner(active[i].resume)]
    BY <1>1, <1>2
  <2>2. Sooner(active[i].resume) \in Time \cup {None}
    BY <2>1, SoonerIs DEF Run
  <2> QED  BY <2>1, <2>2 DEF Run
<1>4. DOMAIN active' = DOMAIN active /\ active' = [i \in DOMAIN active |-> active'[i]]
  BY <1>2
<1> QED  BY <1>1, <1>3, <1>4, EachPlace

(* A tick keeps the types.                                                    *)
LEMMA TickTypes == TypeInv /\ Tick => TypeInv'
<1> SUFFICES ASSUME TypeInv, Tick PROVE TypeInv'
  OBVIOUS
<1>1. /\ restore' = IF restore = None THEN None ELSE [restore EXCEPT !.at = Sooner(@)]
      /\ until' = Sooner(until) /\ armed' = Sooner(armed) /\ signal' = Sooner(signal)
      /\ UNCHANGED <<handles, wakes, queue, held, turn, disobeyed, place, stopping, ending>>
  BY DEF Tick
<1>2. until' \in Time /\ armed' \in Time \cup {None} /\ signal' \in Time \cup {None}
  BY <1>1, SoonerIs DEF TypeInv, TypeOK
<1>3. restore' \in Restore \cup {None}
  <2>1. CASE restore = None
    BY <1>1, <2>1
  <2>2. CASE restore \in Restore /\ restore # None
    <3>1. Sooner(restore.at) \in Time /\ restore' = [restore EXCEPT !.at = Sooner(restore.at)]
      BY <1>1, <2>2, SoonerIs DEF Restore
    <3> QED  BY <2>2, <3>1 DEF Restore
  <2> QED  BY <2>1, <2>2 DEF TypeInv, TypeOK
<1>4. active' \in Seq(Run) /\ index' \in 1 .. Len(active') + 1
  BY <1>1, TickedRuns DEF TypeInv, TypeOK
<1>5. TypeOK'
  BY <1>1, <1>2, <1>3, <1>4 DEF TypeInv, TypeOK
<1>6. PlaceInv'
  BY <1>1 DEF TypeInv, PlaceInv
<1> QED  BY <1>5, <1>6 DEF TypeInv

(* Each step keeps the types.                                                 *)
LEMMA TypeStep == TypeInv /\ [Next]_vars => TypeInv'
<1> SUFFICES ASSUME TypeInv, [Next]_vars PROVE TypeInv'
  OBVIOUS
<1>1. CASE Submit \/ Cancel \/ Stop \/ PostWake
  BY <1>1, HandleTypes
<1>2. CASE TakeJob
  BY <1>2, TakeTypes
<1>3. CASE DrainEnds \/ StopSeen \/ CallReturns
  BY <1>3, DrainTypes
<1>4. CASE Poll
  <2>1. CASE PollBegins
    BY <2>1, PollBeginTypes
  <2>2. CASE NotDue \/ RunGoesOn
    BY <1>4, <2>2, AdvanceTypes DEF Poll
  <2>3. CASE HeldBegins
    BY <1>4, <2>3, HeldBeginTypes DEF Poll
  <2>4. CASE PollEnds
    BY <1>4, <2>4, PollEndTypes DEF Poll
  <2> QED  BY <1>4, <2>1, <2>2, <2>3, <2>4 DEF Poll, RunGoesOn
<1>5. CASE Arm \/ ArmFails
  BY <1>5, ArmTypes
<1>6. CASE Wakes
  BY <1>6, WakeTypes
<1>7. CASE WaitFails \/ Close
  BY <1>7, CloseTypes
<1>8. CASE Tick
  BY <1>8, TickTypes
<1>9. CASE UNCHANGED vars
  BY <1>9 DEF vars, TypeInv, TypeOK, PlaceInv
<1> QED
  BY <1>1, <1>2, <1>3, <1>4, <1>5, <1>6, <1>7, <1>8, <1>9 DEF Next, Thread, Wakes

(* TypeOK holds of the executor's loop, its handles and its thread's messages,*)
(* for every capacity, macro, environment and bound (run_loop, Runs::poll).   *)
THEOREM TypesKept == Spec => []TypeOK
<1>1. TypeInv => TypeOK
  BY DEF TypeInv
<1> QED  BY InitTypes, TypeStep, <1>1, PTL DEF Spec
-----------------------------------------------------------------------------
(* Where the work comes from.                                                 *)
Changes == /\ \/ queue' = queue \/ queue' = <<>> \/ Submit \/ TakeJob \/ CancelPending
           /\ \/ held' = held \/ held' = <<>> \/ TakeJob \/ CancelPending \/ PollBegins
              \/ HeldBegins
           /\ \/ active' = active \/ active' = <<>> \/ TakeJob \/ CancelPending \/ PollBegins
              \/ HeldBegins \/ RunGoesOn \/ ArmFails \/ Tick

(* Only these actions change the work.                                        *)
LEMMA WhatChanges == [Next]_vars => Changes
<1> SUFFICES ASSUME [Next]_vars PROVE Changes
  OBVIOUS
<1>1. CASE Submit \/ Cancel \/ Stop \/ PostWake \/ UNCHANGED vars
  BY <1>1 DEF Changes, Submit, Cancel, Stop, PostWake, vars
<1>2. CASE TakeJob \/ DrainEnds \/ StopSeen \/ CallReturns
  BY <1>2 DEF Changes, DrainEnds, StopSeen, CallReturns
<1>3. CASE Poll
  <2>1. CASE PollBegins
    BY <2>1 DEF Changes, PollBegins
  <2>2. CASE NotDue
    BY <2>2 DEF Changes, NotDue
  <2>3. CASE RunGoesOn
    <3>1. UNCHANGED <<queue, held>>
      BY <2>3 DEF RunGoesOn, RunEnds, RunCalls, RunDelays, PasteBehind, PasteTries
    <3> QED  BY <2>3, <3>1 DEF Changes
  <2>4. CASE HeldBegins
    BY <2>4 DEF Changes, HeldBegins
  <2>5. CASE PollEnds
    BY <2>5 DEF Changes, PollEnds
  <2> QED  BY <1>3, <2>1, <2>2, <2>3, <2>4, <2>5 DEF Poll, RunGoesOn
<1>4. CASE Arm \/ ArmFails \/ Close \/ WaitFails
  BY <1>4 DEF Changes, Arm, ArmFails, Close, WaitFails, Ends
<1>5. CASE Wakes \/ Tick
  BY <1>5 DEF Changes, Wakes, TimerWakes, WakeTaken, ForeignMessage, QuitTaken, Tick
<1> QED  BY <1>1, <1>2, <1>3, <1>4, <1>5 DEF Next, Thread, Wakes

Pool == Work \cup Fired

(* New work is work there was, or a fired job; it has no step more, and is    *)
(* cancelled by a cancel only.                                                *)
SameWork(new, old) ==
    /\ new.kind = old.kind
    /\ HasPaste(new.steps) => HasPaste(old.steps)
    /\ old.live => new.live \/ CancelPending

(* All work there is is in the pool.                                          *)
LEMMA PoolHas ==
    TypeOK => /\ \A i \in DOMAIN queue : queue[i] \in Pool /\ queue[i] \in Job
              /\ \A i \in DOMAIN held : held[i] \in Pool /\ held[i] \in Job
              /\ \A i \in DOMAIN active : active[i] \in Pool /\ active[i] \in Run
              /\ Fired \subseteq Pool /\ \A v \in Pool : SameWork(v, v)
BY LenProperties, ElementOfSeq DEF Pool, Work, TypeOK, SameWork

(* A job that begins leaves runs that were there, or are the job.             *)
LEMMA BegunFrom ==
    ASSUME TypeOK, NEW job \in Pool, job \in Job, Begin(job)
    PROVE  \A i \in DOMAIN active' : \E old \in Pool : SameWork(active'[i], old)
<1>1. CASE UNCHANGED active
  BY <1>1, PoolHas
<1>2. CASE active' = Append(active, [kind |-> job.kind, steps |-> job.steps, live |-> job.live,
                                     resume |-> 0, attempt |-> None])
  <2> DEFINE run == [kind |-> job.kind, steps |-> job.steps, live |-> job.live,
                     resume |-> 0, attempt |-> None]
  <2>1. run \in Run
    BY ExecutorAssumption DEF Job, Run, Time
  <2>2. SameWork(run, job)
    BY DEF SameWork
  <2> HIDE DEF run
  <2>3. /\ DOMAIN active' = 1 .. Len(active) + 1 /\ DOMAIN active = 1 .. Len(active)
        /\ \A i \in DOMAIN active : active'[i] = active[i]
        /\ active'[Len(active) + 1] = run /\ Len(active) \in Nat
    <3>1. active' = Append(active, run)
      BY <1>2 DEF run
    <3> QED  BY <2>1, <3>1, AppendTo DEF TypeOK
  <2> TAKE i \in DOMAIN active'
  <2>4. CASE i \in DOMAIN active
    BY <2>3, <2>4, PoolHas
  <2>5. CASE i = Len(active) + 1
    BY <2>2, <2>3, <2>5
  <2> QED  BY <2>3, <2>4, <2>5
<1> QED  BY <1>1, <1>2 DEF Begin

(* What a run that goes on leaves of the runs: each is one there was, but the *)
(* present one, which waits or is a step further.                             *)
LEMMA GoneOn ==
    ASSUME TypeInv, RunGoesOn
    PROVE  /\ Advancing /\ index \in DOMAIN active
           /\ \/ /\ DOMAIN active' = 1 .. Len(active) - 1
                 /\ \A j \in DOMAIN active' :
                       active'[j] = IF j < index THEN active[j] ELSE active[j + 1]
                 /\ RunEnds \/ calls' = TRUE
              \/ /\ DOMAIN active' = DOMAIN active
                 /\ \A j \in DOMAIN active : j # index => active'[j] = active[j]
                 /\ active'[index].kind = Present.kind
                 /\ active'[index].live = Present.live
                 /\ \/ /\ Present.steps # <<>> /\ active'[index].steps = Tail(Present.steps)
                       /\ active'[index].attempt = None
                       /\ calls' = TRUE \/ Head(Present.steps) # "paste"
                    \/ /\ active'[index].steps = Present.steps
                       /\ Present.steps # <<>> /\ Head(Present.steps) = "paste"
                       /\ calls' = TRUE \/ active'[index].attempt = Present.attempt
<1>1. Advancing
  BY DEF RunGoesOn, RunEnds, RunCalls, RunDelays, PasteBehind, PasteTries, AtStep, DueNow
<1>2. /\ index \in 1 .. Len(active) /\ Present \in Run /\ active \in Seq(Run)
      /\ Present.steps # <<>> => StepDone \in Run
      /\ DOMAIN active = 1 .. Len(active)
  BY <1>1, PresentIs, LenProperties DEF TypeInv, TypeOK
<1>3. CASE Ended /\ (RunEnds \/ calls' = TRUE)
  BY <1>1, <1>2, <1>3, RemoveOne DEF Ended
<1>4. ASSUME NEW run \in Run, active' = ReplaceAt(active, index, run)
      PROVE  /\ DOMAIN active' = DOMAIN active /\ active'[index] = run
             /\ \A j \in DOMAIN active : j # index => active'[j] = active[j]
  BY <1>2, <1>4 DEF ReplaceAt
<1>5. ASSUME NEW resume, Present.steps # <<>>, resume \in Time \cup {None},
             \/ active' = ReplaceAt(active, index, StepDone)
             \/ active' = ReplaceAt(active, index, [StepDone EXCEPT !.resume = resume])
      PROVE  /\ DOMAIN active' = DOMAIN active
             /\ \A j \in DOMAIN active : j # index => active'[j] = active[j]
             /\ active'[index].kind = Present.kind
             /\ active'[index].live = Present.live
             /\ active'[index].steps = Tail(Present.steps)
             /\ active'[index].attempt = None
  <2>1. /\ StepDone \in Run /\ [StepDone EXCEPT !.resume = resume] \in Run
        /\ StepDone.kind = Present.kind /\ StepDone.live = Present.live
        /\ StepDone.steps = Tail(Present.steps) /\ StepDone.attempt = None
    BY <1>2, <1>5 DEF StepDone, Run
  <2>2. PICK run \in {StepDone, [StepDone EXCEPT !.resume = resume]} :
           active' = ReplaceAt(active, index, run)
    BY <1>5
  <2>3. run \in Run /\ run.kind = Present.kind /\ run.live = Present.live
        /\ run.steps = Tail(Present.steps) /\ run.attempt = None
    BY <2>1, <2>2 DEF Run
  <2> QED  BY <1>4, <2>2, <2>3
<1>6. CASE RunEnds
  BY <1>3, <1>6 DEF RunEnds
<1>7. CASE RunCalls
  <2>1. Present.steps # <<>> /\ Head(Present.steps) # "paste" /\ calls' = TRUE
    BY <1>7 DEF RunCalls, AtStep, Call
  <2>2. CASE GoesOn
    BY <1>1, <1>2, <1>5, <2>1, <2>2 DEF GoesOn
  <2> QED  BY <1>3, <1>7, <2>1, <2>2 DEF RunCalls
<1>8. CASE RunDelays
  <2>1. Present.steps # <<>> /\ Head(Present.steps) # "paste"
    BY <1>8 DEF RunDelays, AtStep
  <2>2. PICK resume \in Time \cup {None} : Waits(StepDone, resume)
    BY <1>8 DEF RunDelays
  <2> QED  BY <1>1, <1>2, <1>5, <2>1, <2>2 DEF Waits
<1>9. ASSUME NEW run \in Run, NEW resume \in Time \cup {None}, Waits(run, resume),
             run.kind = Present.kind, run.live = Present.live, run.steps = Present.steps,
             calls' = TRUE \/ run.attempt = Present.attempt,
             Present.steps # <<>>, Head(Present.steps) = "paste"
      PROVE  /\ DOMAIN active' = DOMAIN active
             /\ \A j \in DOMAIN active : j # index => active'[j] = active[j]
             /\ active'[index].kind = Present.kind
             /\ active'[index].live = Present.live
             /\ active'[index].steps = Present.steps
             /\ calls' = TRUE \/ active'[index].attempt = Present.attempt
  <2>1. /\ [run EXCEPT !.resume = resume] \in Run
        /\ active' = ReplaceAt(active, index, [run EXCEPT !.resume = resume])
    BY <1>9 DEF Waits, Run
  <2>2. active'[index] = [run EXCEPT !.resume = resume]
    BY <1>4, <2>1
  <2> QED  BY <1>4, <1>9, <2>1, <2>2 DEF Run
<1>10. CASE PasteBehind
  <2>1. /\ Waits(Present, active[Min(Older)].resume)
        /\ active[Min(Older)].resume \in Time \cup {None}
        /\ Present.steps # <<>> /\ Head(Present.steps) = "paste"
    BY <1>1, <1>10, OlderIs DEF PasteBehind, AtStep, TypeInv
  <2> QED  BY <1>1, <1>2, <1>9, <2>1
<1>11. CASE PasteTries
  <2>1. Present.steps # <<>> /\ Head(Present.steps) = "paste" /\ calls' = TRUE
    BY <1>11 DEF PasteTries, AtStep
  <2>2. CASE PasteWaitsOn
    <3>1. PICK resume \in (Time \ {0}) \cup (IF Chained THEN 0 .. restore.at ELSE {}) :
             Waits([Present EXCEPT !.attempt = Tried + 1], resume)
      BY <2>2 DEF PasteWaitsOn
    <3>2. active' =
             ReplaceAt(active, index, [Present EXCEPT !.attempt = Tried + 1, !.resume = resume])
      BY <3>1, <1>2 DEF Waits, Run
    <3>3. \A e : ReplaceAt(active, index, e)[index] = e
      BY <1>2 DEF ReplaceAt
    <3>4. /\ active'[index] = [Present EXCEPT !.attempt = Tried + 1, !.resume = resume]
          /\ DOMAIN active' = DOMAIN active
          /\ \A j \in DOMAIN active : j # index => active'[j] = active[j]
      BY <1>2, <3>2, <3>3 DEF ReplaceAt
    <3> QED  BY <1>1, <1>2, <2>1, <3>4 DEF Run
  <2>3. CASE GoesOn
    BY <1>1, <1>2, <1>5, <2>1, <2>3, ExecutorAssumption DEF GoesOn
  <2>4. CASE Ended
    BY <1>3, <2>1, <2>4
  <2> QED  BY <1>11, <2>2, <2>3, <2>4 DEF PasteTries, PasteOver
<1> QED  BY <1>6, <1>7, <1>8, <1>10, <1>11 DEF RunGoesOn
From(seq) == \A i \in DOMAIN seq : \E old \in Pool : SameWork(seq[i], old)

(* A cancel keeps the work, cancelled.                                        *)
LEMMA CancelledFrom ==
    ASSUME NEW seq, \A i \in DOMAIN seq : seq[i] \in Pool /\ (seq[i] \in Job \/ seq[i] \in Run),
           CancelPending
    PROVE  From(Cancelled(seq))
<1> SUFFICES ASSUME NEW i \in DOMAIN seq PROVE SameWork(Cancelled(seq)[i], seq[i])
  BY DEF From, Cancelled
<1>1. Cancelled(seq)[i] = [seq[i] EXCEPT !.live = FALSE] /\ (seq[i] \in Job \/ seq[i] \in Run)
  BY DEF Cancelled
<1>2. /\ Cancelled(seq)[i].kind = seq[i].kind /\ Cancelled(seq)[i].steps = seq[i].steps
  BY <1>1 DEF Job, Run
<1> QED  BY <1>2 DEF SameWork

(* No step makes work of nothing.                                             *)
LEMMA WorkComes == TypeInv /\ [Next]_vars => \A new \in Work' : \E old \in Pool : SameWork(new, old)
<1> SUFFICES ASSUME TypeInv, [Next]_vars
             PROVE  \A new \in Work' : \E old \in Pool : SameWork(new, old)
  OBVIOUS
<1>1. Changes
  BY WhatChanges
<1>2. /\ TypeOK /\ queue \in Seq(Job) /\ held \in Seq(Job) /\ active \in Seq(Run)
      /\ From(queue) /\ From(held) /\ From(active) /\ From(<<>>)
  <2>1. DOMAIN <<>> = {}
    OBVIOUS
  <2>2. From(<<>>)
    BY <2>1 DEF From
  <2> QED  BY <2>2, PoolHas DEF TypeInv, TypeOK, From
<1>3. From(queue')
  <2>1. CASE Submit
    <3>1. PICK job \in Fired : queue' = Append(queue, job)
      BY <2>1 DEF Submit
    <3>2. /\ DOMAIN queue' = 1 .. Len(queue) + 1 /\ DOMAIN queue = 1 .. Len(queue)
          /\ \A i \in DOMAIN queue : queue'[i] = queue[i]
          /\ queue'[Len(queue) + 1] = job /\ Len(queue) \in Nat
      BY <1>2, <3>1, FiredType, AppendTo
    <3>3. SameWork(job, job) /\ job \in Pool
      BY <1>2, PoolHas
    <3> QED  BY <1>2, <3>2, <3>3 DEF From
  <2>2. CASE TakeJob
    BY <1>2, <2>2, TailOf DEF TakeJob, From
  <2>3. CASE CancelPending
    BY <1>2, <2>3, PoolHas, CancelledFrom DEF CancelPending
  <2> QED  BY <1>1, <1>2, <2>1, <2>2, <2>3 DEF Changes
<1>4. ASSUME TakeJob
      PROVE  /\ Head(queue) \in Job /\ Head(queue) \in Pool
             /\ held' = held \/ held' = Append(held, Head(queue))
             /\ active' = active \/ Begin(Head(queue))
  BY <1>2, <1>4, TailOf, PoolHas DEF TakeJob, Start
<1>5. From(held')
  <2>1. CASE TakeJob
    <3>1. CASE held' = Append(held, Head(queue))
      <4>1. /\ DOMAIN held' = 1 .. Len(held) + 1 /\ DOMAIN held = 1 .. Len(held)
            /\ \A i \in DOMAIN held : held'[i] = held[i]
            /\ held'[Len(held) + 1] = Head(queue) /\ Len(held) \in Nat
        BY <1>2, <1>4, <2>1, <3>1, AppendTo
      <4>2. SameWork(Head(queue), Head(queue)) /\ Head(queue) \in Pool
        BY <1>2, <1>4, <2>1, PoolHas
      <4> QED  BY <1>2, <4>1, <4>2 DEF From
    <3> QED  BY <1>2, <1>4, <2>1, <3>1
  <2>2. CASE CancelPending
    BY <1>2, <2>2, PoolHas, CancelledFrom DEF CancelPending
  <2>3. CASE PollBegins
    <3>1. \A i \in DOMAIN held' : \E j \in DOMAIN held : held'[i] = held[j]
      BY <1>2, <2>3, RetainedTypes DEF PollBegins
    <3> QED  BY <1>2, <3>1 DEF From
  <2>4. CASE HeldBegins
    BY <1>2, <2>4, TailOf DEF HeldBegins, From
  <2> QED  BY <1>1, <1>2, <2>1, <2>2, <2>3, <2>4 DEF Changes
<1>6. From(active')
  <2>1. CASE TakeJob
    BY <1>2, <1>4, <2>1, BegunFrom DEF From
  <2>2. CASE CancelPending
    BY <1>2, <2>2, PoolHas, CancelledFrom DEF CancelPending
  <2>3. CASE PollBegins
    <3>1. \A i \in DOMAIN active' : \E j \in DOMAIN active : active'[i] = active[j]
      BY <1>2, <2>3, RetainedTypes DEF PollBegins
    <3> QED  BY <1>2, <3>1 DEF From
  <2>4. CASE HeldBegins
    <3>1. Head(held) \in Job /\ Head(held) \in Pool /\ Begin(Head(held))
      BY <1>2, <2>4, TailOf, PoolHas DEF HeldBegins
    <3> QED  BY <1>2, <3>1, BegunFrom DEF From
  <2>5. CASE RunGoesOn
    <3>1. /\ DOMAIN active = 1 .. Len(active) /\ Len(active) \in Nat
          /\ Present = active[index] /\ index \in DOMAIN active
      BY <1>2, <2>5, GoneOn, LenProperties DEF Present
    <3>2. CASE /\ DOMAIN active' = 1 .. Len(active) - 1
               /\ \A j \in DOMAIN active' :
                     active'[j] = IF j < index THEN active[j] ELSE active[j + 1]
      <4> SUFFICES ASSUME NEW i \in DOMAIN active'
                   PROVE  \E old \in Pool : SameWork(active'[i], old)
        BY DEF From
      <4>1. i \in DOMAIN active /\ i + 1 \in DOMAIN active
        BY <3>1, <3>2
      <4>2. active'[i] = active[i] \/ active'[i] = active[i + 1]
        BY <3>2
      <4> QED  BY <1>2, <4>1, <4>2 DEF From
    <3>3. CASE /\ DOMAIN active' = DOMAIN active
               /\ \A j \in DOMAIN active : j # index => active'[j] = active[j]
               /\ active'[index].kind = Present.kind
               /\ active'[index].live = Present.live
               /\ \/ Present.steps # <<>> /\ active'[index].steps = Tail(Present.steps)
                  \/ active'[index].steps = Present.steps
      <4>1. Present \in Run /\ Present \in Pool
        BY <1>2, <3>1, PoolHas
      <4>2. HasPaste(active'[index].steps) => HasPaste(Present.steps)
        BY <3>3, <4>1, StepsAre DEF Run
      <4>3. SameWork(active'[index], Present)
        BY <3>3, <4>2 DEF SameWork
      <4> QED  BY <1>2, <3>3, <4>1, <4>3 DEF From
    <3> QED  BY <2>5, <3>2, <3>3, GoneOn
  <2>6. CASE ArmFails
    <3>1. \/ active' = <<>>
          \/ active' \in Only(active, {i \in DOMAIN active : active[i].resume = None})
      BY <2>6 DEF ArmFails, Ends
    <3>2. {i \in DOMAIN active : active[i].resume = None} \in SUBSET DOMAIN active
      OBVIOUS
    <3>3. \/ active' = <<>>
          \/ \A i \in DOMAIN active' : \E j \in DOMAIN active : active'[i] = active[j]
      BY <1>2, <3>1, <3>2, OnlyType
    <3> QED  BY <1>2, <3>3 DEF From
  <2>7. CASE Tick
    <3>1. \A i \in DOMAIN active' : i \in DOMAIN active /\ SameWork(active'[i], active[i])
      BY <1>2, <2>7, TickedRuns DEF SameWork
    <3> QED  BY <1>2, <3>1, PoolHas DEF From
  <2> QED  BY <1>1, <1>2, <2>1, <2>2, <2>3, <2>4, <2>5, <2>6, <2>7 DEF Changes
<1> QED  BY <1>3, <1>5, <1>6 DEF Work, From
-----------------------------------------------------------------------------
(* Only a paste holds jobs back.                                              *)
LEMMA EnvKept == [Next]_vars => env' = env
<1> SUFFICES ASSUME [Next]_vars PROVE env' = env
  OBVIOUS
<1>1. CASE Submit \/ Cancel \/ Stop \/ PostWake \/ UNCHANGED vars
  BY <1>1 DEF Submit, Cancel, Stop, CancelPending, PostWake, vars
<1>2. CASE Thread
  <2>1. CASE Poll
    BY <2>1 DEF Poll, PollBegins, NotDue, RunEnds, RunCalls, RunDelays, PasteBehind, PasteTries,
                HeldBegins, PollEnds
  <2> QED
    BY <1>2, <2>1
    DEF Thread, CallReturns, TakeJob, DrainEnds, StopSeen, Arm, ArmFails, TimerWakes, WakeTaken,
        Close, Ends
<1>3. CASE ForeignMessage \/ QuitTaken \/ WaitFails \/ Tick
  BY <1>3 DEF ForeignMessage, QuitTaken, WaitFails, Tick, Ends
<1> QED  BY <1>1, <1>2, <1>3 DEF Next

(* A run waits between its tries only where Pastes are fired.                 *)
LEMMA PasteHolds == TypeOK /\ PasteInv /\ AttemptWaits => "paste" \in env
<1> SUFFICES ASSUME TypeOK, PasteInv, AttemptWaits PROVE "paste" \in env
  OBVIOUS
<1>1. PICK i \in DOMAIN active : active[i].attempt # None
  BY DEF AttemptWaits
<1>2. active[i] \in Run /\ active[i] \in Work
  BY LenProperties, ElementOfSeq DEF TypeOK, Work
<1>3. HasPaste(active[i].steps)
  BY <1>1, <1>2, StepsAre DEF PasteInv, Run
<1> QED  BY <1>2, <1>3 DEF PasteInv

(* The run that begins waits for nothing.                                     *)
LEMMA BegunRuns ==
    ASSUME TypeOK, NEW job \in Job, Begin(job)
    PROVE  /\ \A i \in DOMAIN active : i \in DOMAIN active' /\ active'[i] = active[i]
           /\ \A i \in DOMAIN active' \ DOMAIN active :
                 active'[i].attempt = None /\ active'[i].live = job.live
<1>1. CASE UNCHANGED active
  BY <1>1
<1>2. CASE active' = Append(active, [kind |-> job.kind, steps |-> job.steps, live |-> job.live,
                                     resume |-> 0, attempt |-> None])
  <2> DEFINE run == [kind |-> job.kind, steps |-> job.steps, live |-> job.live,
                     resume |-> 0, attempt |-> None]
  <2>1. run \in Run /\ run.attempt = None /\ run.live = job.live
    BY ExecutorAssumption DEF Job, Run, Time
  <2> HIDE DEF run
  <2>2. /\ DOMAIN active' = 1 .. Len(active) + 1 /\ DOMAIN active = 1 .. Len(active)
        /\ \A i \in DOMAIN active : active'[i] = active[i]
        /\ active'[Len(active) + 1] = run /\ Len(active) \in Nat
    <3>1. active' = Append(active, run)
      BY <1>2 DEF run
    <3> QED  BY <2>1, <3>1, AppendTo DEF TypeOK
  <2> QED  BY <2>1, <2>2
<1> QED  BY <1>1, <1>2 DEF Begin

AtPaste(run) == run.attempt # None => run.steps # <<>> /\ Head(run.steps) = "paste"

(* A run that waits between its tries is at a Paste step.                     *)
LEMMA PasteSteps ==
    TypeInv /\ PasteInv /\ [Next]_vars => \A i \in DOMAIN active' : AtPaste(active'[i])
<1> SUFFICES ASSUME TypeInv, PasteInv, [Next]_vars
             PROVE  \A i \in DOMAIN active' : AtPaste(active'[i])
  OBVIOUS
<1>1. Changes
  BY WhatChanges
<1>2. /\ TypeOK /\ active \in Seq(Run) /\ \A i \in DOMAIN active : AtPaste(active[i])
      /\ DOMAIN active = 1 .. Len(active) /\ Len(active) \in Nat
      /\ \A i \in DOMAIN active : active[i] \in Run
  BY LenProperties, ElementOfSeq DEF TypeInv, TypeOK, PasteInv, AtPaste
<1>3. ASSUME NEW job \in Job, Begin(job) PROVE \A i \in DOMAIN active' : AtPaste(active'[i])
  BY <1>2, <1>3, BegunRuns DEF AtPaste
<1>4. CASE TakeJob
  <2>1. active' = active \/ Begin(Head(queue))
    BY <1>4 DEF TakeJob, Start
  <2>2. Head(queue) \in Job
    BY <1>2, <1>4, TailOf DEF TakeJob, TypeOK
  <2> QED  BY <1>2, <1>3, <2>1, <2>2
<1>5. CASE HeldBegins
  <2>1. Head(held) \in Job /\ Begin(Head(held))
    BY <1>2, <1>5, TailOf DEF HeldBegins, TypeOK
  <2> QED  BY <1>3, <2>1
<1>6. CASE CancelPending
  BY <1>2, <1>6 DEF CancelPending, Cancelled, AtPaste, Run
<1>7. CASE PollBegins \/ ArmFails
  <2>1. CASE PollBegins
    BY <1>2, <2>1, RetainedTypes DEF PollBegins
  <2>2. CASE ArmFails
    <3>1. \/ active' = <<>>
          \/ active' \in Only(active, {i \in DOMAIN active : active[i].resume = None})
      BY <2>2 DEF ArmFails, Ends
    <3>2. {i \in DOMAIN active : active[i].resume = None} \in SUBSET DOMAIN active
      OBVIOUS
    <3>3. \/ active' = <<>>
          \/ \A i \in DOMAIN active' : \E j \in DOMAIN active : active'[i] = active[j]
      BY <1>2, <3>1, <3>2, OnlyType
    <3> QED  BY <1>2, <3>3
  <2> QED  BY <1>7, <2>1, <2>2
<1>8. CASE RunGoesOn
  <2>1. CASE /\ DOMAIN active' = 1 .. Len(active) - 1
             /\ \A j \in DOMAIN active' :
                   active'[j] = IF j < index THEN active[j] ELSE active[j + 1]
    BY <1>2, <2>1
  <2>2. CASE /\ DOMAIN active' = DOMAIN active
             /\ \A j \in DOMAIN active : j # index => active'[j] = active[j]
             /\ \/ active'[index].attempt = None
                \/ /\ active'[index].steps = Present.steps
                   /\ Present.steps # <<>> /\ Head(Present.steps) = "paste"
    BY <1>2, <2>2 DEF AtPaste
  <2> QED  BY <1>8, <2>1, <2>2, GoneOn
<1>9. CASE Tick
  BY <1>2, <1>9, TickedRuns DEF AtPaste
<1> QED  BY <1>1, <1>2, <1>4, <1>5, <1>6, <1>7, <1>8, <1>9 DEF Changes

(* PasteInv is kept,                                                          *)
LEMMA PasteKept == TypeInv /\ PasteInv /\ [Next]_vars => PasteInv'
<1> SUFFICES ASSUME TypeInv, PasteInv, [Next]_vars PROVE PasteInv'
  OBVIOUS
<1>1. env' = env
  BY EnvKept
<1>2. \A old \in Pool : /\ HasPaste(old.steps) => "paste" \in env
                        /\ old.kind = "action" => "launch" \in env
  BY FiredType DEF Pool, PasteInv
<1>3. \A new \in Work' : /\ HasPaste(new.steps) => "paste" \in env
                         /\ new.kind = "action" => "launch" \in env
  BY <1>2, WorkComes DEF SameWork
<1>4. \A i \in DOMAIN active' : AtPaste(active'[i])
  BY PasteSteps
<1>5. ASSUME held' # <<>> PROVE "paste" \in env
  <2>1. Changes
    BY WhatChanges
  <2>2. CASE held # <<>>
    BY <2>2 DEF PasteInv
  <2>3. CASE held = <<>> /\ TakeJob
    <3>1. AttemptWaits
      BY <1>5, <2>3 DEF TakeJob, Start, HoldsBack
    <3> QED  BY <3>1, PasteHolds DEF TypeInv
  <2>4. CASE held = <<>> /\ CancelPending
    <3>1. held' = [i \in DOMAIN <<>> |-> [held[i] EXCEPT !.live = FALSE]]
      BY <2>4 DEF CancelPending, Cancelled
    <3>2. held' = <<>>
      <4>1. Len(held') = 0 /\ held' \in Seq(Job)
        BY <2>4, CancelledType, EmptySeq DEF CancelPending, TypeInv
      <4> QED  BY <4>1, EmptySeq
    <3> QED  BY <1>5, <3>2
  <2>5. CASE held = <<>> /\ PollBegins
    <3>1. held' \in Seq(Job) /\ Len(held') <= 0
      BY <2>5, RetainedTypes, EmptySeq DEF PollBegins, TypeInv, TypeOK
    <3>2. held' = <<>>
      BY <3>1, EmptySeq, LenProperties
    <3> QED  BY <1>5, <3>2
  <2> QED  BY <1>5, <2>1, <2>2, <2>3, <2>4, <2>5 DEF Changes, HeldBegins
<1> QED  BY <1>1, <1>3, <1>4, <1>5 DEF PasteInv, AtPaste

(* and holds at first.                                                        *)
LEMMA PasteFirst == Init => PasteInv
<1> SUFFICES ASSUME Init PROVE PasteInv
  OBVIOUS
<1>1. queue = <<>> /\ held = <<>> /\ active = <<>> /\ DOMAIN <<>> = {}
  BY DEF Init
<1>2. Work = {} /\ DOMAIN active = {}
  BY <1>1 DEF Work
<1> QED  BY <1>1, <1>2 DEF PasteInv

(* The Delay timer can be set wherever jobs are held back.                    *)
TimerApart == \A e \in Environments : ~({"timer", "paste"} \subseteq e)

(* HeldInv is kept,                                                           *)
LEMMA HeldKept == TimerApart /\ TypeInv /\ PasteInv /\ HeldInv /\ [Next]_vars => HeldInv'
<1> SUFFICES ASSUME TimerApart, TypeInv, PasteInv, HeldInv, [Next]_vars PROVE HeldInv'
  OBVIOUS
<1>1. Changes /\ env' = env /\ env \in Environments
  BY WhatChanges, EnvKept DEF TypeInv, TypeOK
<1>2. /\ TypeOK /\ held \in Seq(Job) /\ active \in Seq(Run)
      /\ DOMAIN held = 1 .. Len(held) /\ Len(held) \in Nat
      /\ \A i \in DOMAIN held : held[i] \in Job
      /\ \A i \in DOMAIN active : active[i] \in Run
  BY LenProperties, ElementOfSeq DEF TypeInv, TypeOK
<1>3. Waiting' => held' = <<>> \/ AttemptWaits'
  <2> SUFFICES ASSUME Waiting' PROVE held' = <<>> \/ AttemptWaits'
    OBVIOUS
  <2>1. CASE Submit \/ PostWake \/ UNCHANGED vars
    BY <2>1 DEF Submit, PostWake, vars, HeldInv, Waiting, AttemptWaits
  <2>2. CASE Cancel \/ Stop
    <3>1. CancelPending /\ Waiting
      BY <2>2 DEF Cancel, Stop, CancelPending, Waiting
    <3>2. held = <<>> => held' = <<>>
      <4>1. held = <<>> => Len(held') = 0 /\ held' \in Seq(Job)
        BY <3>1, <1>2, CancelledType, EmptySeq DEF CancelPending
      <4> QED  BY <4>1, EmptySeq
    <3>3. ASSUME AttemptWaits PROVE AttemptWaits'
      <4>1. PICK i \in DOMAIN active : active[i].attempt # None
        BY <3>3 DEF AttemptWaits
      <4>2. i \in DOMAIN active' /\ active'[i].attempt # None
        BY <1>2, <3>1, <4>1 DEF CancelPending, Cancelled, Run
      <4> QED  BY <4>2 DEF AttemptWaits
    <3> QED  BY <3>1, <3>2, <3>3 DEF HeldInv
  <2>3. CASE TakeJob \/ DrainEnds \/ StopSeen \/ Close \/ WaitFails
    BY <2>3 DEF TakeJob, DrainEnds, StopSeen, Close, WaitFails, Ends, Waiting, TypeInv, PlaceInv
  <2>4. CASE CallReturns
    BY <2>4 DEF CallReturns, Waiting, HeldInv, AttemptWaits
  <2>5. CASE Poll
    <3>1. PollEnds
      BY <2>5 DEF Poll, PollBegins, NotDue, RunEnds, RunCalls, RunDelays, PasteBehind, PasteTries,
                  HeldBegins, Waiting, AtStep, DueNow, Advancing
    <3> QED  BY <3>1 DEF PollEnds, AttemptWaits
  <2>6. CASE Arm
    BY <2>6 DEF Arm, Waiting, HeldInv, AttemptWaits
  <2>7. CASE ArmFails
    <3>1. "timer" \in env /\ (held' = held \/ held' = <<>>)
      BY <2>7 DEF ArmFails, Ends
    <3>2. "paste" \notin env
      BY <1>1, <3>1 DEF TimerApart
    <3> QED  BY <3>1, <3>2 DEF PasteInv
  <2>8. CASE Wakes
    <3>1. Waiting /\ UNCHANGED <<held, active>>
      BY <2>8 DEF Wakes, TimerWakes, WakeTaken, ForeignMessage, QuitTaken, Waiting
    <3> QED  BY <3>1 DEF HeldInv, AttemptWaits
  <2>9. CASE Tick
    <3>1. Waiting /\ UNCHANGED held
      BY <2>9 DEF Tick, Waiting
    <3> QED  BY <1>2, <2>9, <3>1, TickedRuns DEF HeldInv, AttemptWaits
  <2> QED
    BY <2>1, <2>2, <2>3, <2>4, <2>5, <2>6, <2>7, <2>8, <2>9 DEF Next, Thread, Wakes
<1>4. /\ \A i, j \in DOMAIN held' : i < j /\ ~held'[j].live => ~held'[i].live
      /\ stopping' => \A i \in DOMAIN held' : ~held'[i].live
  <2>0. stopping' = stopping \/ (CancelPending /\ stopping')
    <3>1. CASE Poll
      BY <3>1 DEF Poll, PollBegins, NotDue, RunEnds, RunCalls, RunDelays, PasteBehind, PasteTries,
                  HeldBegins, PollEnds
    <3> QED
      BY <3>1 DEF Next, Thread, Submit, Cancel, Stop, CancelPending, PostWake, CallReturns, TakeJob,
                  DrainEnds, StopSeen, Arm, ArmFails, TimerWakes, WakeTaken, Close, Ends,
                  ForeignMessage, QuitTaken, WaitFails, Tick, vars
  <2>1. CASE CancelPending
    <3>1. \A i \in DOMAIN held' : held'[i].live = FALSE
      BY <1>2, <2>1 DEF CancelPending, Cancelled, Job
    <3> QED  BY <3>1
  <2>2. CASE ~CancelPending /\ held' = held
    BY <2>0, <2>2 DEF HeldInv
  <2>3. CASE ~CancelPending /\ held' = <<>>
    BY <2>3
  <2>4. CASE ~CancelPending /\ TakeJob /\ held' # held
    <3>1. held' = Append(held, Head(queue)) /\ Live(Head(queue)) /\ Head(queue) \in Job
      BY <1>2, <2>4, TailOf DEF TakeJob, Start, Refused, TypeOK
    <3>2. /\ DOMAIN held' = 1 .. Len(held) + 1
          /\ \A i \in DOMAIN held : held'[i] = held[i]
          /\ held'[Len(held) + 1] = Head(queue) /\ Len(held) \in Nat
      BY <1>2, <3>1, AppendTo
    <3>3. held'[Len(held) + 1].live /\ ~stopping'
      BY <2>0, <2>4, <3>1, <3>2 DEF Live
    <3> QED  BY <1>2, <3>2, <3>3 DEF HeldInv
  <2>5. CASE ~CancelPending /\ PollBegins
    BY <1>2, <2>0, <2>5, RetainedTypes DEF PollBegins, Live
  <2>6. CASE ~CancelPending /\ HeldBegins
    <3>1. /\ \A i \in DOMAIN held' : i + 1 \in DOMAIN held /\ held'[i] = held[i + 1]
          /\ DOMAIN held' \subseteq Nat
      BY <1>2, <2>6, TailOf DEF HeldBegins
    <3> QED  BY <1>2, <2>0, <2>6, <3>1 DEF HeldInv
  <2> QED  BY <1>1, <2>1, <2>2, <2>3, <2>4, <2>5, <2>6 DEF Changes
<1> QED  BY <1>3, <1>4 DEF HeldInv

(* and holds at first.                                                        *)
LEMMA HeldFirst == Init => HeldInv
<1>1. DOMAIN <<>> = {}
  OBVIOUS
<1> QED  BY <1>1 DEF Init, HeldInv
-----------------------------------------------------------------------------
(* The line of the held jobs and the queue.                                   *)
LEMMA JoinIs ==
    ASSUME NEW S, NEW s \in Seq(S), NEW t \in Seq(S)
    PROVE  /\ s \o t \in Seq(S) /\ Len(s \o t) = Len(s) + Len(t)
           /\ Len(s) \in Nat /\ Len(t) \in Nat
           /\ DOMAIN (s \o t) = 1 .. Len(s) + Len(t)
           /\ DOMAIN s = 1 .. Len(s) /\ DOMAIN t = 1 .. Len(t)
           /\ \A i \in 1 .. Len(s) : (s \o t)[i] = s[i]
           /\ \A i \in 1 .. Len(t) : (s \o t)[Len(s) + i] = t[i]
<1>1. /\ s \o t \in Seq(S) /\ Len(s \o t) = Len(s) + Len(t)
      /\ \A i \in 1 .. Len(s) + Len(t) : (s \o t)[i] = IF i <= Len(s) THEN s[i] ELSE t[i - Len(s)]
  BY ConcatProperties
<1>2. /\ Len(s) \in Nat /\ Len(t) \in Nat /\ DOMAIN s = 1 .. Len(s) /\ DOMAIN t = 1 .. Len(t)
      /\ DOMAIN (s \o t) = 1 .. Len(s) + Len(t)
  BY <1>1, LenProperties
<1>3. ASSUME NEW i \in 1 .. Len(t) PROVE (s \o t)[Len(s) + i] = t[i]
  <2>1. Len(s) + i \in 1 .. Len(s) + Len(t) /\ ~(Len(s) + i <= Len(s))
        /\ (Len(s) + i) - Len(s) = i
    BY <1>2
  <2> QED  BY <1>1, <2>1
<1>4. ASSUME NEW i \in 1 .. Len(s) PROVE (s \o t)[i] = s[i]
  BY <1>1, <1>2
<1> QED  BY <1>1, <1>2, <1>3, <1>4

(* A part of a sequence.                                                      *)
LEMMA PartIs ==
    ASSUME NEW S, NEW s \in Seq(S), NEW m \in Nat \ {0}, NEW n \in 0 .. Len(s), m <= n + 1
    PROVE  /\ SubSeq(s, m, n) \in Seq(S) /\ Len(SubSeq(s, m, n)) = n - m + 1
           /\ \A i \in 1 .. n - m + 1 : SubSeq(s, m, n)[i] = s[m + i - 1]
<1>1. Len(s) \in Nat /\ \A i \in 1 .. Len(s) : s[i] \in S
  BY LenProperties, ElementOfSeq
<1>2. m \in Int /\ n \in Int /\ \A i \in m .. n : s[i] \in S
  BY <1>1
<1>3. /\ SubSeq(s, m, n) \in Seq(S)
      /\ Len(SubSeq(s, m, n)) = IF m <= n THEN n - m + 1 ELSE 0
      /\ \A i \in 1 .. n - m + 1 : SubSeq(s, m, n)[i] = s[m + i - 1]
  BY <1>2, SubSeqProperties
<1>4. m <= n \/ n - m + 1 = 0
  BY <1>1
<1> QED  BY <1>3, <1>4

(* The end of the held jobs, then the queue, is the end of the line.          *)
LEMMA JoinEnd ==
    ASSUME NEW S, NEW s \in Seq(S), NEW t \in Seq(S), NEW k \in 0 .. Len(s)
    PROVE  SubSeq(s, k + 1, Len(s)) \o t = SubSeq(s \o t, k + 1, Len(s \o t))
<1> DEFINE part == SubSeq(s, k + 1, Len(s))
           all == s \o t
           rest == SubSeq(all, k + 1, Len(all))
<1>1. /\ all \in Seq(S) /\ Len(all) = Len(s) + Len(t) /\ Len(s) \in Nat /\ Len(t) \in Nat
      /\ \A i \in 1 .. Len(s) : all[i] = s[i]
      /\ \A i \in 1 .. Len(t) : all[Len(s) + i] = t[i]
  BY JoinIs
<1>2. /\ part \in Seq(S) /\ Len(part) = Len(s) - k
      /\ \A i \in 1 .. Len(s) - k : part[i] = s[k + i]
  <2>1. /\ k + 1 \in Nat \ {0} /\ Len(s) \in 0 .. Len(s) /\ k + 1 <= Len(s) + 1
        /\ Len(s) - (k + 1) + 1 = Len(s) - k /\ \A i \in 1 .. Len(s) - k : (k + 1) + i - 1 = k + i
    BY <1>1
  <2>2. /\ part \in Seq(S) /\ Len(part) = Len(s) - (k + 1) + 1
        /\ \A i \in 1 .. Len(s) - (k + 1) + 1 : part[i] = s[(k + 1) + i - 1]
    <3> DEFINE m == k + 1
               n == Len(s)
    <3>1. m \in Nat \ {0} /\ n \in 0 .. Len(s) /\ m <= n + 1
      BY <2>1
    <3> HIDE DEF m, n
    <3>2. /\ SubSeq(s, m, n) \in Seq(S) /\ Len(SubSeq(s, m, n)) = n - m + 1
          /\ \A i \in 1 .. n - m + 1 : SubSeq(s, m, n)[i] = s[m + i - 1]
      BY <3>1, PartIs
    <3> QED  BY <3>2 DEF m, n
  <2> HIDE DEF part
  <2> QED  BY <2>1, <2>2
<1>3. /\ rest \in Seq(S) /\ Len(rest) = Len(s) + Len(t) - k
      /\ \A i \in 1 .. Len(s) + Len(t) - k : rest[i] = all[k + i]
  <2> HIDE DEF all
  <2>1. /\ k + 1 \in Nat \ {0} /\ Len(all) \in 0 .. Len(all) /\ k + 1 <= Len(all) + 1
        /\ Len(all) - (k + 1) + 1 = Len(s) + Len(t) - k
        /\ \A i \in 1 .. Len(s) + Len(t) - k : (k + 1) + i - 1 = k + i
    BY <1>1
  <2>2. /\ rest \in Seq(S) /\ Len(rest) = Len(all) - (k + 1) + 1
        /\ \A i \in 1 .. Len(all) - (k + 1) + 1 : rest[i] = all[(k + 1) + i - 1]
    BY <1>1, <2>1, PartIs
  <2> HIDE DEF rest
  <2> QED  BY <2>1, <2>2
<1> HIDE DEF part, rest, all
<1>4. /\ part \o t \in Seq(S) /\ Len(part \o t) = Len(part) + Len(t)
      /\ \A i \in 1 .. Len(part) : (part \o t)[i] = part[i]
      /\ \A i \in 1 .. Len(t) : (part \o t)[Len(part) + i] = t[i]
  <2>1. part \in Seq(S)
    BY <1>2
  <2> QED  BY <2>1, JoinIs
<1>5. Len(part \o t) = Len(rest)
  BY <1>1, <1>2, <1>3, <1>4
<1>6. ASSUME NEW i \in 1 .. Len(part \o t) PROVE (part \o t)[i] = rest[i]
  <2>1. CASE i <= Len(s) - k
    <3>1. i \in 1 .. Len(part) /\ i \in 1 .. Len(s) - k /\ k + i \in 1 .. Len(s)
          /\ i \in 1 .. Len(s) + Len(t) - k
      BY <1>1, <1>2, <2>1
    <3> QED  BY <1>1, <1>2, <1>3, <1>4, <3>1
  <2>2. CASE i > Len(s) - k
    <3> DEFINE j == i - (Len(s) - k)
    <3>1. /\ j \in 1 .. Len(t) /\ i = Len(part) + j /\ k + i = Len(s) + j
          /\ i \in 1 .. Len(s) + Len(t) - k
      BY <1>1, <1>2, <1>4, <2>2
    <3> HIDE DEF j
    <3>2. (part \o t)[i] = t[j]
      BY <1>4, <3>1
    <3>3. rest[i] = all[Len(s) + j]
      BY <1>3, <3>1
    <3> QED  BY <1>1, <3>1, <3>2, <3>3
  <2> QED  BY <1>1, <2>1, <2>2
<1>7. part \o t = rest
  BY <1>3, <1>4, <1>5, <1>6, SeqEqual
<1> QED  BY <1>7 DEF part, rest, all

(* The held jobs and the queue without its first, and with it held back.      *)
LEMMA JoinFirst ==
    ASSUME NEW S, NEW s \in Seq(S), NEW t \in Seq(S), t # <<>>
    PROVE  /\ Append(s, Head(t)) \o Tail(t) = s \o t
           /\ SubSeq(s \o t, 1, Len(s)) \o SubSeq(s \o t, Len(s) + 2, Len(s \o t)) = s \o Tail(t)
           /\ (s \o t)[Len(s) + 1] = Head(t) /\ Len(s) + 1 \in DOMAIN (s \o t)
<1> DEFINE all == s \o t
<1>1. /\ all \in Seq(S) /\ Len(all) = Len(s) + Len(t) /\ Len(s) \in Nat
      /\ DOMAIN all = 1 .. Len(s) + Len(t)
      /\ \A i \in 1 .. Len(s) : all[i] = s[i]
      /\ \A i \in 1 .. Len(t) : all[Len(s) + i] = t[i]
  BY JoinIs
<1>2. /\ Tail(t) \in Seq(S) /\ Len(Tail(t)) = Len(t) - 1 /\ Len(t) \in Nat \ {0}
      /\ Head(t) = t[1] /\ Head(t) \in S
      /\ \A i \in 1 .. Len(t) - 1 : Tail(t)[i] = t[i + 1]
  BY TailOf
<1> HIDE DEF all
<1>3. all[Len(s) + 1] = Head(t) /\ Len(s) + 1 \in DOMAIN all
  BY <1>1, <1>2
<1>4. Append(s, Head(t)) \o Tail(t) = all
  <2>1. /\ Append(s, Head(t)) \in Seq(S) /\ Len(Append(s, Head(t))) = Len(s) + 1
        /\ \A i \in 1 .. Len(s) : Append(s, Head(t))[i] = s[i]
        /\ Append(s, Head(t))[Len(s) + 1] = Head(t)
    BY <1>2, AppendProperties
  <2> DEFINE more == Append(s, Head(t))
             both == more \o Tail(t)
  <2>2. /\ both \in Seq(S) /\ Len(both) = Len(more) + Len(Tail(t))
        /\ \A i \in 1 .. Len(more) : both[i] = more[i]
        /\ \A i \in 1 .. Len(Tail(t)) : both[Len(more) + i] = Tail(t)[i]
    BY <1>2, <2>1, JoinIs
  <2> HIDE DEF more, both
  <2>3. Len(both) = Len(all) /\ Len(more) = Len(s) + 1
    BY <1>1, <1>2, <2>1, <2>2 DEF more
  <2>4. ASSUME NEW i \in 1 .. Len(both) PROVE both[i] = all[i]
    <3>1. CASE i <= Len(s)
      <4>1. i \in 1 .. Len(more) /\ i \in 1 .. Len(s)
        BY <1>1, <2>3, <3>1
      <4>2. more[i] = s[i]
        BY <2>1, <4>1 DEF more
      <4> QED  BY <1>1, <2>2, <4>1, <4>2
    <3>2. CASE i = Len(s) + 1
      <4>1. i \in 1 .. Len(more) /\ more[i] = Head(t)
        BY <1>1, <2>1, <2>3, <3>2 DEF more
      <4> QED  BY <1>3, <2>2, <3>2, <4>1
    <3>3. CASE i > Len(s) + 1
      <4> DEFINE j == i - (Len(s) + 1)
      <4>1. /\ j \in 1 .. Len(t) - 1 /\ i = Len(more) + j /\ i = Len(s) + (j + 1)
            /\ j + 1 \in 1 .. Len(t) /\ j \in 1 .. Len(Tail(t))
        BY <1>1, <1>2, <2>3, <3>3
      <4> HIDE DEF j
      <4>2. both[i] = Tail(t)[j] /\ all[i] = t[j + 1]
        BY <1>1, <2>2, <4>1
      <4> QED  BY <1>2, <4>1, <4>2
    <3> QED  BY <1>1, <2>3, <3>1, <3>2, <3>3
  <2>5. both = all
    BY <1>1, <2>2, <2>3, <2>4, SeqEqual
  <2> QED  BY <2>5 DEF both, more
<1>5. SubSeq(all, 1, Len(s)) = s
  <2>1. /\ 1 \in Nat \ {0} /\ Len(s) \in 0 .. Len(all) /\ 1 <= Len(s) + 1
        /\ Len(s) - 1 + 1 = Len(s) /\ \A i \in 1 .. Len(s) : 1 + i - 1 = i
    BY <1>1, <1>2
  <2>2. /\ SubSeq(all, 1, Len(s)) \in Seq(S) /\ Len(SubSeq(all, 1, Len(s))) = Len(s) - 1 + 1
        /\ \A i \in 1 .. Len(s) - 1 + 1 : SubSeq(all, 1, Len(s))[i] = all[1 + i - 1]
    BY <1>1, <2>1, PartIs
  <2>3. \A i \in 1 .. Len(s) : SubSeq(all, 1, Len(s))[i] = s[i]
    BY <1>1, <2>1, <2>2
  <2> QED  BY <2>1, <2>2, <2>3, SeqEqual
<1>6. SubSeq(all, Len(s) + 2, Len(all)) = Tail(t)
  <2> DEFINE part == SubSeq(all, Len(s) + 2, Len(all))
  <2>1. /\ Len(s) + 2 \in Nat \ {0} /\ Len(all) \in 0 .. Len(all) /\ Len(s) + 2 <= Len(all) + 1
        /\ Len(all) - (Len(s) + 2) + 1 = Len(t) - 1
    BY <1>1, <1>2
  <2>2. /\ part \in Seq(S) /\ Len(part) = Len(all) - (Len(s) + 2) + 1
        /\ \A i \in 1 .. Len(all) - (Len(s) + 2) + 1 : part[i] = all[(Len(s) + 2) + i - 1]
    BY <1>1, <2>1, PartIs
  <2> HIDE DEF part
  <2>3. ASSUME NEW i \in 1 .. Len(t) - 1 PROVE part[i] = Tail(t)[i]
    <3>1. (Len(s) + 2) + i - 1 = Len(s) + (i + 1) /\ i + 1 \in 1 .. Len(t)
      BY <1>1, <1>2
    <3> QED  BY <1>1, <1>2, <2>1, <2>2, <3>1
  <2>4. part = Tail(t)
    BY <1>2, <2>1, <2>2, <2>3, SeqEqual
  <2> QED  BY <2>4 DEF part
<1> QED  BY <1>3, <1>4, <1>5, <1>6 DEF all

(* A job that is fired is the last of the line.                               *)
LEMMA JoinMore ==
    ASSUME NEW S, NEW s \in Seq(S), NEW t \in Seq(S), NEW e \in S
    PROVE  s \o Append(t, e) = Append(s \o t, e)
<1>1. /\ <<e>> \in Seq(S) /\ Append(t, e) = t \o <<e>> /\ s \o t \in Seq(S)
      /\ Append(s \o t, e) = (s \o t) \o <<e>>
  BY AppendIsConcat, ConcatProperties
<1> QED  BY <1>1, ConcatAssociative
(* Each step is one of the line's, or leaves the line.                        *)
LEMMA LineStep ==
    TimerApart /\ TypeInv /\ PasteInv /\ HeldInv /\ [Next]_vars => [Line!Next]_(Line!vars)
<1> SUFFICES ASSUME TimerApart, TypeInv, PasteInv, HeldInv, [Next]_vars
             PROVE  [Line!Next]_(Line!vars)
  OBVIOUS
<1>1. /\ TypeOK /\ held \in Seq(Job) /\ queue \in Seq(Job) /\ held' \in Seq(Job)
      /\ \A i \in DOMAIN held : held[i] \in Job
      /\ \A i \in DOMAIN queue : queue[i] \in Job
  <2>1. TypeInv'
    BY TypeStep
  <2> QED  BY <2>1, PoolHas DEF TypeInv, TypeOK
<1>2. /\ held \o queue \in Seq(Job) /\ Len(held \o queue) = Len(held) + Len(queue)
      /\ Len(held) \in Nat /\ Len(queue) \in Nat
      /\ DOMAIN (held \o queue) = 1 .. Len(held) + Len(queue)
      /\ DOMAIN held = 1 .. Len(held) /\ DOMAIN queue = 1 .. Len(queue)
      /\ \A i \in 1 .. Len(held) : (held \o queue)[i] = held[i]
      /\ \A i \in 1 .. Len(queue) : (held \o queue)[Len(held) + i] = queue[i]
  BY <1>1, JoinIs
<1>3. CASE UNCHANGED <<held, queue, turn>>
  BY <1>3 DEF Line!vars
<1>4. CASE Submit
  <2>1. PICK job \in Fired : queue' = Append(queue, job)
    BY <1>4 DEF Submit
  <2>2. job \in Job /\ UNCHANGED <<held, turn>>
    BY <1>4, <2>1, FiredType DEF Submit
  <2>3. held' \o queue' = Append(held \o queue, job)
    BY <1>1, <2>1, <2>2, JoinMore
  <2> QED  BY <2>2, <2>3 DEF Line!Next, Line!Fire
<1>5. CASE CancelPending
  <2>1. queue' = Cancelled(queue) /\ held' = Cancelled(held) /\ UNCHANGED turn
    BY <1>5 DEF CancelPending
  <2>2. /\ Cancelled(queue) \in Seq(Job) /\ Len(Cancelled(queue)) = Len(queue)
        /\ Cancelled(held) \in Seq(Job) /\ Len(Cancelled(held)) = Len(held)
    BY <1>1, CancelledType
  <2>3. /\ Cancelled(held) \o Cancelled(queue) \in Seq(Job)
        /\ DOMAIN (Cancelled(held) \o Cancelled(queue)) = 1 .. Len(held) + Len(queue)
        /\ \A i \in 1 .. Len(held) : (Cancelled(held) \o Cancelled(queue))[i] = Cancelled(held)[i]
        /\ \A i \in 1 .. Len(queue) :
              (Cancelled(held) \o Cancelled(queue))[Len(held) + i] = Cancelled(queue)[i]
    <3> DEFINE first == Cancelled(held)
               second == Cancelled(queue)
    <3>1. /\ first \in Seq(Job) /\ second \in Seq(Job)
          /\ Len(first) = Len(held) /\ Len(second) = Len(queue)
      BY <2>2
    <3> HIDE DEF first, second
    <3>2. /\ first \o second \in Seq(Job)
          /\ DOMAIN (first \o second) = 1 .. Len(first) + Len(second)
          /\ \A i \in 1 .. Len(first) : (first \o second)[i] = first[i]
          /\ \A i \in 1 .. Len(second) : (first \o second)[Len(first) + i] = second[i]
      <4>1. ASSUME NEW a \in Seq(Job), NEW b \in Seq(Job)
            PROVE  /\ a \o b \in Seq(Job) /\ DOMAIN (a \o b) = 1 .. Len(a) + Len(b)
                   /\ \A i \in 1 .. Len(a) : (a \o b)[i] = a[i]
                   /\ \A i \in 1 .. Len(b) : (a \o b)[Len(a) + i] = b[i]
        BY JoinIs
      <4> QED  BY <3>1, <4>1
    <3> QED  BY <3>1, <3>2 DEF first, second
  <2> DEFINE all == [i \in DOMAIN (held \o queue) |-> [(held \o queue)[i] EXCEPT !.live = FALSE]]
             new == Cancelled(held) \o Cancelled(queue)
  <2>4. ASSUME NEW i \in 1 .. Len(held) + Len(queue) PROVE new[i] = all[i]
    <3>0. all[i] = [(held \o queue)[i] EXCEPT !.live = FALSE]
      BY <1>2
    <3> HIDE DEF all
    <3>1. CASE i <= Len(held)
      <4>1. i \in 1 .. Len(held)
        BY <1>2, <3>1
      <4>2. new[i] = [held[i] EXCEPT !.live = FALSE]
        BY <1>2, <2>3, <4>1 DEF Cancelled
      <4>3. (held \o queue)[i] = held[i]
        BY <1>2, <4>1
      <4> HIDE DEF new
      <4> QED  BY <3>0, <4>2, <4>3
    <3>2. CASE i > Len(held)
      <4> DEFINE j == i - Len(held)
      <4>1. j \in 1 .. Len(queue) /\ i = Len(held) + j
        BY <1>2, <3>2
      <4> HIDE DEF j
      <4>2. new[i] = [queue[j] EXCEPT !.live = FALSE]
        BY <1>2, <2>3, <4>1 DEF Cancelled
      <4>3. (held \o queue)[i] = queue[j]
        BY <1>2, <4>1
      <4> HIDE DEF new
      <4> QED  BY <3>0, <4>2, <4>3
    <3>3. i <= Len(held) \/ i > Len(held)
      BY <1>2
    <3> HIDE DEF new
    <3> QED  BY <3>1, <3>2, <3>3
  <2>5. new = all
    <3>1. DOMAIN new = DOMAIN all /\ new = [i \in DOMAIN new |-> new[i]]
      <4>1. new \in [1 .. Len(new) -> Job]
        BY <2>3, LenProperties
      <4> QED  BY <1>2, <2>3, <4>1
    <3> QED  BY <1>2, <2>4, <3>1
  <2> QED  BY <2>1, <2>5 DEF Line!Next, Line!Cancel
<1>6. CASE TakeJob
  <2>1. /\ queue # <<>> /\ queue' = Tail(queue) /\ Head(queue) \in Job
        /\ ~stopping /\ loop = "drain" /\ ending = "none"
    BY <1>1, <1>6, TailOf DEF TakeJob, Draining
  <2>2. /\ Append(held, Head(queue)) \o Tail(queue) = held \o queue
        /\ SubSeq(held \o queue, 1, Len(held))
              \o SubSeq(held \o queue, Len(held) + 2, Len(held \o queue))
              = held \o Tail(queue)
        /\ (held \o queue)[Len(held) + 1] = Head(queue)
        /\ Len(held) + 1 \in DOMAIN (held \o queue)
    BY <1>1, <2>1, JoinFirst
  <2>3. CASE Refused(Head(queue)) /\ UNCHANGED <<held, turn>>
    <3> DEFINE i == Len(held) + 1
    <3>1. i - 1 = Len(held) /\ i + 1 = Len(held) + 2 /\ i \in i .. Len(held \o queue)
      BY <1>2, <2>2
    <3>2. held' \o queue' = Line!Without(i, i)
      BY <2>1, <2>2, <2>3, <3>1 DEF Line!Without
    <3>3. CASE ~Live(Head(queue))
      <4>1. ~(held \o queue)[i].live
        BY <2>1, <2>2, <3>3 DEF Live
      <4>2. \A n \in i .. i : n = i
        BY <1>2
      <4> HIDE DEF i
      <4>3. \A n \in i .. i : ~(held \o queue)[n].live
        BY <4>1, <4>2
      <4>4. Line!Drop
        <5>1. i \in DOMAIN (held \o queue)
          BY <2>2 DEF i
        <5> QED  BY <2>3, <3>1, <3>2, <4>3, <5>1 DEF Line!Drop
      <4> QED  BY <4>4 DEF Line!Next
    <3>4. CASE Head(queue).kind = "paste"
      BY <2>2, <2>3, <3>2, <3>4 DEF Line!Next, Line!DropPaste
    <3> QED  BY <2>3, <3>3, <3>4 DEF Refused
  <2>4. CASE held' = Append(held, Head(queue)) /\ UNCHANGED turn
    BY <2>1, <2>2, <2>4 DEF Line!vars
  <2>5. CASE ~HoldsBack(Head(queue)) /\ Begin(Head(queue)) /\ UNCHANGED held
    <3>1. held = <<>> /\ turn' = ~turn
      BY <2>1, <2>5 DEF HeldInv, Waiting, HoldsBack, Begin
    <3>2. held \o queue = queue /\ held' \o queue' = Tail(queue)
      <4>1. queue' \in Seq(Job)
        BY <1>1, <2>1, TailOf
      <4> QED  BY <1>1, <2>1, <2>5, <3>1, <4>1, ConcatEmptySeq
    <3> QED  BY <2>1, <3>1, <3>2 DEF Line!Next, Line!Begin
  <2> QED  BY <1>6, <2>3, <2>4, <2>5 DEF TakeJob, Start
<1>7. CASE PollBegins
  <2>1. held' \in Retained(held) /\ UNCHANGED <<queue, turn>>
    BY <1>7 DEF PollBegins
  <2> DEFINE living == {i \in DOMAIN held : held[i].live}
  <2>2. {i \in DOMAIN held : Live(held[i])} = living
    BY DEF HeldInv, Live
  <2>3. held' \in Only(held, living)
    <3> HIDE DEF living
    <3> QED  BY <2>1, <2>2 DEF Retained
  <2>4. PICK k \in 0 .. Len(held) : living = k + 1 .. Len(held)
    <3>1. CASE living = {}
      <4>1. living = Len(held) + 1 .. Len(held)
        BY <1>2, <3>1
      <4> QED  BY <1>2, <4>1
    <3>2. CASE living # {}
      <4>1. living \subseteq Nat
        BY <1>2
      <4>2. PICK n \in living : \A m \in living : n <= m
        <5> HIDE DEF living
        <5> QED  BY <3>2, <4>1, LeastNumber
      <4>3. n \in 1 .. Len(held) /\ held[n].live
        BY <1>2, <4>2
      <4>4. \A m \in n .. Len(held) : m \in living
        <5>1. ASSUME NEW m \in n .. Len(held), ~held[m].live PROVE FALSE
          <6>1. m \in DOMAIN held /\ n \in DOMAIN held /\ (n = m \/ n < m)
            BY <1>2, <4>3
          <6> QED  BY <4>3, <5>1, <6>1 DEF HeldInv
        <5>2. \A m \in n .. Len(held) : m \in DOMAIN held
          BY <1>2, <4>3
        <5> QED  BY <5>1, <5>2
      <4>5. \A m \in living : m \in n .. Len(held)
        BY <1>2, <4>2, <4>3
      <4>6. living = (n - 1) + 1 .. Len(held)
        <5> HIDE DEF living
        <5>1. (n - 1) + 1 = n
          BY <4>3
        <5> QED  BY <4>4, <4>5, <5>1
      <4>7. n - 1 \in 0 .. Len(held)
        BY <1>2, <4>3
      <4> HIDE DEF living
      <4> QED  BY <4>6, <4>7
    <3> QED  BY <3>1, <3>2
  <2>5. \A i \in 1 .. k : i \in DOMAIN held /\ ~held[i].live
    <3>1. \A i \in 1 .. k : i \in DOMAIN held /\ i \notin k + 1 .. Len(held)
      BY <1>2
    <3>2. \A i \in 1 .. k : i \notin living
      <4> HIDE DEF living
      <4> QED  BY <2>4, <3>1
    <3> QED  BY <3>1, <3>2
  <2>6. held' = SubSeq(held, k + 1, Len(held))
    <3> HIDE DEF living
    <3> QED  BY <1>1, <2>3, <2>4, OnlyEnd
  <2> HIDE DEF living
  <2>7. held' \o queue' = SubSeq(held \o queue, k + 1, Len(held \o queue))
    BY <1>1, <2>1, <2>6, JoinEnd
  <2>8. CASE k = 0
    <3>1. SubSeq(held \o queue, 1, Len(held \o queue)) = held \o queue
      BY <1>2, SubSeqFull
    <3> QED  BY <2>1, <2>7, <2>8, <3>1 DEF Line!vars
  <2>9. CASE k > 0
    <3>1. 1 \in DOMAIN (held \o queue) /\ k \in 1 .. Len(held \o queue)
      BY <1>2, <2>9
    <3>2. \A i \in 1 .. k : ~(held \o queue)[i].live
      BY <1>2, <2>5
    <3>3. held' \o queue' = Line!Without(1, k)
      <4>1. SubSeq(held \o queue, 1, 1 - 1) = <<>>
        BY SubSeqEmpty
      <4>2. SubSeq(held \o queue, k + 1, Len(held \o queue)) \in Seq(Job)
        <5>1. queue' \in Seq(Job)
          BY <1>1, <2>1
        <5> QED  BY <1>1, <2>7, <5>1, ConcatProperties
      <4> QED  BY <2>7, <4>1, <4>2, ConcatEmptySeq DEF Line!Without
    <3>4. Line!Drop
      BY <2>1, <3>1, <3>2, <3>3 DEF Line!Drop
    <3> QED  BY <3>4 DEF Line!Next
  <2> QED  BY <2>8, <2>9
<1>8. CASE HeldBegins
  <2>1. /\ held # <<>> /\ held' = Tail(held) /\ UNCHANGED queue /\ turn' = ~turn
    BY <1>8 DEF HeldBegins, Begin
  <2>2. Len(held) \in Nat \ {0} /\ 1 \in 0 .. Len(held)
    BY <1>1, <2>1, TailOf
  <2>3. held' = SubSeq(held, 1 + 1, Len(held))
    BY <1>1, <2>1, TailIsSubSeq
  <2>4. held \o queue # <<>>
    BY <1>2, <2>2, EmptySeq
  <2>5. held' \o queue' = SubSeq(held \o queue, 1 + 1, Len(held \o queue))
    BY <1>1, <2>1, <2>2, <2>3, JoinEnd
  <2>6. held' \o queue' = Tail(held \o queue)
    BY <1>2, <2>4, <2>5, TailIsSubSeq
  <2> QED  BY <2>1, <2>4, <2>6 DEF Line!Next, Line!Begin
<1>9. CASE Ends
  <2>1. held' \o queue' = <<>> /\ UNCHANGED turn
    <3>1. <<>> \o <<>> = <<>>
      BY EmptySeq, ConcatEmptySeq
    <3> QED  BY <1>9, <3>1 DEF Ends
  <2> QED  BY <2>1 DEF Line!Next, Line!End
<1>10. \/ UNCHANGED <<held, queue, turn>> \/ Submit \/ CancelPending \/ TakeJob \/ PollBegins
       \/ HeldBegins \/ Ends
  <2>1. CASE Poll
    BY <2>1 DEF Poll, NotDue, RunEnds, RunCalls, RunDelays, PasteBehind, PasteTries, PollEnds
  <2> QED
    BY <2>1 DEF Next, Thread, Cancel, Stop, PostWake, CallReturns, DrainEnds, StopSeen, Arm,
        ArmFails, TimerWakes, WakeTaken, Close, ForeignMessage, QuitTaken, WaitFails, Tick, vars
<1> QED  BY <1>3, <1>4, <1>5, <1>6, <1>7, <1>8, <1>9, <1>10

(* Jobs begin in the order in which they were fired, each once, and only the  *)
(* cancelled ones and Pastes are dropped, wherever the Delay timer can be set *)
(* if Pastes are fired: the executor implements JobQueue (run_loop,           *)
(* Runs::start, Runs::poll).                                                  *)
THEOREM ImplementsQueue == ASSUME TimerApart PROVE Spec => JobsInOrder
<1> DEFINE OrderInv == TypeInv /\ PasteInv /\ HeldInv
<1>1. Init => OrderInv
  BY InitTypes, PasteFirst, HeldFirst
<1>2. OrderInv /\ [Next]_vars => OrderInv'
  BY TypeStep, PasteKept, HeldKept
<1>3. OrderInv /\ [Next]_vars => [Line!Next]_(Line!vars)
  BY LineStep
<1>4. Init => Line!Init
  <2>1. <<>> \o <<>> = <<>>
    BY EmptySeq, ConcatEmptySeq
  <2> QED  BY <2>1 DEF Init, Line!Init
<1> QED
  <2> HIDE DEF OrderInv
  <2> QED  BY <1>1, <1>2, <1>3, <1>4, PTL DEF Spec, JobsInOrder, Line!Spec
-----------------------------------------------------------------------------
(* A cancel, and a stop, are the only steps that cancel work.                 *)
LEMMA CancelIs == TypeInv /\ [Next]_vars /\ CancelPending => Cancel \/ Stop
<1> SUFFICES ASSUME TypeInv, [Next]_vars, CancelPending PROVE Cancel \/ Stop
  OBVIOUS
<1>1. ~posting /\ posting' /\ queue' = Cancelled(queue)
  BY DEF CancelPending
<1>2. CASE Submit
  <2>1. PICK job \in Fired : queue' = Append(queue, job)
    BY <1>2 DEF Submit
  <2>2. Len(queue') = Len(queue) + 1 /\ Len(queue) \in Nat
    BY <2>1, FiredType, AppendTo DEF TypeInv, TypeOK
  <2>3. Len(queue') = Len(queue)
    BY <1>1, CancelledType DEF TypeInv
  <2> QED  BY <2>2, <2>3
<1>3. CASE Poll
  BY <1>1, <1>3 DEF Poll, PollBegins, NotDue, RunEnds, RunCalls, RunDelays, PasteBehind, PasteTries,
                    HeldBegins, PollEnds
<1> QED
  BY <1>1, <1>2, <1>3
  DEF Next, Thread, PostWake, CallReturns, TakeJob, DrainEnds, StopSeen, Arm, ArmFails, TimerWakes,
      WakeTaken, Close, Ends, ForeignMessage, QuitTaken, WaitFails, Tick, vars

(* Only a stop sets stopping, which is never reset.                           *)
LEMMA StopIs == [Next]_vars => UNCHANGED stopping \/ Stop
<1> SUFFICES ASSUME [Next]_vars PROVE UNCHANGED stopping \/ Stop
  OBVIOUS
<1>1. CASE Poll
  BY <1>1 DEF Poll, PollBegins, NotDue, RunEnds, RunCalls, RunDelays, PasteBehind, PasteTries,
              HeldBegins, PollEnds
<1> QED
  BY <1>1 DEF Next, Thread, Submit, Cancel, CancelPending, PostWake, CallReturns, TakeJob,
              DrainEnds, StopSeen, Arm, ArmFails, TimerWakes, WakeTaken, Close, Ends,
              ForeignMessage, QuitTaken, WaitFails, Tick, vars

(* What is live stays so, but for a cancel or a stop.                         *)
LEMMA LiveKeeps == TypeInv /\ AllLive /\ [Next]_vars => AllLive' \/ Cancel \/ Stop
<1> SUFFICES ASSUME TypeInv, AllLive, [Next]_vars, ~CancelPending PROVE AllLive'
  BY CancelIs
<1>1. \A old \in Pool : old.live
  BY FiredType DEF Pool, AllLive
<1>2. \A new \in Work' : new.live
  BY <1>1, WorkComes DEF SameWork
<1> QED  BY <1>2 DEF AllLive

(* Work is cancelled only where there are cancels or stops.                   *)
LiveInv ==
    /\ "stop" \notin env => ~stopping
    /\ "cancel" \notin env /\ ~stopping => AllLive

(* LiveInv holds at first,                                                    *)
LEMMA LiveFirst == Init => LiveInv
<1> SUFFICES ASSUME Init PROVE LiveInv
  OBVIOUS
<1>1. DOMAIN <<>> = {}
  OBVIOUS
<1>2. Work = {} /\ ~stopping
  BY <1>1 DEF Init, Work
<1> QED  BY <1>2 DEF LiveInv, AllLive

(* and is kept.                                                               *)
LEMMA LiveKept == TypeInv /\ LiveInv /\ [Next]_vars => LiveInv'
<1> SUFFICES ASSUME TypeInv, LiveInv, [Next]_vars PROVE LiveInv'
  OBVIOUS
<1>1. env' = env /\ (UNCHANGED stopping \/ Stop)
  BY EnvKept, StopIs
<1>2. Stop => "stop" \in env /\ stopping'
  BY DEF Stop
<1>3. Cancel => "cancel" \in env
  BY DEF Cancel
<1>4. ASSUME "cancel" \notin env, ~stopping' PROVE AllLive'
  <2>1. ~stopping /\ ~Stop /\ ~Cancel
    BY <1>1, <1>2, <1>3, <1>4
  <2>2. AllLive
    BY <1>4, <2>1 DEF LiveInv
  <2> QED  BY <2>1, <2>2, LiveKeeps
<1> QED  BY <1>1, <1>2, <1>4 DEF LiveInv
-----------------------------------------------------------------------------
(* An action that is held back behind a paste begins without another look at  *)
(* its epoch: nothing is cancelled where actions and Pastes are fired.        *)
LaunchApart ==
    \A e \in Environments : {"launch", "paste"} \subseteq e => {"cancel", "stop"} \cap e = {}

(* No step calls a runner for what was cancelled.                             *)
LEMMA ObeyStep ==
    LaunchApart /\ TypeInv /\ PasteInv /\ LiveInv /\ ~disobeyed /\ [Next]_vars => ~disobeyed'
<1> SUFFICES ASSUME LaunchApart, TypeInv, PasteInv, LiveInv, ~disobeyed, [Next]_vars
             PROVE  ~disobeyed'
  OBVIOUS
<1>1. ASSUME NEW job, Begin(job), job.kind = "action" => Live(job) PROVE ~disobeyed'
  BY <1>1 DEF Begin, Call
<1>2. CASE TakeJob
  BY <1>1, <1>2 DEF TakeJob, Start, Refused
<1>3. CASE HeldBegins
  <2>1. held # <<>> /\ Begin(Head(held)) /\ Head(held) \in Work
    <3>1. Head(held) = held[1] /\ 1 \in DOMAIN held
      BY <1>3, TailOf DEF HeldBegins, TypeInv, TypeOK
    <3> QED  BY <1>3, <3>1 DEF HeldBegins, Work
  <2>2. ASSUME Head(held).kind = "action" PROVE Live(Head(held))
    <3>1. {"launch", "paste"} \subseteq env /\ env \in Environments
      BY <2>1, <2>2 DEF PasteInv, TypeInv, TypeOK
    <3>2. "cancel" \notin env /\ "stop" \notin env
      BY <3>1 DEF LaunchApart
    <3> QED  BY <2>1, <3>2 DEF LiveInv, AllLive, Live
  <2> QED  BY <1>1, <2>1, <2>2
<1>4. CASE RunCalls
  BY <1>4 DEF RunCalls, Call, AtStep
<1>5. CASE Poll /\ ~RunCalls /\ ~HeldBegins
  BY <1>5 DEF Poll, PollBegins, NotDue, RunEnds, RunDelays, PasteBehind, PasteTries, PollEnds
<1> QED
  BY <1>2, <1>3, <1>4, <1>5
  DEF Next, Thread, Submit, Cancel, Stop, CancelPending, PostWake, CallReturns, DrainEnds, StopSeen,
      Arm, ArmFails, TimerWakes, WakeTaken, Close, Ends, ForeignMessage, QuitTaken, WaitFails, Tick,
      vars

(* No job or run that was cancelled calls its runner, wherever nothing is     *)
(* cancelled while both actions and Pastes are fired: for each other mixture  *)
(* the epoch is read again before the call (Runs::start, Runs::poll).         *)
THEOREM CancelsAreObeyed == ASSUME LaunchApart PROVE Spec => []CancelledNeverRuns
<1> DEFINE CancelInv == TypeInv /\ PasteInv /\ LiveInv /\ ~disobeyed
<1>1. Init => CancelInv
  BY InitTypes, PasteFirst, LiveFirst DEF Init
<1>2. CancelInv /\ [Next]_vars => CancelInv'
  BY TypeStep, PasteKept, LiveKept, ObeyStep
<1>3. CancelInv => CancelledNeverRuns
  BY DEF CancelledNeverRuns
<1> QED
  <2> HIDE DEF CancelInv
  <2> QED  BY <1>1, <1>2, <1>3, PTL DEF Spec
-----------------------------------------------------------------------------
(* Jobs are no more than the queue has places for, where none are crowded.    *)
RoomInv == "crowd" \notin env => Len(queue) + Len(held) <= Capacity[env]

(* RoomInv is kept,                                                           *)
LEMMA RoomKept == TypeInv /\ RoomInv /\ [Next]_vars => RoomInv'
<1> SUFFICES ASSUME TypeInv, RoomInv, [Next]_vars PROVE RoomInv'
  OBVIOUS
<1>1. Changes /\ env' = env
  BY WhatChanges, EnvKept
<1>2. /\ TypeOK /\ queue \in Seq(Job) /\ held \in Seq(Job)
      /\ Len(queue) \in Nat /\ Len(held) \in Nat
      /\ Capacity[env] \in Nat /\ Len(<<>>) = 0
  BY ExecutorAssumption, LenProperties, EmptySeq DEF TypeInv, TypeOK
<1>3. CASE Submit
  <2>1. PICK job \in Fired : queue' = Append(queue, job)
    BY <1>3 DEF Submit
  <2>2. Len(queue') = Len(queue) + 1 /\ held' = held
    BY <1>2, <1>3, <2>1, FiredType, AppendTo DEF Submit
  <2>3. "crowd" \in env \/ Len(queue) + Len(held) < Capacity[env]
    BY <1>3 DEF Submit, Room
  <2> QED  BY <1>1, <1>2, <2>2, <2>3 DEF RoomInv
<1>4. CASE TakeJob
  <2>1. Len(queue') = Len(queue) - 1 /\ Head(queue) \in Job
    BY <1>2, <1>4, TailOf DEF TakeJob
  <2>2. Len(held') <= Len(held) + 1 /\ Len(held') \in Nat
    BY <1>2, <1>4, <2>1, AppendTo DEF TakeJob, Start
  <2> QED  BY <1>1, <1>2, <2>1, <2>2 DEF RoomInv
<1>5. CASE CancelPending
  BY <1>1, <1>2, <1>5, CancelledType DEF CancelPending, RoomInv
<1>6. CASE ~Submit /\ ~TakeJob /\ ~CancelPending
  <2>1. Len(queue') <= Len(queue) /\ Len(queue') \in Nat
    BY <1>1, <1>2, <1>6 DEF Changes
  <2>2. Len(held') <= Len(held) /\ Len(held') \in Nat
    <3>1. CASE PollBegins
      BY <1>2, <3>1, RetainedTypes, LenProperties DEF PollBegins
    <3>2. CASE HeldBegins
      BY <1>2, <3>2, TailOf DEF HeldBegins
    <3> QED  BY <1>1, <1>2, <1>6, <3>1, <3>2 DEF Changes
  <2> QED  BY <1>1, <1>2, <2>1, <2>2 DEF RoomInv
<1> QED  BY <1>3, <1>4, <1>5, <1>6

(* and holds at first.                                                        *)
LEMMA RoomFirst == Init => RoomInv
<1> SUFFICES ASSUME Init PROVE RoomInv
  OBVIOUS
<1>1. Len(<<>>) = 0 /\ Capacity[env] \in Nat
  BY EmptySeq, ExecutorAssumption DEF Init
<1> QED  BY <1>1 DEF Init, RoomInv
-----------------------------------------------------------------------------
(* A run that waits between its tries still does after a step of a pass that  *)
(* makes no runner call.                                                      *)
LEMMA WaitGoesOn ==
    TypeInv /\ PasteInv /\ AllLive /\ ~stopping /\ AttemptWaits /\ RunGoesOn /\ ~calls'
        => AttemptWaits'
<1> SUFFICES ASSUME TypeInv, PasteInv, AllLive, ~stopping, AttemptWaits, RunGoesOn, ~calls'
             PROVE  AttemptWaits'
  OBVIOUS
<1>1. PICK i \in DOMAIN active : active[i].attempt # None
  BY DEF AttemptWaits
<1>2. /\ active[i].steps # <<>> /\ Head(active[i].steps) = "paste" /\ active[i].live
      /\ DOMAIN active = 1 .. Len(active) /\ Len(active) \in Nat
  BY <1>1, LenProperties DEF PasteInv, AllLive, Work, TypeInv, TypeOK
<1>3. index \in DOMAIN active /\ Present = active[index]
  BY GoneOn DEF Present
<1>4. CASE /\ DOMAIN active' = 1 .. Len(active) - 1
           /\ \A j \in DOMAIN active' : active'[j] = IF j < index THEN active[j] ELSE active[j + 1]
           /\ RunEnds \/ calls' = TRUE
  <2>1. i # index
    BY <1>2, <1>3, <1>4 DEF RunEnds, Live
  <2>2. CASE i < index
    <3>1. i \in DOMAIN active' /\ active'[i] = active[i]
      BY <1>2, <1>3, <1>4, <2>2
    <3> QED  BY <1>1, <3>1 DEF AttemptWaits
  <2>3. CASE i > index
    <3>1. i - 1 \in DOMAIN active' /\ ~(i - 1 < index) /\ (i - 1) + 1 = i
      BY <1>2, <1>3, <1>4, <2>3
    <3>2. active'[i - 1] = active[i]
      BY <1>4, <3>1
    <3> QED  BY <1>1, <3>1, <3>2 DEF AttemptWaits
  <2> QED  BY <1>2, <1>3, <2>1, <2>2, <2>3
<1>5. CASE /\ DOMAIN active' = DOMAIN active
           /\ \A j \in DOMAIN active : j # index => active'[j] = active[j]
           /\ \/ calls' = TRUE \/ Head(Present.steps) # "paste"
              \/ calls' = TRUE \/ active'[index].attempt = Present.attempt
  <2>1. i \in DOMAIN active'
    BY <1>5
  <2>2. active'[i].attempt # None
    BY <1>1, <1>2, <1>3, <1>5
  <2> QED  BY <2>1, <2>2 DEF AttemptWaits
<1> QED  BY <1>4, <1>5, GoneOn

(* The last poll of a drain leaves a queue only that the held jobs keep from  *)
(* being taken, and what was cancelled goes with its start.                   *)
DrainedInv ==
    final /\ ~calls /\ Quiet /\ ~stopping =>
        /\ loop \in {"poll", "advance"} =>
              queue = <<>> \/ (Len(held) = Capacity[env] /\ AttemptWaits)
        /\ loop = "advance" => AllLive

(* While the thread waits, nothing is cancelled that has not gone.            *)
AsleepInv ==
    loop \in {"arm", "wait"} /\ ending = "none" /\ Quiet =>
        ~stopping /\ AllLive /\ (queue = <<>> \/ Len(held) = Capacity[env])

(* Pastes, cancels, and more jobs than the queue has places for do not meet.   *)
CrowdApart == \A e \in Environments : ~({"paste", "cancel", "crowd"} \subseteq e)

SleepInv == RoomInv /\ DrainedInv /\ AsleepInv

(* A queue that waits for a paste keeps its work live, since it is crowded.   *)
LEMMA CrowdLives ==
    CrowdApart /\ TypeInv /\ PasteInv /\ LiveInv /\ RoomInv /\ ~stopping /\ AttemptWaits
        /\ queue # <<>> /\ Len(held) = Capacity[env] => AllLive
<1> SUFFICES ASSUME CrowdApart, TypeInv, PasteInv, LiveInv, RoomInv, ~stopping, AttemptWaits,
                    queue # <<>>, Len(held) = Capacity[env]
             PROVE  AllLive
  OBVIOUS
<1>1. Len(queue) \in Nat \ {0} /\ Capacity[env] \in Nat /\ env \in Environments
  BY TailOf, ExecutorAssumption DEF TypeInv, TypeOK
<1>2. "crowd" \in env
  BY <1>1 DEF RoomInv
<1>3. "paste" \in env
  BY PasteHolds DEF TypeInv
<1> QED  BY <1>1, <1>2, <1>3 DEF CrowdApart, LiveInv

(* A poll takes out what was cancelled before it.                             *)
LEMMA PollIsDrained ==
    CrowdApart /\ TypeInv /\ PasteInv /\ LiveInv /\ SleepInv /\ PollBegins => DrainedInv'
<1> SUFFICES ASSUME CrowdApart, TypeInv, PasteInv, LiveInv, SleepInv, PollBegins,
                    final', ~calls', Quiet', ~stopping'
             PROVE  /\ queue' = <<>> \/ (Len(held') = Capacity[env'] /\ AttemptWaits')
                    /\ AllLive'
  BY DEF DrainedInv
<1>1. /\ active' \in Retained(active) /\ held' \in Retained(held) /\ loop = "poll" /\ final /\ Quiet
      /\ ~stopping /\ ~calls
      /\ UNCHANGED <<env, queue>>
  <2>1. /\ active' \in Retained(active) /\ held' \in Retained(held) /\ loop = "poll"
        /\ SessionTicks
        /\ UNCHANGED <<handles, wakes, queue, turn, disobeyed, final, pumping, end, timer>>
    BY DEF PollBegins
  <2>2. ~calls
    <3>1. calls => calls'
      BY <2>1 DEF SessionTicks
    <3> QED  BY <3>1
  <2> QED  BY <2>1, <2>2 DEF Quiet
<1>2. queue = <<>> \/ (Len(held) = Capacity[env] /\ AttemptWaits)
  BY <1>1 DEF SleepInv, DrainedInv
<1>3. CASE queue = <<>>
  <2>1. /\ \A i \in DOMAIN held' : held'[i].live
        /\ \A i \in DOMAIN active' : active'[i].live
    BY <1>1, RetainedTypes DEF Live, TypeInv, TypeOK
  <2>2. DOMAIN <<>> = {}
    OBVIOUS
  <2> QED  BY <1>1, <1>3, <2>1, <2>2 DEF AllLive, Work
<1>4. CASE queue # <<>>
  <2>1. AllLive
    BY <1>1, <1>2, <1>4, CrowdLives DEF SleepInv
  <2>2. /\ {i \in DOMAIN held : Live(held[i])} = DOMAIN held
        /\ {i \in DOMAIN active : Live(active[i])} = DOMAIN active
    BY <1>1, <2>1 DEF AllLive, Work, Live
  <2>3. held' = held /\ active' = active
    <3>1. held' \in Only(held, DOMAIN held) /\ active' \in Only(active, DOMAIN active)
      BY <1>1, <2>2 DEF Retained
    <3> QED  BY <3>1, OnlyAll DEF TypeInv, TypeOK
  <2> QED  BY <1>1, <1>2, <2>1, <2>3 DEF AllLive, Work, AttemptWaits
<1> QED  BY <1>3, <1>4

(* The polls of a drain: what each of them leaves.                            *)
LEMMA DrainedKept ==
    CrowdApart /\ TypeInv /\ PasteInv /\ HeldInv /\ LiveInv /\ SleepInv /\ [Next]_vars
        => DrainedInv'
<1> SUFFICES ASSUME CrowdApart, TypeInv, PasteInv, HeldInv, LiveInv, SleepInv, [Next]_vars,
                    final', ~calls', Quiet', ~stopping', loop' \in {"poll", "advance"}
             PROVE  /\ queue' = <<>> \/ (Len(held') = Capacity[env'] /\ AttemptWaits')
                    /\ loop' = "advance" => AllLive'
  BY DEF DrainedInv
<1>1. CASE Submit \/ Cancel \/ Stop \/ PostWake
  <2>1. CASE PostWake
    <3>1. loop # "ended" /\ wakes' = wakes + 1 /\ wakes \in Nat
      BY <2>1, ExecutorAssumption DEF PostWake, TypeInv, TypeOK
    <3> QED  BY <3>1 DEF Quiet
  <2> QED  BY <1>1, <2>1 DEF Submit, Cancel, Stop, CancelPending, Quiet
<1>2. CASE TakeJob \/ StopSeen \/ CallReturns
  BY <1>2 DEF TakeJob, StopSeen, CallReturns, TypeInv, PlaceInv
<1>3. CASE DrainEnds
  <2>1. ~CanTake \/ queue = <<>>
    BY <1>3 DEF DrainEnds
  <2>2. Len(held) <= Capacity[env] /\ Len(held) \in Nat /\ Capacity[env] \in Nat \ {0}
    BY LenProperties, ExecutorAssumption DEF TypeInv, TypeOK
  <2>3. ~CanTake => Len(held) = Capacity[env] /\ held # <<>>
    <3>1. Len(<<>>) = 0
      BY EmptySeq
    <3> QED  BY <2>2, <3>1 DEF CanTake
  <2>4. ~CanTake => AttemptWaits
    BY <1>3, <2>3 DEF DrainEnds, Draining, HeldInv, Waiting
  <2> QED  BY <1>3, <2>1, <2>3, <2>4 DEF DrainEnds, AttemptWaits
<1>4. CASE PollBegins
  <2>1. DrainedInv'
    BY <1>4, PollIsDrained
  <2> QED  BY <2>1 DEF DrainedInv
<1>5. CASE ~pumping /\ (NotDue \/ RunGoesOn \/ HeldBegins)
  <2>1. /\ loop = "advance" /\ final /\ Quiet /\ ~stopping /\ ~calls
        /\ UNCHANGED <<env, queue, stopping>>
    <3>1. CASE RunGoesOn
      <4>1. /\ loop = "advance"
            /\ UNCHANGED <<handles, wakes, queue, held, turn, final, end, timer>>
        BY <1>5, <3>1, RunGoesOnTypes
      <4>2. calls => calls'
        BY <3>1 DEF RunGoesOn, RunEnds, RunCalls, RunDelays, PasteBehind, PasteTries, Call
      <4> QED  BY <4>1, <4>2 DEF Quiet
    <3>2. CASE NotDue
      BY <3>2 DEF NotDue, Advancing, Quiet
    <3>3. CASE HeldBegins
      <4>1. calls => calls'
        BY <3>3 DEF HeldBegins, Begin, Call
      <4> QED  BY <3>3, <4>1 DEF HeldBegins, Quiet
    <3> QED  BY <1>5, <3>1, <3>2, <3>3
  <2>2. /\ queue = <<>> \/ (Len(held) = Capacity[env] /\ AttemptWaits)
        /\ AllLive
    BY <2>1 DEF SleepInv, DrainedInv
  <2>3. AllLive'
    <3>1. ~posting' /\ ~Cancel /\ ~Stop
      BY <2>1, <1>5 DEF Quiet, Cancel, Stop, CancelPending
    <3> QED  BY <2>2, <3>1, LiveKeeps
  <2>4. CASE queue # <<>>
    <3>1. ~HeldBegins /\ UNCHANGED held
      <4>1. ~HeldBegins
        BY <2>2, <2>4 DEF HeldBegins
      <4> QED
        BY <1>5, <4>1 DEF NotDue, RunGoesOn, RunEnds, RunCalls, RunDelays, PasteBehind, PasteTries
    <3>2. AttemptWaits'
      <4>1. CASE NotDue
        BY <2>2, <2>4, <4>1 DEF NotDue, AttemptWaits
      <4>2. CASE RunGoesOn
        BY <2>1, <2>2, <2>4, <4>2, WaitGoesOn
      <4> QED  BY <1>5, <3>1, <4>1, <4>2
    <3> QED  BY <2>1, <2>2, <2>3, <2>4, <3>1, <3>2
  <2> QED  BY <2>1, <2>3, <2>4
<1>6. CASE PollEnds
  BY <1>6 DEF PollEnds
<1>7. CASE Arm \/ ArmFails \/ Close \/ WaitFails \/ Wakes
  BY <1>7 DEF Arm, ArmFails, Close, WaitFails, Ends, Wakes, TimerWakes, WakeTaken, ForeignMessage,
              QuitTaken, Again
<1>8. CASE Tick
  <2>1. UNCHANGED <<env, posting, wakes, queue, held, final, calls, loop, stopping>>
    BY <1>8 DEF Tick
  <2>2. /\ queue = <<>> \/ (Len(held) = Capacity[env] /\ AttemptWaits)
        /\ loop = "advance" => AllLive
    BY <2>1 DEF SleepInv, DrainedInv, Quiet
  <2>3. AttemptWaits => AttemptWaits'
    BY <1>8, TickedRuns DEF AttemptWaits, TypeInv
  <2>4. AllLive => AllLive'
    <3>1. ~posting' /\ ~Cancel /\ ~Stop
      BY <1>8 DEF Quiet, Cancel, Stop, CancelPending
    <3> QED  BY <3>1, LiveKeeps
  <2> QED  BY <2>1, <2>2, <2>3, <2>4
<1>9. CASE UNCHANGED vars
  BY <1>9 DEF vars, SleepInv, DrainedInv, Quiet, AttemptWaits, AllLive, Work
<1> QED
  BY <1>1, <1>2, <1>3, <1>4, <1>5, <1>6, <1>7, <1>8, <1>9 DEF Next, Thread, Poll, Wakes, RunGoesOn
(* The thread waits with what the drain's last poll left.                     *)
LEMMA AsleepKept ==
    TypeInv /\ LiveInv /\ SleepInv /\ [Next]_vars => AsleepInv'
<1> SUFFICES ASSUME TypeInv, LiveInv, SleepInv, [Next]_vars,
                    loop' \in {"arm", "wait"}, ending' = "none", Quiet'
             PROVE  ~stopping' /\ AllLive' /\ (queue' = <<>> \/ Len(held') = Capacity[env'])
  BY DEF AsleepInv
<1>1. ~posting' /\ wakes' = 0
  BY DEF Quiet
<1>2. CASE Submit \/ Cancel \/ Stop \/ PostWake
  <2>1. CASE PostWake
    <3>1. loop # "ended" /\ wakes' = wakes + 1 /\ wakes \in Nat
      BY <2>1, ExecutorAssumption DEF PostWake, TypeInv, TypeOK
    <3> QED  BY <1>1, <3>1
  <2> QED  BY <1>1, <1>2, <2>1 DEF Submit, Cancel, Stop, CancelPending
<1>3. CASE TakeJob \/ DrainEnds \/ StopSeen \/ CallReturns \/ Close \/ WaitFails \/ Wakes
  <2>1. CASE Close
    BY <2>1 DEF Close, Ends, TypeInv, PlaceInv
  <2>2. CASE Wakes
    <3>1. loop' \in {"drain", "close"}
      BY <2>2 DEF Wakes, TimerWakes, WakeTaken, ForeignMessage, QuitTaken, Again
    <3> QED  BY <3>1
  <2>3. CASE CallReturns
    BY <2>3 DEF CallReturns, TypeInv, PlaceInv
  <2> QED  BY <1>3, <2>1, <2>2, <2>3 DEF TakeJob, DrainEnds, StopSeen, WaitFails, Ends
<1>4. ASSUME ~stopping', ~stopping, AllLive, UNCHANGED <<env, queue, held>>,
             queue = <<>> \/ Len(held) = Capacity[env]
      PROVE  ~stopping' /\ AllLive' /\ (queue' = <<>> \/ Len(held') = Capacity[env'])
  <2>1. ~Cancel /\ ~Stop
    BY <1>1 DEF Cancel, Stop, CancelPending
  <2>2. AllLive'
    BY <1>4, <2>1, LiveKeeps
  <2> QED  BY <1>4, <2>2
<1>5. CASE Poll
  <2>1. PollEnds
    BY <1>5 DEF Poll, PollBegins, NotDue, RunEnds, RunCalls, RunDelays, PasteBehind, PasteTries,
                HeldBegins, AtStep, DueNow, Advancing
  <2>2. /\ loop = "advance" /\ final /\ ~stopping /\ ~calls
        /\ UNCHANGED <<env, posting, wakes, queue, held, stopping>>
    BY <2>1 DEF PollEnds, PassOver
  <2>3. AllLive /\ (queue = <<>> \/ Len(held) = Capacity[env])
    BY <1>1, <2>2 DEF SleepInv, DrainedInv, Quiet
  <2> QED  BY <1>4, <2>2, <2>3
<1>6. CASE Arm \/ ArmFails \/ Tick \/ UNCHANGED vars
  <2>1. /\ loop \in {"arm", "wait"}
        /\ UNCHANGED <<env, posting, wakes, queue, held, stopping, ending>>
    BY <1>6 DEF Arm, ArmFails, Ends, Tick, vars, Again
  <2>2. ~stopping /\ AllLive /\ (queue = <<>> \/ Len(held) = Capacity[env])
    BY <1>1, <2>1 DEF SleepInv, AsleepInv, Quiet
  <2> QED  BY <1>4, <2>1, <2>2
<1> QED  BY <1>2, <1>3, <1>5, <1>6 DEF Next, Thread, Wakes
-----------------------------------------------------------------------------
(* The Delay timer signals no later than it is armed for, and that is no later*)
(* than the next deadline of a thread that waits.                             *)
TimerInv ==
    /\ armed # None => signal # None /\ signal <= armed
    /\ loop = "wait" /\ ending = "none" /\ Nearest # None => armed # None /\ armed <= Nearest

NearestRight ==
    /\ Deadlines \subseteq Time
    /\ Deadlines = {} => Nearest = None
    /\ Deadlines # {} => /\ Nearest \in Deadlines /\ Nearest \in Time /\ Nearest # None
                         /\ \A at \in Deadlines : Nearest <= at

(* (NearestIs, for the next state too.)                                       *)
LEMMA NearestFact == TypeOK => NearestRight
BY NearestIs DEF TypeOK, NearestRight

(* The timer signals in time for what it was armed for,                       *)
LEMMA SignalKept ==
    TypeInv /\ TimerInv /\ [Next]_vars =>
        (armed' # None => signal' # None /\ signal' <= armed')
<1> SUFFICES ASSUME TypeInv, TimerInv, [Next]_vars, armed' # None
             PROVE  signal' # None /\ signal' <= armed'
  OBVIOUS
<1>1. /\ armed \in Time \cup {None} /\ signal \in Time \cup {None} /\ None \notin Time
      /\ armed # None => signal # None /\ signal <= armed
  BY ExecutorAssumption DEF TypeInv, TypeOK, TimerInv, Time
<1>2. CASE UNCHANGED <<armed, signal>>
  BY <1>1, <1>2
<1>3. CASE Arm /\ Nearest \notin {None, 0} /\ armed' = Nearest
           /\ signal' = (IF armed = Nearest THEN signal ELSE Nearest)
  <2>1. Nearest \in Time
    BY <1>3, NearestFact DEF NearestRight, TypeInv
  <2> QED  BY <1>1, <1>3, <2>1 DEF Time
<1>4. CASE Tick
  <2>1. armed' = Sooner(armed) /\ signal' = Sooner(signal)
    BY <1>4 DEF Tick
  <2>2. armed \in Time /\ signal \in Time /\ signal <= armed
    BY <1>1, <2>1 DEF Sooner
  <2>3. Sooner(signal) \in Time /\ Sooner(signal) <= Sooner(armed)
    BY <2>2, SoonerIs
  <2> QED  BY <1>1, <2>1, <2>3
<1>5. CASE Poll
  <2>1. UNCHANGED <<armed, signal>>
    BY <1>5 DEF Poll, PollBegins, NotDue, RunEnds, RunCalls, RunDelays, PasteBehind, PasteTries,
                HeldBegins, PollEnds
  <2> QED  BY <1>2, <2>1
<1>6. CASE Arm
  BY <1>3, <1>6 DEF Arm, CancelTimer
<1>7. CASE ArmFails \/ TimerWakes \/ Close \/ WaitFails
  <2>1. armed' = None \/ UNCHANGED <<armed, signal>>
    BY <1>7 DEF ArmFails, TimerWakes, Close, WaitFails, Ends
  <2> QED  BY <1>2, <2>1
<1>8. CASE Submit \/ Cancel \/ Stop \/ PostWake \/ CallReturns \/ TakeJob \/ DrainEnds \/ StopSeen
           \/ WakeTaken \/ ForeignMessage \/ QuitTaken \/ UNCHANGED vars
  <2>1. UNCHANGED <<armed, signal>>
    BY <1>8 DEF Submit, Cancel, Stop, CancelPending, PostWake, CallReturns, TakeJob, DrainEnds,
                StopSeen, WakeTaken, ForeignMessage, QuitTaken, vars
  <2> QED  BY <1>2, <2>1
<1> QED  BY <1>4, <1>5, <1>6, <1>7, <1>8 DEF Next, Thread

(* and is armed in time for the next deadline.                                *)
LEMMA ArmedKept ==
    TypeInv /\ TimerInv /\ [Next]_vars =>
        (loop' = "wait" /\ ending' = "none" /\ Nearest' # None =>
            armed' # None /\ armed' <= Nearest')
<1> SUFFICES ASSUME TypeInv, TimerInv, [Next]_vars,
                    loop' = "wait", ending' = "none", Nearest' # None
             PROVE  armed' # None /\ armed' <= Nearest'
  OBVIOUS
<1>1. /\ armed \in Time \cup {None} /\ None \notin Time /\ TypeOK /\ active \in Seq(Run)
      /\ DOMAIN active = 1 .. Len(active) /\ Len(active) \in Nat
      /\ \A i \in DOMAIN active : active[i] \in Run
  BY ExecutorAssumption, LenProperties, ElementOfSeq DEF TypeInv, TypeOK, Time
<1>2. /\ TypeOK' /\ Deadlines' \subseteq Time /\ Nearest' \in Deadlines' /\ Nearest' \in Time
  <2>1. TypeInv'
    BY TypeStep
  <2>2. TypeOK'
    BY <2>1 DEF TypeInv
  <2>3. NearestRight'
    BY <2>2, NearestFact, PTL
  <2> QED  BY <2>2, <2>3 DEF NearestRight, Time
<1>3. ASSUME loop = "wait", ending = "none", Deadlines' \subseteq Deadlines, armed' = armed
      PROVE  armed' # None /\ armed' <= Nearest'
  <2>1. /\ Nearest' \in Deadlines /\ Nearest # None /\ Nearest \in Time /\ Nearest <= Nearest'
    BY <1>1, <1>2, <1>3, NearestFact DEF NearestRight
  <2>2. armed \in Time /\ armed <= Nearest
    BY <1>1, <1>3, <2>1 DEF TimerInv
  <2> QED  BY <1>1, <1>2, <1>3, <2>1, <2>2 DEF Time
<1>4. CASE Submit \/ PostWake \/ UNCHANGED vars
  <2>1. UNCHANGED <<loop, ending, armed, active, restore>>
    BY <1>4 DEF Submit, PostWake, vars
  <2>2. Deadlines' = Deadlines
    BY <2>1 DEF Deadlines
  <2> QED  BY <1>3, <2>1, <2>2
<1>5. CASE Cancel \/ Stop
  <2>1. CancelPending
    BY <1>5 DEF Cancel, Stop
  <2>2. /\ UNCHANGED <<loop, ending, armed, restore>> /\ DOMAIN active' = DOMAIN active
        /\ \A i \in DOMAIN active : active'[i].resume = active[i].resume
    BY <1>1, <2>1 DEF CancelPending, Cancelled, Run
  <2>3. {active'[i].resume : i \in DOMAIN active'} = {active[i].resume : i \in DOMAIN active}
    BY <2>2
  <2>4. Deadlines' = Deadlines
    BY <2>2, <2>3 DEF Deadlines
  <2> QED  BY <1>3, <2>2, <2>4
<1>6. CASE TakeJob \/ DrainEnds \/ StopSeen \/ CallReturns \/ Close \/ WaitFails \/ Wakes
  <2>1. CASE Wakes
    <3>1. loop' \in {"drain", "close"}
      BY <2>1 DEF Wakes, TimerWakes, WakeTaken, ForeignMessage, QuitTaken, Again
    <3> QED  BY <3>1
  <2>2. CASE CallReturns
    BY <2>2 DEF CallReturns, TypeInv, PlaceInv
  <2>3. CASE Close
    BY <2>3 DEF Close, Ends
  <2> QED  BY <1>6, <2>1, <2>2, <2>3 DEF TakeJob, DrainEnds, StopSeen, WaitFails, Ends
<1>7. CASE Poll
  <2>1. loop' # "wait"
    BY <1>7 DEF Poll, PollBegins, NotDue, RunEnds, RunCalls, RunDelays, PasteBehind, PasteTries,
                HeldBegins, PollEnds, AtStep, DueNow, Advancing
  <2> QED  BY <2>1
<1>8. CASE Arm
  <2>1. UNCHANGED <<active, ending, restore>>
    BY <1>8 DEF Arm
  <2>2. Nearest' = Nearest
    BY <2>1 DEF Nearest, Deadlines
  <2>3. armed' = Nearest
    BY <1>8, <2>2 DEF Arm, Again
  <2> QED  BY <1>1, <1>2, <2>2, <2>3 DEF Time
<1>9. CASE ArmFails
  <2>1. /\ active' \in Only(active, {i \in DOMAIN active : active[i].resume = None})
        /\ restore' = None
    BY <1>9 DEF ArmFails, Ends
  <2> DEFINE places == {i \in DOMAIN active : active[i].resume = None}
  <2>2. \A i \in DOMAIN active' : \E j \in places : active'[i] = active[j]
    <3>1. places \in SUBSET DOMAIN active /\ active' \in Only(active, places)
      BY <2>1
    <3> HIDE DEF places
    <3> QED  BY <1>1, <3>1, OnlyType
  <2>3. \A i \in DOMAIN active' : active'[i].resume = None
    BY <2>2
  <2>4. Deadlines' = {}
    BY <2>1, <2>3 DEF Deadlines
  <2> QED  BY <1>2, <2>4
<1>10. CASE Tick
  <2>1. /\ UNCHANGED <<loop, ending>> /\ armed' = Sooner(armed) /\ DOMAIN active' = DOMAIN active
        /\ restore' = IF restore = None THEN None ELSE [restore EXCEPT !.at = Sooner(@)]
        /\ \A i \in DOMAIN active : active'[i].resume = Sooner(active[i].resume)
    BY <1>1, <1>10, TickedRuns DEF Tick
  <2>2. PICK at \in Deadlines : Nearest' = Sooner(at)
    <3>1. CASE restore' # None /\ Nearest' = restore'.at
      <4>1. restore # None /\ restore \in Restore
        BY <1>1, <2>1, <3>1 DEF TypeOK
      <4>2. restore.at \in Deadlines /\ restore'.at = Sooner(restore.at)
        BY <2>1, <4>1 DEF Deadlines, Restore
      <4> QED  BY <3>1, <4>2
    <3>2. CASE \E i \in DOMAIN active' : Nearest' = active'[i].resume
      <4>1. PICK i \in DOMAIN active : Nearest' = Sooner(active[i].resume)
        BY <2>1, <3>2
      <4>2. active[i].resume # None
        BY <4>1 DEF Sooner
      <4> QED  BY <2>1, <4>1, <4>2 DEF Deadlines
    <3>3. Nearest' \in (IF restore' = None THEN {} ELSE {restore'.at})
                       \cup ({active'[i].resume : i \in DOMAIN active'} \ {None})
      BY <1>2 DEF Deadlines
    <3> QED  BY <3>1, <3>2, <3>3
  <2>3. /\ at \in Time /\ Nearest # None /\ Nearest \in Time /\ Nearest <= at
    BY <1>1, <2>2, NearestFact DEF NearestRight
  <2>4. armed \in Time /\ armed <= at
    <3>1. armed \in Time /\ armed <= Nearest
      BY <1>1, <2>1, <2>3 DEF TimerInv
    <3> QED  BY <2>3, <3>1 DEF Time
  <2>5. Sooner(armed) \in Time /\ Sooner(armed) <= Sooner(at)
    BY <2>3, <2>4, SoonerIs
  <2> QED  BY <1>1, <2>1, <2>2, <2>5
<1> QED
  BY <1>4, <1>5, <1>6, <1>7, <1>8, <1>9, <1>10 DEF Next, Thread, Wakes

(* While the thread waits with nothing to wake it, no work that it could do is*)
(* left: a job waits for a paste only, the timer signals no later than the    *)
(* next deadline, and all that was cancelled has gone.  It is so wherever the *)
(* Delay timer can be set if Pastes are fired, and nothing is cancelled while *)
(* a paste holds back more than the queue has places for (run_loop, arm_timer,*)
(* Runs::poll).                                                               *)
THEOREM SleepsOnNothing == ASSUME TimerApart, CrowdApart PROVE Spec => []NoneForgotten
<1> DEFINE WaitInv == TypeInv /\ PasteInv /\ HeldInv /\ LiveInv /\ SleepInv /\ TimerInv
<1>1. Init => WaitInv
  BY InitTypes, PasteFirst, HeldFirst, LiveFirst, RoomFirst
  DEF Init, SleepInv, DrainedInv, AsleepInv, TimerInv
<1>2. WaitInv /\ [Next]_vars => WaitInv'
  <2>1. WaitInv /\ [Next]_vars => TypeInv' /\ PasteInv' /\ HeldInv' /\ LiveInv'
    BY TypeStep, PasteKept, HeldKept, LiveKept
  <2>2. WaitInv /\ [Next]_vars => SleepInv'
    <3>1. WaitInv /\ [Next]_vars => RoomInv' /\ DrainedInv' /\ AsleepInv'
      BY RoomKept, DrainedKept, AsleepKept DEF SleepInv
    <3> QED  BY <3>1 DEF SleepInv
  <2>3. WaitInv /\ [Next]_vars => TimerInv'
    <3>1. ASSUME WaitInv, [Next]_vars
          PROVE  /\ armed' # None => signal' # None /\ signal' <= armed'
                 /\ loop' = "wait" /\ ending' = "none" /\ Nearest' # None =>
                       armed' # None /\ armed' <= Nearest'
      BY <3>1, SignalKept, ArmedKept
    <3> QED  BY <3>1 DEF TimerInv
  <2> QED  BY <2>1, <2>2, <2>3
<1>3. WaitInv => NoneForgotten
  <2> SUFFICES ASSUME WaitInv, Asleep
               PROVE  /\ queue # <<>> \/ held # <<>> => AttemptWaits
                      /\ Nearest # None => signal # None /\ signal <= Nearest
                      /\ \A work \in Work : work.live
    BY DEF NoneForgotten, NothingForgotten, TypeInv
  <2>1. loop = "wait" /\ ending = "none" /\ Quiet /\ Waiting
    BY DEF Asleep, Quiet, Waiting
  <2>2. AllLive /\ (queue = <<>> \/ Len(held) = Capacity[env])
    BY <2>1 DEF SleepInv, AsleepInv
  <2>3. held = <<>> => queue = <<>>
    <3>1. Capacity[env] \in Nat \ {0} /\ Len(<<>>) = 0
      BY EmptySeq, ExecutorAssumption DEF TypeInv, TypeOK
    <3> QED  BY <2>2, <3>1
  <2>4. held # <<>> => AttemptWaits
    BY <2>1 DEF HeldInv
  <2>5. ASSUME Nearest # None PROVE signal # None /\ signal <= Nearest
    <3>1. /\ Nearest \in Time /\ armed # None /\ armed <= Nearest
          /\ signal # None /\ signal <= armed
      BY <2>1, <2>5, NearestFact DEF NearestRight, TimerInv, TypeInv
    <3>2. armed \in Time /\ signal \in Time
      BY <3>1 DEF TypeInv, TypeOK
    <3> QED  BY <3>1, <3>2 DEF Time
  <2> QED  BY <2>2, <2>3, <2>4, <2>5 DEF AllLive
<1> QED
  <2> HIDE DEF WaitInv
  <2> QED  BY <1>1, <1>2, <1>3, PTL DEF Spec
=============================================================================
