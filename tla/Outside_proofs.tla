---------------------------- MODULE Outside_proofs ----------------------------
(* Proofs about what the daemon shares with other programs: the clipboard     *)
(* (Paste) and the foreground window (Foreground).  The two do not touch.     *)
EXTENDS Paste, SequenceTheorems, WellFoundedInduction, TLAPS

(* The foreground window.                                                     *)
CONSTANTS Hwnd, Process, Own, MaxShifts
VARIABLES phase, enabled, here, front, owner, events, signals, cache, shifts, unnamed, untold

Fore == INSTANCE Foreground WITH Handle <- Hwnd, MaxMoves <- MaxShifts, moves <- shifts
-----------------------------------------------------------------------------
(* A set of numbers with one has a least one.                                 *)
LEMMA LeastNumber ==
    ASSUME NEW T, T \subseteq Nat, T # {}
    PROVE  \E n \in T : \A m \in T : n <= m
<1>1. PICK x \in T : \A y \in T : ~ (<<y, x>> \in OpToRel(<, Nat))
  BY NatLessThanWellFounded, WFMin
<1>2. ASSUME NEW y \in T PROVE x <= y
  <2>1. y \in Nat /\ x \in Nat
    OBVIOUS
  <2>2. y < x => <<y, x>> \in OpToRel(<, Nat)
    BY <2>1 DEF OpToRel
  <2>3. ~(y < x)
    BY <1>1, <2>2
  <2> QED BY <2>1, <2>3
<1> QED BY <1>2

(* What holds at 0 and is handed on by each step holds up to the end.         *)
LEMMA StepByStep ==
    ASSUME NEW n \in Nat, NEW T, 0 \in T, \A i \in 1 .. n : i - 1 \in T => i \in T
    PROVE  \A i \in 0 .. n : i \in T
<1> DEFINE Out == {i \in 0 .. n : i \notin T}
<1>1. ASSUME Out # {} PROVE FALSE
  <2>1. Out \subseteq Nat
    OBVIOUS
  <2>2. PICK i \in Out : \A j \in Out : i <= j
    <3> HIDE DEF Out
    <3> QED BY <1>1, <2>1, LeastNumber
  <2>3. i \in 1 .. n /\ i - 1 \in 0 .. n /\ i \notin T
    OBVIOUS
  <2>4. i - 1 \notin Out
    <3> HIDE DEF Out
    <3> QED BY <2>2, <2>3
  <2> QED BY <2>3, <2>4
<1> QED BY <1>1


(* The elements of a list with one more.                                      *)
LEMMA ElementsAppended ==
    ASSUME NEW S, NEW s \in Seq(S), NEW e \in S
    PROVE  ToSet(Append(s, e)) = ToSet(s) \cup {e}
<1>1. /\ Len(Append(s, e)) = Len(s) + 1 /\ Append(s, e)[Len(s) + 1] = e
      /\ \A i \in 1 .. Len(s) : Append(s, e)[i] = s[i]
  BY AppendProperties
<1>2. Append(s, e) \in Seq(S) /\ Len(s) \in Nat
  BY AppendProperties
<1>3. DOMAIN Append(s, e) = 1 .. Len(s) + 1 /\ DOMAIN s = 1 .. Len(s)
  BY <1>1, <1>2
<1>4. 1 .. Len(s) + 1 = (1 .. Len(s)) \cup {Len(s) + 1}
  BY <1>2
<1> QED BY <1>1, <1>3, <1>4 DEF ToSet

(* What Only has after each format of the list.                               *)
TakeOne(f, set, s, i) == IF f[i] \in set THEN Append(s, f[i]) ELSE s

Taken(f, set, h) ==
    h[0] = <<>> /\ \A i \in 1 .. Len(f) : h[i] = TakeOne(f, set, h[i - 1], i)

(* Only is the last value of a function that takes one format after another.  *)
LEMMA OnlyUnfolds ==
    ASSUME NEW n \in Nat, NEW f, Len(f) = n, NEW set
    PROVE  \E h : Taken(f, set, h) /\ Only(f, set) = h[n]
<1> DEFINE Rule(h, m) ==
      h = [i \in 0 .. m |-> IF i = 0 THEN <<>> ELSE TakeOne(f, set, h[i - 1], i)]
    Reached == {m \in 0 .. n : \E h : Rule(h, m)}
<1>1. 0 \in Reached
  <2> DEFINE h == [i \in 0 .. 0 |-> <<>>]
  <2>1. Rule(h, 0)
    OBVIOUS
  <2> HIDE DEF Rule, h
  <2> QED BY <2>1
<1>2. ASSUME NEW m \in 1 .. n, m - 1 \in Reached PROVE m \in Reached
  <2>1. PICK g : Rule(g, m - 1)
    BY <1>2
  <2> DEFINE h == [i \in 0 .. m |-> IF i = m THEN TakeOne(f, set, g[m - 1], m) ELSE g[i]]
  <2>2. \A i \in 0 .. m : h[i] = IF i = 0 THEN <<>> ELSE TakeOne(f, set, h[i - 1], i)
    <3>1. \A i \in 0 .. m - 1 : h[i] = g[i]
      OBVIOUS
    <3>2. \A i \in 0 .. m - 1 : g[i] = IF i = 0 THEN <<>> ELSE TakeOne(f, set, g[i - 1], i)
      BY <2>1
    <3>3. h[m] = TakeOne(f, set, g[m - 1], m)
      OBVIOUS
    <3>4. m # 0 /\ \A i \in 0 .. m : i = m \/ i \in 0 .. m - 1
      OBVIOUS
    <3>5. \A i \in 0 .. m : i # 0 => i - 1 \in 0 .. m - 1
      OBVIOUS
    <3> HIDE DEF h
    <3> QED BY <3>1, <3>2, <3>3, <3>4, <3>5
  <2>3. Rule(h, m)
    <3>1. h = [i \in 0 .. m |-> h[i]]
      OBVIOUS
    <3> HIDE DEF h
    <3> QED BY <2>2, <3>1
  <2> HIDE DEF Rule, h
  <2> QED BY <2>3
<1>3. n \in Reached
  <2> HIDE DEF Reached
  <2> QED BY <1>1, <1>2, StepByStep
<1> DEFINE c == CHOOSE h : Rule(h, n)
<1>4. Rule(c, n)
  <2>1. \E h : Rule(h, n)
    BY <1>3
  <2> HIDE DEF Rule
  <2> QED BY <2>1
<1>5. Only(f, set) = c[n]
  <2> USE Len(f) = n
  <2> QED BY Zenon DEF Only, TakeOne
<1>6. Taken(f, set, c)
  <2> HIDE DEF c
  <2> QED BY <1>4 DEF Taken
<1> HIDE DEF c
<1> QED BY <1>5, <1>6

(* It has the formats of the list that are in the set, and no other.          *)
LEMMA OnlyElements ==
    ASSUME NEW f \in Seq(Format), NEW set
    PROVE  Only(f, set) \in Seq(Format) /\ ToSet(Only(f, set)) = ToSet(f) \cap set
<1>0. PICK n \in Nat : n = Len(f)
  OBVIOUS
<1>1. PICK h : Taken(f, set, h) /\ Only(f, set) = h[n]
  BY <1>0, OnlyUnfolds
<1> DEFINE Upto(i) == {f[j] : j \in 1 .. i}
    T == {i \in 0 .. n : h[i] \in Seq(Format) /\ ToSet(h[i]) = Upto(i) \cap set}
<1>2. 0 \in T
  <2>1. h[0] \in Seq(Format) /\ h[0] = <<>> /\ Upto(0) = {}
    BY <1>1, EmptySeq DEF Taken
  <2>2. ToSet(<<>>) = {}
    BY EmptySeq DEF ToSet
  <2>3. ToSet(h[0]) = Upto(0) \cap set
    BY <2>1, <2>2
  <2>4. 0 \in 0 .. n
    OBVIOUS
  <2> HIDE DEF Upto
  <2> QED BY <2>1, <2>3, <2>4
<1>3. ASSUME NEW i \in 1 .. n, i - 1 \in T PROVE i \in T
  <2>1. f[i] \in Format /\ Upto(i) = Upto(i - 1) \cup {f[i]}
    BY <1>0
  <2>2. h[i] = IF f[i] \in set THEN Append(h[i - 1], f[i]) ELSE h[i - 1]
    BY <1>0, <1>1 DEF Taken, TakeOne
  <2>3. h[i - 1] \in Seq(Format) /\ ToSet(h[i - 1]) = Upto(i - 1) \cap set
    BY <1>3
  <2>4. ToSet(Append(h[i - 1], f[i])) = ToSet(h[i - 1]) \cup {f[i]}
    BY <2>1, <2>3, ElementsAppended
  <2>5. h[i] \in Seq(Format)
    BY <2>1, <2>2, <2>3, AppendProperties
  <2> HIDE DEF Upto
  <2>6. ToSet(h[i]) = Upto(i) \cap set
    BY <2>1, <2>2, <2>3, <2>4
  <2> QED BY <2>5, <2>6
<1>4. n \in T
  <2> HIDE DEF T
  <2>1. \A i \in 0 .. n : i \in T
    BY <1>2, <1>3, StepByStep
  <2> QED BY <2>1
<1>5. Upto(n) = ToSet(f)
  BY <1>0 DEF ToSet
<1> QED BY <1>1, <1>4, <1>5

(* Sets that agree on the list take the same.                                 *)
LEMMA OnlySame ==
    ASSUME NEW f \in Seq(Format), NEW A, NEW B, \A x \in ToSet(f) : x \in A <=> x \in B
    PROVE  Only(f, A) = Only(f, B)
<1>0. PICK n \in Nat : n = Len(f)
  OBVIOUS
<1>1. PICK a : Taken(f, A, a) /\ Only(f, A) = a[n]
  BY <1>0, OnlyUnfolds
<1>2. PICK b : Taken(f, B, b) /\ Only(f, B) = b[n]
  BY <1>0, OnlyUnfolds
<1> DEFINE T == {i \in 0 .. n : a[i] = b[i]}
<1>3. 0 \in T
  BY <1>1, <1>2 DEF Taken
<1>4. ASSUME NEW i \in 1 .. n, i - 1 \in T PROVE i \in T
  <2>1. f[i] \in A <=> f[i] \in B
    BY <1>0 DEF ToSet
  <2> QED BY <1>0, <1>1, <1>2, <1>4, <2>1 DEF Taken, TakeOne
<1>5. n \in T
  <2> HIDE DEF T
  <2>1. \A i \in 0 .. n : i \in T
    BY <1>3, <1>4, StepByStep
  <2> QED BY <2>1
<1> QED BY <1>1, <1>2, <1>5

(* Of two lists, of which nothing of the second is in the set.                *)
LEMMA OnlyFirst ==
    ASSUME NEW f \in Seq(Format), NEW g \in Seq(Format), NEW A, ToSet(g) \cap A = {}
    PROVE  Only(f \o g, A) = Only(f, A)
<1>0. PICK n \in Nat, m \in Nat : n = Len(f) /\ m = Len(g)
  OBVIOUS
<1>1. PICK a : Taken(f, A, a) /\ Only(f, A) = a[n]
  BY <1>0, OnlyUnfolds
<1>2. PICK fg \in Seq(Format), l \in Nat : fg = f \o g /\ Len(fg) = l /\ l = n + m
  <2>1. f \o g \in Seq(Format) /\ Len(f \o g) = n + m /\ n + m \in Nat
    BY <1>0, ConcatProperties
  <2> QED BY <2>1
<1>a. Len(fg) = l
  BY <1>2
<1>b. l = n + m
  BY <1>2
<1>3. PICK b : Taken(fg, A, b) /\ Only(fg, A) = b[l]
  BY <1>a, OnlyUnfolds
<1>4. \A i \in 1 .. n : fg[i] = f[i]
  BY <1>0, <1>2, ConcatProperties
<1>5. \A i \in n + 1 .. l : fg[i] \notin A
  <2>1. SUFFICES ASSUME NEW i \in n + 1 .. l PROVE fg[i] \notin A
    OBVIOUS
  <2>2. fg[i] = g[i - n] /\ i - n \in DOMAIN g
    BY <1>0, <1>2, ConcatProperties
  <2> QED BY <2>2 DEF ToSet
<1>6. a[0] = b[0] /\ \A i \in 1 .. n : a[i] = TakeOne(f, A, a[i - 1], i)
  BY <1>0, <1>1, <1>3 DEF Taken
<1>7. \A i \in 1 .. l : b[i] = TakeOne(fg, A, b[i - 1], i)
  BY <1>a, <1>3 DEF Taken
<1>8. \A i \in 1 .. n : b[i] = TakeOne(f, A, b[i - 1], i)
  BY <1>b, <1>4, <1>7 DEF TakeOne
<1>9. \A i \in n + 1 .. l : b[i] = b[i - 1]
  BY <1>b, <1>5, <1>7 DEF TakeOne
<1>10. b[n] = a[n]
  <2> DEFINE T == {i \in 0 .. n : b[i] = a[i]}
  <2>1. 0 \in T
    BY <1>6
  <2>2. ASSUME NEW i \in 1 .. n, i - 1 \in T PROVE i \in T
    BY <1>6, <1>8, <2>2
  <2> HIDE DEF T
  <2>3. \A i \in 0 .. n : i \in T
    BY <2>1, <2>2, StepByStep
  <2> QED BY <2>3 DEF T
<1>11. b[l] = b[n]
  <2> DEFINE T == {i \in 0 .. m : b[n + i] = b[n]}
  <2>1. 0 \in T
    OBVIOUS
  <2>2. ASSUME NEW i \in 1 .. m, i - 1 \in T PROVE i \in T
    <3>1. n + i \in n + 1 .. l /\ (n + i) - 1 = n + (i - 1)
      BY <1>b
    <3> QED BY <1>9, <2>2, <3>1
  <2> HIDE DEF T
  <2>3. \A i \in 0 .. m : i \in T
    BY <2>1, <2>2, StepByStep
  <2>4. m \in T
    BY <2>3
  <2> QED BY <1>b, <2>4 DEF T
<1> QED BY <1>1, <1>2, <1>3, <1>10, <1>11

(* Of a list with one more.                                                   *)
LEMMA OnlyAppended ==
    ASSUME NEW s \in Seq(Format), NEW e \in Format, NEW A
    PROVE  Only(Append(s, e), A) = IF e \in A THEN Append(Only(s, A), e) ELSE Only(s, A)
<1>0. PICK n \in Nat : n = Len(s)
  OBVIOUS
<1>1. PICK a : Taken(s, A, a) /\ Only(s, A) = a[n]
  BY <1>0, OnlyUnfolds
<1>2. PICK t \in Seq(Format) :
         t = Append(s, e) /\ Len(t) = n + 1 /\ t[n + 1] = e /\ \A i \in 1 .. n : t[i] = s[i]
  <2>1. /\ Append(s, e) \in Seq(Format) /\ Len(Append(s, e)) = n + 1
        /\ Append(s, e)[n + 1] = e /\ \A i \in 1 .. n : Append(s, e)[i] = s[i]
    BY <1>0, AppendProperties
  <2> QED BY <2>1
<1>a. n + 1 \in Nat /\ Len(t) = n + 1
  BY <1>2
<1>3. PICK b : Taken(t, A, b) /\ Only(t, A) = b[n + 1]
  BY <1>a, OnlyUnfolds
<1>4. a[0] = b[0] /\ \A i \in 1 .. n : a[i] = TakeOne(s, A, a[i - 1], i)
  BY <1>0, <1>1, <1>3 DEF Taken
<1>5. \A i \in 1 .. n + 1 : b[i] = TakeOne(t, A, b[i - 1], i)
  BY <1>a, <1>3 DEF Taken
<1>6. \A i \in 1 .. n : b[i] = TakeOne(s, A, b[i - 1], i)
  <2>1. \A i \in 1 .. n : t[i] = s[i]
    BY <1>2
  <2>2. \A i \in 1 .. n : i \in 1 .. n + 1
    OBVIOUS
  <2> QED BY <1>5, <2>1, <2>2 DEF TakeOne
<1>7. b[n] = a[n]
  <2> DEFINE T == {i \in 0 .. n : b[i] = a[i]}
  <2>1. 0 \in T
    BY <1>4
  <2>2. ASSUME NEW i \in 1 .. n, i - 1 \in T PROVE i \in T
    BY <1>4, <1>6, <2>2
  <2> HIDE DEF T
  <2>3. \A i \in 0 .. n : i \in T
    BY <2>1, <2>2, StepByStep
  <2> QED BY <2>3 DEF T
<1>8. b[n + 1] = IF e \in A THEN Append(b[n], e) ELSE b[n]
  <2>1. t[n + 1] = e /\ n + 1 \in 1 .. n + 1 /\ (n + 1) - 1 = n
    BY <1>2
  <2> QED BY <1>5, <2>1 DEF TakeOne
<1> QED BY <1>1, <1>2, <1>3, <1>7, <1>8

(* What is in two sets, taken at once or in turn.                             *)
LEMMA OnlyTwice ==
    ASSUME NEW f \in Seq(Format), NEW A, NEW B
    PROVE  Only(Only(f, A), B) = Only(f, A \cap B)
<1>0. PICK n \in Nat : n = Len(f)
  OBVIOUS
<1>1. PICK a : Taken(f, A, a) /\ Only(f, A) = a[n]
  BY <1>0, OnlyUnfolds
<1>2. PICK c : Taken(f, A \cap B, c) /\ Only(f, A \cap B) = c[n]
  BY <1>0, OnlyUnfolds
<1>3. /\ a[0] = <<>> /\ c[0] = <<>>
      /\ \A i \in 1 .. n : a[i] = TakeOne(f, A, a[i - 1], i)
      /\ \A i \in 1 .. n : c[i] = TakeOne(f, A \cap B, c[i - 1], i)
  BY <1>0, <1>1, <1>2 DEF Taken
<1>4. \A i \in 1 .. n : f[i] \in Format
  BY <1>0
<1>5. Only(<<>>, B) = <<>> /\ <<>> \in Seq(Format)
  <2>1. <<>> \in Seq(Format) /\ Len(<<>>) = 0
    BY EmptySeq
  <2>2. PICK h : Taken(<<>>, B, h) /\ Only(<<>>, B) = h[0]
    BY <2>1, OnlyUnfolds
  <2> QED BY <2>1, <2>2 DEF Taken
<1> DEFINE T == {i \in 0 .. n : a[i] \in Seq(Format) /\ Only(a[i], B) = c[i]}
<1>6. 0 \in T
  <2>1. a[0] \in Seq(Format) /\ Only(a[0], B) = c[0]
    BY <1>3, <1>5
  <2>2. 0 \in 0 .. n
    OBVIOUS
  <2> QED BY <2>1, <2>2
<1>7. ASSUME NEW i \in 1 .. n, i - 1 \in T PROVE i \in T
  <2>1. /\ a[i - 1] \in Seq(Format) /\ Only(a[i - 1], B) = c[i - 1] /\ f[i] \in Format
        /\ a[i] = TakeOne(f, A, a[i - 1], i)
        /\ c[i] = TakeOne(f, A \cap B, c[i - 1], i)
    BY <1>3, <1>4, <1>7
  <2>2. CASE f[i] \in A
    <3>1. a[i] = Append(a[i - 1], f[i])
      BY <2>1, <2>2 DEF TakeOne
    <3>2. a[i] \in Seq(Format)
      BY <2>1, <3>1, AppendProperties
    <3>3. Only(a[i], B) = IF f[i] \in B THEN Append(c[i - 1], f[i]) ELSE c[i - 1]
      <4>1. PICK s \in Seq(Format), e \in Format : s = a[i - 1] /\ e = f[i]
        BY <2>1
      <4>2. Only(Append(s, e), B) = IF e \in B THEN Append(Only(s, B), e) ELSE Only(s, B)
        BY OnlyAppended
      <4> QED BY <2>1, <3>1, <4>1, <4>2
    <3>4. Only(a[i], B) = c[i]
      BY <2>1, <2>2, <3>3 DEF TakeOne
    <3> QED BY <3>2, <3>4
  <2>3. CASE f[i] \notin A
    <3>1. a[i] = a[i - 1] /\ c[i] = c[i - 1]
      BY <2>1, <2>3 DEF TakeOne
    <3> QED BY <2>1, <3>1
  <2> QED BY <2>2, <2>3
<1>8. n \in T
  <2> HIDE DEF T
  <2>1. \A i \in 0 .. n : i \in T
    BY <1>6, <1>7, StepByStep
  <2> QED BY <2>1
<1> QED BY <1>1, <1>2, <1>8

(* All of a list.                                                             *)
LEMMA OnlyAll ==
    ASSUME NEW f \in Seq(Format), NEW A, ToSet(f) \subseteq A
    PROVE  Only(f, A) = f
<1>0. PICK n \in Nat : n = Len(f)
  OBVIOUS
<1>1. PICK a : Taken(f, A, a) /\ Only(f, A) = a[n]
  BY <1>0, OnlyUnfolds
<1>2. a[0] = <<>> /\ \A i \in 1 .. n : a[i] = TakeOne(f, A, a[i - 1], i)
  BY <1>0, <1>1 DEF Taken
<1>3. \A i \in 1 .. n : f[i] \in Format /\ f[i] \in A
  BY <1>0 DEF ToSet
<1> DEFINE T == {i \in 0 .. n : /\ a[i] \in Seq(Format) /\ Len(a[i]) = i
                                /\ \A j \in 1 .. i : a[i][j] = f[j]}
<1>4. 0 \in T
  <2>1. a[0] \in Seq(Format) /\ Len(a[0]) = 0
    BY <1>2, EmptySeq
  <2>2. 0 \in 0 .. n /\ \A j \in 1 .. 0 : FALSE
    OBVIOUS
  <2> QED BY <2>1, <2>2
<1>5. ASSUME NEW i \in 1 .. n, i - 1 \in T PROVE i \in T
  <2>1. /\ a[i - 1] \in Seq(Format) /\ Len(a[i - 1]) = i - 1
        /\ \A j \in 1 .. i - 1 : a[i - 1][j] = f[j]
    BY <1>5
  <2>2. a[i] = Append(a[i - 1], f[i]) /\ f[i] \in Format
    BY <1>2, <1>3 DEF TakeOne
  <2>3. a[i] \in Seq(Format) /\ Len(a[i]) = i /\ a[i][i] = f[i]
    BY <2>1, <2>2, AppendProperties
  <2>4. \A j \in 1 .. i - 1 : a[i][j] = f[j]
    BY <2>1, <2>2, AppendProperties
  <2>5. \A j \in 1 .. i : j = i \/ j \in 1 .. i - 1
    OBVIOUS
  <2>6. \A j \in 1 .. i : a[i][j] = f[j]
    BY <2>3, <2>4, <2>5
  <2> QED BY <2>3, <2>6
<1>6. n \in T
  <2> HIDE DEF T
  <2>1. \A i \in 0 .. n : i \in T
    BY <1>4, <1>5, StepByStep
  <2> QED BY <2>1
<1>7. a[n] \in Seq(Format) /\ Len(a[n]) = Len(f) /\ \A j \in 1 .. Len(f) : a[n][j] = f[j]
  BY <1>0, <1>6
<1> QED BY <1>1, <1>7, SeqEqual
-----------------------------------------------------------------------------
(* Where the executor is in a paste.                                          *)
Phases ==
    /\ at \in {"advance", "open", "send"} => paste # None
    /\ at \in {"open", "send"} => paste.window # None
    /\ at = "open" /\ pending # None => pending.due \/ paste.wentAhead
    /\ at = "send" =>
         /\ pending # None /\ pending.target = None /\ ~pending.due
         /\ clipboard.of = -fired \/ clipboard = left
    /\ at \in {"idle", "advance", "open", "send", "restore", "arm"} => ending = None
    /\ at = "closing" => ending # None
    /\ at \in {"closing", "ending", "ended"} => "stop" \in env

(* The times of a restore that waits: how late it may be, and that it is never*)
(* early.  A due one is tried at once, and then again.                        *)
Timing ==
    /\ at \in {"idle", "arm"} /\ pending.due => pending.nextTry # None
    /\ pending.nextTry # None => pending.due /\ pending.retrySince # None
    /\ pending.retrySince # None =>
         /\ pending.nextTry # None
         /\ pending.restoreAt <= pending.retrySince /\ pending.retrySince <= pending.hardLimit
         /\ pending.nextTry <= pending.retrySince + RestoreLimit
         /\ ending = None => now <= pending.nextTry
    /\ pending.nextTry = None /\ ending = None => now <= pending.hardLimit
    /\ pending.due => pending.restoreAt <= now

(* A window that the daemon made owns the clipboard only from the paste it is *)
(* for; what was left under the window of the present one has a format that   *)
(* another program added to it.                                               *)
Owners ==
    /\ {clipboard.owner, left.owner} \subseteq {Other} \cup 1 .. made
    /\ window # None => window \notin {clipboard.owner, left.owner}
    /\ pending # None => "added" \notin pending.written
    /\ pending # None /\ left.owner = pending.window => "added" \in ToSet(left.formats)

(* What was saved is of what was left; and so is what was put back.           *)
Saved(formats) ==
    LET all == Kept(left.formats) IN
    IF IsPrivate(left.formats) THEN formats = <<>>
    ELSE /\ formats = all \/ "slow" \in env
         /\ formats = Only(all, ToSet(formats))
         /\ "text" \in ToSet(all) => "text" \in ToSet(formats)

Returned ==
    /\ clipboard.of = left.of
    /\ Saved(Kept(clipboard.formats))
    /\ IsPrivate(left.formats) => clipboard.formats = <<>>
    /\ ~IsPrivate(clipboard.formats)

Contained ==
    /\ registered = {"marks", "restored"}
    /\ pending # None => ToSet(pending.original.formats) \subseteq Copied
    /\ \/ clipboard = left
       \/ pending = None /\ Returned
       \/ /\ pending # None /\ StillOurs
          /\ pending.original.of = left.of /\ Saved(pending.original.formats)

(* A keystroke that is not handled: it is late, its paste gave up for the next*)
(* one, or its phrase waits for it.  A window that is not busy handles it     *)
(* before the restore.                                                        *)
Excused(u) ==
    \/ now >= u.sent + Max({u.delay, HungLimit})
    \/ fired > u.paste /\ now >= u.sent + ChainLimit
    \/ env \cap {"stop", "timer"} # {}

Awaited(u) ==
    /\ pending # None /\ ~pending.due /\ pending.target = u.window
    /\ clipboard.of = -u.paste \/ clipboard = left
    /\ pending.hardLimit = u.sent + Max({u.delay, HungLimit})
    /\ u.window \in busy => ~pending.settled
    /\ u.window \notin busy =>
         IF pending.seenBusy /\ ~pending.settled THEN u.by < now + Settle
         ELSE u.by < pending.restoreAt \/ pending.restoreAt = pending.hardLimit

Sending(u) ==
    /\ u.sent <= now /\ u.paste <= fired /\ u.window \notin gone
    /\ u.window \notin busy => now <= u.by
    /\ paste # None =>
         /\ u.paste < fired
         /\ paste.chainSince # None => u.sent <= paste.chainSince
         /\ paste.wentAhead => u.sent + ChainLimit <= now

Unread == \A u \in unread : Sending(u) /\ (Excused(u) \/ Awaited(u))

SessionInv == Owners /\ ("refuse" \notin env => Contained)

PasteInv ==
    /\ TypeOK /\ Phases
    /\ pending # None => Timing
    /\ SessionInv /\ Unread
(* What is in a list that was joined of two.                                  *)
LEMMA ElementsJoined ==
    ASSUME NEW s \in Seq(Format), NEW t \in Seq(Format)
    PROVE  ToSet(s \o t) \subseteq ToSet(s) \cup ToSet(t)
<1>1. PICK m \in Nat, n \in Nat : m = Len(s) /\ n = Len(t)
  OBVIOUS
<1>2. PICK j : j = s \o t
  OBVIOUS
<1>3. /\ Len(j) = m + n
      /\ \A i \in 1 .. m : j[i] = s[i]
      /\ \A i \in 1 .. n : j[m + i] = t[i]
  BY <1>1, <1>2, ConcatProperties
<1>4. \A i \in 1 .. m : s[i] \in ToSet(s)
  BY <1>1 DEF ToSet
<1>5. \A i \in 1 .. n : t[i] \in ToSet(t)
  BY <1>1 DEF ToSet
<1>6. \A i \in 1 .. m + n : j[i] \in ToSet(s) \cup ToSet(t)
  <2> SUFFICES ASSUME NEW i \in 1 .. m + n PROVE j[i] \in ToSet(s) \cup ToSet(t)
    OBVIOUS
  <2>1. CASE i <= m
    BY <1>3, <1>4, <2>1
  <2>2. CASE i > m
    <3>1. i - m \in 1 .. n /\ m + (i - m) = i
      BY <2>2
    <3>2. j[i] = t[i - m]
      BY <1>3, <3>1
    <3> QED BY <1>5, <3>1, <3>2
  <2> QED BY <2>1, <2>2
<1> QED BY <1>2, <1>3, <1>6 DEF ToSet

-----------------------------------------------------------------------------
(* The formats that are copied, also of the list with what Windows makes.     *)
LEMMA KeptElements ==
    ASSUME NEW f \in Seq(Format)
    PROVE  Kept(f) \in Seq(Format) /\ ToSet(Kept(f)) = ToSet(f) \cap Copied
BY OnlyElements DEF Kept

(* What Windows makes of a text is not copied.                                *)
LEMMA KeptOfEnumerated ==
    ASSUME NEW f \in Seq(Format)
    PROVE  /\ Enumerated(f) \in Seq(Format) /\ ToSet(f) \subseteq ToSet(Enumerated(f))
           /\ Kept(Enumerated(f)) = Kept(f)
<1>1. <<"ansi">> \in Seq(Format) /\ ToSet(<<"ansi">>) = {"ansi"}
  BY DEF Format, ToSet
<1>2. <<>> \in Seq(Format) /\ f \o <<>> = f
  BY EmptySeq, ConcatEmptySeq
<1>3. CASE "text" \in ToSet(f)
  <2>1. Enumerated(f) = f \o <<"ansi">>
    BY <1>3 DEF Enumerated
  <2>2. f \o <<"ansi">> \in Seq(Format) /\ ToSet(f) \subseteq ToSet(f \o <<"ansi">>)
    BY <1>1, ConcatProperties DEF ToSet
  <2>3. Only(f \o <<"ansi">>, Copied) = Only(f, Copied)
    BY <1>1, OnlyFirst DEF Copied
  <2> QED BY <2>1, <2>2, <2>3 DEF Kept
<1>4. CASE "text" \notin ToSet(f)
  BY <1>2, <1>4 DEF Enumerated
<1> QED BY <1>3, <1>4

(* The markers that go back are those that Windows registered.                *)
LEMMA MarkedElements ==
    ASSUME registered \in SUBSET {"marks", "restored"}
    PROVE  Marked \in Seq(Format) /\ ToSet(Marked) = registered
<1>1. <<"marks", "restored">> \in Seq(Format)
  BY DEF Format
<1>2. ToSet(<<"marks", "restored">>) = {"marks", "restored"}
  BY DEF ToSet
<1> QED BY <1>1, <1>2, OnlyElements DEF Marked

(* What is copied of what was left is saved.                                  *)
LEMMA SavedFirst ==
    ASSUME left.formats \in Seq(Format), ~IsPrivate(left.formats)
    PROVE  Saved(Kept(left.formats))
<1> DEFINE all == Kept(left.formats)
<1>1. all \in Seq(Format)
  BY KeptElements
<1>2. Only(all, ToSet(all)) = all
  <2> HIDE DEF all
  <2> QED BY <1>1, OnlyAll
<1> QED BY <1>2 DEF Saved

(* And so is what is copied of that once more.                                *)
LEMMA SavedAgain ==
    ASSUME left.formats \in Seq(Format), ~IsPrivate(left.formats),
           NEW f \in Seq(Format), Saved(Kept(f)), NEW reads \in Reads(Enumerated(f))
    PROVE  /\ SavedFormats(Enumerated(f), reads) \in Seq(Format)
           /\ ToSet(SavedFormats(Enumerated(f), reads)) \subseteq Copied
           /\ Saved(SavedFormats(Enumerated(f), reads))
<1>1. PICK all \in Seq(Format), some \in Seq(Format) :
         all = Kept(left.formats) /\ some = Kept(f)
  BY KeptElements
<1>2. /\ some = all \/ "slow" \in env
      /\ some = Only(all, ToSet(some))
      /\ "text" \in ToSet(all) => "text" \in ToSet(some)
  BY <1>1 DEF Saved
<1> DEFINE R == reads \cup {"text"}
<1>3. PICK new \in Seq(Format) :
         /\ new = SavedFormats(Enumerated(f), reads) /\ new = Only(some, R)
         /\ ToSet(new) = ToSet(some) \cap R
  <2>1. SavedFormats(Enumerated(f), reads) = Only(some, R)
    BY <1>1, KeptOfEnumerated DEF SavedFormats
  <2>2. Only(some, R) \in Seq(Format) /\ ToSet(Only(some, R)) = ToSet(some) \cap R
    BY OnlyElements
  <2> QED BY <2>1, <2>2
<1>4. ToSet(new) \subseteq Copied
  BY <1>1, <1>3, KeptElements
<1>5. ToSet(some) = ToSet(all) \cap ToSet(some)
  BY <1>2, OnlyElements
<1>6. new = Only(all, ToSet(some) \cap R)
  BY <1>2, <1>3, OnlyTwice
<1>7. Only(all, ToSet(new)) = Only(all, ToSet(some) \cap R)
  BY <1>3, OnlySame
<1>8. new = all \/ "slow" \in env
  <2> SUFFICES ASSUME "slow" \notin env PROVE new = all
    OBVIOUS
  <2>1. reads = ToSet(Enumerated(f))
    BY DEF Reads
  <2>2. ToSet(some) \subseteq R
    BY <1>1, <2>1, KeptElements, KeptOfEnumerated
  <2>3. new = some
    BY <1>3, <2>2, OnlyAll
  <2> QED BY <1>2, <2>3
<1>9. "text" \in ToSet(all) => "text" \in ToSet(new)
  BY <1>2, <1>3
<1> QED BY <1>1, <1>3, <1>4, <1>6, <1>7, <1>8, <1>9 DEF Saved

(* What goes back with the markers of the daemon's own copy has the formats   *)
(* that were saved, and will not be taken for private content.                *)
LEMMA PutBackKept ==
    ASSUME registered = {"marks", "restored"},
           NEW saved \in Seq(Format), ToSet(saved) \subseteq Copied, NEW c,
           c = IF saved = <<>> THEN <<>> ELSE saved \o Marked
    PROVE  c \in Seq(Format) /\ Kept(c) = saved /\ ~IsPrivate(c)
<1>1. Marked \in Seq(Format) /\ ToSet(Marked) = {"marks", "restored"}
  BY MarkedElements
<1>2. CASE saved = <<>>
  <2>1. c = <<>> /\ <<>> \in Seq(Format) /\ ToSet(<<>>) = {}
    BY <1>2, EmptySeq DEF ToSet
  <2>2. Only(<<>>, Copied) = <<>>
    BY <2>1, OnlyAll
  <2> QED BY <1>2, <2>1, <2>2 DEF Kept, IsPrivate
<1>3. CASE saved # <<>>
  <2>1. c = saved \o Marked
    BY <1>3
  <2>2. c \in Seq(Format) /\ ToSet(Marked) \subseteq ToSet(c)
    <3>1. PICK m \in Seq(Format) : m = Marked
      BY <1>1
    <3>2. PICK b \in Seq(Format) : b = saved \o m
      BY ConcatProperties
    <3>3. /\ Len(b) = Len(saved) + Len(m)
          /\ \A i \in 1 .. Len(m) : b[Len(saved) + i] = m[i]
      BY <3>2, ConcatProperties
    <3>4. \A i \in 1 .. Len(m) : Len(saved) + i \in 1 .. Len(b)
      BY <3>3
    <3>5. \A i \in 1 .. Len(m) : m[i] \in ToSet(b)
      <4>1. \A j \in 1 .. Len(b) : b[j] \in ToSet(b)
        BY DEF ToSet
      <4>2. SUFFICES ASSUME NEW i \in 1 .. Len(m) PROVE m[i] \in ToSet(b)
        OBVIOUS
      <4>3. PICK j \in 1 .. Len(b) : b[j] = m[i]
        BY <3>3, <3>4
      <4> QED BY <4>1, <4>3
    <3>6. ToSet(m) \subseteq ToSet(b)
      BY <3>5 DEF ToSet
    <3> QED BY <2>1, <3>1, <3>2, <3>6
  <2>3. Kept(c) = Only(saved, Copied)
    BY <1>1, <2>1, OnlyFirst DEF Kept, Copied
  <2>4. Only(saved, Copied) = saved
    BY OnlyAll
  <2>5. ~IsPrivate(c)
    BY <1>1, <2>2 DEF IsPrivate
  <2> QED BY <2>2, <2>3, <2>4, <2>5
<1> QED BY <1>2, <1>3
-----------------------------------------------------------------------------
(* What the assumptions say, in the form the steps below use.                 *)
LEMMA Apart ==
    /\ None \notin Nat /\ None \notin Window /\ Other \notin Nat /\ Other # None
    /\ \A p \in Pending : p # None
    /\ \A r \in Run \cup Ending : r # None
    /\ \A delay \in Delays : delay \in Nat /\ delay >= 1
    /\ Settle \in Nat /\ Settle >= 1
    /\ ChainLimit \in Nat /\ ModifierLimit \in Nat /\ HungLimit \in Nat /\ TargetRetry \in Nat
    /\ RestoreLimit \in Nat /\ ClosingLimit \in Nat
    /\ MaxPastes \in Nat /\ MaxMoves \in Nat /\ MaxTime \in Nat
BY PasteAssumption, NoneAssumption

(* The lesser and the greater of two times.                                   *)
LEMMA LeastOfTwo ==
    ASSUME NEW m \in Nat, NEW n \in Nat
    PROVE  Min({m, n}) \in {m, n} /\ Min({m, n}) <= m /\ Min({m, n}) <= n
<1>1. \E x \in {m, n} : \A y \in {m, n} : x <= y
  OBVIOUS
<1> QED BY <1>1 DEF Min

LEMMA GreatestOfTwo ==
    ASSUME NEW m \in Nat, NEW n \in Nat
    PROVE  Max({m, n}) \in {m, n} /\ Max({m, n}) >= m /\ Max({m, n}) >= n
<1>1. \E x \in {m, n} : \A y \in {m, n} : x >= y
  OBVIOUS
<1> QED BY <1>1 DEF Max

(* What the steps put in place is of its type.                                *)
LEMMA NewPendingType ==
    ASSUME TypeOK, NEW w \in Nat, NEW original \in Original
    PROVE  /\ NewPending(w, original) \in Pending
           /\ NewPending(w, original) # None
           /\ NewPending(w, original).window = w
           /\ NewPending(w, original).original = original
           /\ NewPending(w, original).written = {"text"} \cup (registered \ {"restored"})
           /\ NewPending(w, original).restoreAt = now
           /\ NewPending(w, original).hardLimit = now
           /\ NewPending(w, original).target = None
           /\ ~NewPending(w, original).seenBusy /\ ~NewPending(w, original).settled
           /\ ~NewPending(w, original).due
           /\ NewPending(w, original).retrySince = None
           /\ NewPending(w, original).nextTry = None
<1>1. now \in Nat /\ {"text"} \cup (registered \ {"restored"}) \in SUBSET Format
  BY Apart DEF TypeOK, Format
<1>2. NewPending(w, original) \in Pending
  BY <1>1 DEF NewPending, Pending
<1> QED BY <1>2, Apart DEF NewPending

LEMMA SaveType ==
    ASSUME TypeOK, NEW reads
    PROVE  Save(reads) \in Original /\ Save(reads).of = clipboard.of
<1>1. clipboard.formats \in Seq(Format) /\ clipboard.of \in Int
  BY DEF TypeOK, Contents
<1>2. Enumerated(clipboard.formats) \in Seq(Format)
  BY <1>1, KeptOfEnumerated
<1>3. SavedFormats(Enumerated(clipboard.formats), reads) \in Seq(Format)
  BY <1>2, KeptElements, OnlyElements DEF SavedFormats
<1>4. <<>> \in Seq(Format)
  BY EmptySeq
<1> QED BY <1>1, <1>3, <1>4 DEF Save, Original

LEMMA PhraseType ==
    ASSUME TypeOK, NEW p \in Pending
    PROVE  /\ Phrase(p) \in Contents /\ Phrase(p).owner = p.window /\ Phrase(p).of = -fired
<1>1. <<"text">> \in Seq(Format)
  BY DEF Format
<1>2. Only(Marked, {"marks"}) \in Seq(Format)
  BY MarkedElements, OnlyElements DEF TypeOK
<1>3. <<"text">> \o Only(Marked, {"marks"}) \in Seq(Format)
  BY <1>1, <1>2, ConcatProperties
<1>4. p.window \in Nat /\ -fired \in Int
  BY DEF Pending, TypeOK
<1> QED BY <1>3, <1>4 DEF Phrase, Content, Contents

LEMMA PutBackType ==
    ASSUME TypeOK, NEW p \in Pending, NEW present \in Contents, NEW c \in PutBack(p, present)
    PROVE  c \in Contents /\ c.owner \in {p.window, present.owner}
<1> DEFINE saved == p.original.formats
    back(formats) == Content(p.original.of, formats, p.window)
<1>1. p.window \in Nat /\ p.original.of \in Int /\ saved \in Seq(Format)
  BY DEF Pending, Original
<1>2. ASSUME NEW formats \in Seq(Format)
      PROVE  back(formats) \in Contents /\ back(formats).owner = p.window
  BY <1>1, <1>2 DEF Content, Contents
<1>3. <<>> \in Seq(Format) /\ saved \o Marked \in Seq(Format)
  BY <1>1, EmptySeq, MarkedElements, ConcatProperties DEF TypeOK
<1>4. c \in {back(IF saved = <<>> THEN <<>> ELSE saved \o Marked), present, back(<<>>)}
  BY DEF PutBack
<1> HIDE DEF back, saved
<1> QED BY <1>2, <1>3, <1>4
(* What another program copies is a list of formats.                          *)
LEMMA CopiesType ==
    ASSUME NEW formats \in Copies
    PROVE  formats \in Seq(Format)
<1>1. formats \in Seq(Format \ {"ansi", "restored", "added"})
  BY PasteAssumption
<1>2. PICK n \in Nat : n = Len(formats)
  BY <1>1, LenProperties
<1>3. formats = [i \in 1 .. n |-> formats[i]]
  BY <1>1, <1>2, LenProperties
<1>4. \A i \in 1 .. n : formats[i] \in Format
  BY <1>1, <1>2, ElementOfSeq
<1> QED BY <1>3, <1>4, IsASeq

-----------------------------------------------------------------------------
(* A session ends: its window is kept as the last one, and there is one for   *)
(* the next paste, a new one, or none.                                        *)
Ended ==
    /\ pending # None /\ pending' = None /\ lastWindow' = pending.window
    /\ registered' = registered
    /\ \/ window' = None /\ made' = made
       \/ window' = made + 1 /\ made' = made + 1

(* ... because its restore was done, or needed none, or was given up.         *)
Restored ==
    /\ Ended
    /\ \/ StillOurs /\ left' = left /\ clipboard' \in PutBack(pending, clipboard)
       \/ ~StillOurs /\ left' = left /\ clipboard' = clipboard
       \/ held /\ left' = clipboard /\ clipboard' = clipboard

(* The end of a session, by each of the ways the code has.                    *)
LEMMA SessionEnds ==
    ASSUME TypeOK, pending # None, NEW exit, EndSession(exit)
    PROVE  Ended
<1>1. window = None
  BY DEF TypeOK
<1> QED BY <1>1 DEF EndSession, MakeWindow, Ended

LEMMA RestoreEnds ==
    ASSUME TypeOK, pending # None, NEW exit, TryRestore(exit) \/ GivenUp(exit)
    PROVE  Restored
<1>1. Ended
  BY SessionEnds DEF TryRestore, GivenUp
<1>2. CASE TryRestore(exit)
  BY <1>1, <1>2 DEF TryRestore, Restored
<1>3. CASE GivenUp(exit)
  BY <1>1, <1>3 DEF GivenUp, Restored
<1> QED BY <1>2, <1>3

LEMMA LastTryEnds ==
    ASSUME TypeOK, NEW exit, LastTry(exit)
    PROVE  (pending = None /\ Untouched) \/ Restored
BY RestoreEnds DEF LastTry

(* The part of the type invariant about the sessions and the clipboard.       *)
SessionTypes ==
    /\ pending \in Pending \cup {None}
    /\ pending # None =>
         /\ window = None /\ pending.window \in 1 .. made
         /\ pending.restoreAt <= pending.hardLimit
         /\ pending.seenBusy \/ pending.settled => pending.target # None
    /\ made \in Nat /\ registered \in SUBSET {"marks", "restored"}
    /\ window \in {None} \cup 1 .. made /\ lastWindow \in {None} \cup 1 .. made
    /\ {clipboard, left} \subseteq Contents

(* A phrase on the clipboard is not what was left there.                      *)
LEMMA OursIsNotLeft ==
    ASSUME TypeOK, Owners, pending # None, StillOurs
    PROVE  clipboard # left
<1> SUFFICES ASSUME clipboard = left PROVE FALSE
  OBVIOUS
<1>1. "added" \in ToSet(clipboard.formats) /\ clipboard.formats \in Seq(Format)
  BY DEF StillOurs, Owners, TypeOK, Contents
<1>2. "added" \in ToSet(Enumerated(clipboard.formats))
  BY <1>1, KeptOfEnumerated
<1> QED BY <1>2 DEF StillOurs, Owners

(* What the restore puts back is what the user had.                           *)
LEMMA RestoredReturned ==
    ASSUME TypeOK, registered = {"marks", "restored"}, pending # None,
           ToSet(pending.original.formats) \subseteq Copied,
           pending.original.of = left.of, Saved(pending.original.formats),
           "refuse" \notin env, NEW present, NEW c \in PutBack(pending, present)
    PROVE  /\ c.of = left.of /\ Saved(Kept(c.formats))
           /\ IsPrivate(left.formats) => c.formats = <<>>
           /\ ~IsPrivate(c.formats)
<1>1. PICK saved \in Seq(Format) : saved = pending.original.formats
  BY DEF TypeOK, Pending, Original
<1>2. PICK b : b = IF saved = <<>> THEN <<>> ELSE saved \o Marked
  OBVIOUS
<1>3. c = Content(pending.original.of, b, pending.window)
  BY <1>1, <1>2 DEF PutBack
<1>4. c.of = left.of /\ c.formats = b
  BY <1>3 DEF Content
<1>5. b \in Seq(Format) /\ Kept(b) = saved /\ ~IsPrivate(b)
  BY <1>1, <1>2, PutBackKept
<1>6. IsPrivate(left.formats) => saved = <<>>
  BY <1>1 DEF Saved
<1> QED BY <1>1, <1>2, <1>4, <1>5, <1>6

(* Such an end keeps what is said of the sessions and the clipboard.          *)
LEMMA RestoredKeeps ==
    ASSUME TypeOK, SessionInv, Restored, env' = env
    PROVE  SessionTypes' /\ SessionInv'
<1>1. /\ pending \in Pending /\ pending.window \in 1 .. made /\ made \in Nat
      /\ clipboard \in Contents /\ left \in Contents
      /\ registered \in SUBSET {"marks", "restored"}
  BY DEF TypeOK, Restored, Ended
<1>2. /\ clipboard' \in Contents /\ left' \in Contents
      /\ clipboard'.owner \in {pending.window, clipboard.owner}
      /\ left'.owner \in {left.owner, clipboard.owner}
  <2>1. CASE clipboard' \in PutBack(pending, clipboard) /\ left' = left
    BY <1>1, <2>1, PutBackType
  <2>2. CASE clipboard' = clipboard /\ left' \in {left, clipboard}
    BY <1>1, <2>2
  <2> QED BY <2>1, <2>2 DEF Restored
<1>3. /\ pending' = None /\ made' \in Nat /\ made' >= made
      /\ window' = None \/ (window' = made + 1 /\ made' = made + 1)
      /\ lastWindow' \in 1 .. made' /\ registered' = registered
  BY <1>1 DEF Restored, Ended
<1>4. SessionTypes'
  BY <1>1, <1>2, <1>3 DEF SessionTypes
<1>5. Owners'
  <2>1. {clipboard'.owner, left'.owner} \subseteq {Other} \cup 1 .. made
    BY <1>1, <1>2 DEF SessionInv, Owners
  <2>2. window' # None => window' \notin {clipboard'.owner, left'.owner}
    BY <1>1, <1>3, <2>1, Apart
  <2>3. {clipboard'.owner, left'.owner} \subseteq {Other} \cup 1 .. made'
    BY <1>1, <1>3, <2>1
  <2> QED BY <1>3, <2>2, <2>3 DEF Owners
<1>6. ASSUME "refuse" \notin env PROVE Contained'
  <2>1. Contained
    BY <1>6 DEF SessionInv
  <2>2. CASE clipboard' = left'
    BY <1>3, <2>1, <2>2 DEF Contained
  <2>3. CASE clipboard' # left'
    <3>1. StillOurs /\ left' = left /\ clipboard' \in PutBack(pending, clipboard)
      <4>1. ~StillOurs => clipboard = left
        BY <2>1 DEF Contained, Restored, Ended
      <4> QED BY <2>3, <4>1 DEF Restored
    <3>2. clipboard # left
      BY <3>1, OursIsNotLeft DEF SessionInv, Restored, Ended
    <3>3. /\ registered = {"marks", "restored"}
          /\ ToSet(pending.original.formats) \subseteq Copied
          /\ pending.original.of = left.of /\ Saved(pending.original.formats)
      BY <2>1, <3>2 DEF Contained, Restored, Ended
    <3>4. /\ clipboard'.of = left.of /\ Saved(Kept(clipboard'.formats))
          /\ IsPrivate(left.formats) => clipboard'.formats = <<>>
          /\ ~IsPrivate(clipboard'.formats)
      BY <1>6, <3>1, <3>3, RestoredReturned DEF Restored, Ended
    <3>5. Returned'
      BY <3>1, <3>4 DEF Returned, Saved
    <3> QED BY <1>3, <3>3, <3>5 DEF Contained
  <2> QED BY <2>2, <2>3
<1> QED BY <1>4, <1>5, <1>6 DEF SessionInv
-----------------------------------------------------------------------------
(* So does a step that leaves both alone.                                     *)
LEMMA UntouchedKeeps ==
    ASSUME TypeOK, SessionInv, Untouched, env' = env
    PROVE  SessionTypes' /\ SessionInv'
<1>1. /\ pending' = pending /\ window' = window /\ lastWindow' = lastWindow
      /\ made' = made /\ registered' = registered /\ clipboard' = clipboard /\ left' = left
  BY DEF Untouched, session
<1>2. SessionTypes'
  BY <1>1 DEF TypeOK, SessionTypes
<1>3. Owners'
  BY <1>1 DEF SessionInv, Owners
<1>4. "refuse" \notin env => Contained'
  BY <1>1 DEF SessionInv, Contained, Returned, Saved, StillOurs
<1> QED BY <1>2, <1>3, <1>4 DEF SessionInv

(* A restore that waits is put off, and stays the same otherwise.             *)
PutOff ==
    /\ pending # None /\ pending' \in Pending
    /\ pending'.window = pending.window /\ pending'.original = pending.original
    /\ pending'.written = pending.written
    /\ pending'.restoreAt <= pending'.hardLimit
    /\ pending'.seenBusy \/ pending'.settled => pending'.target # None
    /\ UNCHANGED <<window, lastWindow, made, registered, clipboard, left>>

(* So does one that puts a restore off.                                       *)
LEMMA PutOffKeeps ==
    ASSUME TypeOK, SessionInv, PutOff, env' = env
    PROVE  SessionTypes' /\ SessionInv'
<1>1. /\ window' = window /\ lastWindow' = lastWindow
      /\ made' = made /\ registered' = registered /\ clipboard' = clipboard /\ left' = left
      /\ pending # None /\ pending' # None
  BY Apart DEF PutOff
<1>2. SessionTypes'
  BY <1>1 DEF TypeOK, SessionTypes, PutOff
<1>3. Owners'
  BY <1>1 DEF SessionInv, Owners, PutOff
<1>4. "refuse" \notin env => Contained'
  BY <1>1 DEF SessionInv, Contained, Returned, Saved, StillOurs, PutOff
<1> QED BY <1>2, <1>3, <1>4 DEF SessionInv

(* The phrase is one the daemon will find its own.                            *)
LEMMA PhraseIsOurs ==
    ASSUME TypeOK, NEW p \in Pending,
           p.written = {"text"} \cup (registered \ {"restored"})
    PROVE  /\ ToSet(Enumerated(Phrase(p).formats)) \subseteq p.written \cup {"ansi"}
           /\ "added" \notin p.written
<1>1. PICK marks \in Seq(Format) :
         marks = Only(Marked, {"marks"}) /\ ToSet(marks) = registered \cap {"marks"}
  BY MarkedElements, OnlyElements DEF TypeOK
<1>2. PICK f \in Seq(Format) : f = <<"text">> \o marks
  <2>1. <<"text">> \in Seq(Format)
    BY DEF Format
  <2> QED BY <2>1, ConcatProperties
<1>3. ToSet(f) \subseteq {"text"} \cup ToSet(marks)
  <2>1. <<"text">> \in Seq(Format) /\ ToSet(<<"text">>) = {"text"}
    BY DEF Format, ToSet
  <2> QED BY <1>2, <2>1, ElementsJoined
<1>4. ToSet(Enumerated(f)) \subseteq ToSet(f) \cup {"ansi"}
  <2>1. <<"ansi">> \in Seq(Format) /\ ToSet(<<"ansi">>) = {"ansi"}
    BY DEF Format, ToSet
  <2>2. <<>> \in Seq(Format) /\ ToSet(<<>>) = {}
    BY EmptySeq DEF ToSet
  <2>3. ToSet(f \o <<"ansi">>) \subseteq ToSet(f) \cup {"ansi"}
    BY <2>1, ElementsJoined
  <2>4. ToSet(f \o <<>>) \subseteq ToSet(f) \cup {}
    BY <2>2, ElementsJoined
  <2> QED BY <2>3, <2>4 DEF Enumerated
<1>5. Phrase(p).formats = f
  BY <1>1, <1>2 DEF Phrase, Content
<1>6. registered \subseteq {"marks", "restored"}
  BY DEF TypeOK
<1> QED BY <1>1, <1>3, <1>4, <1>5, <1>6

(* The outcomes of set_phrase: the phrase, or what was saved goes back.       *)
PhraseSet(p) ==
    /\ pending' = Renewed(p) /\ clipboard' = Phrase(p)
    /\ window' = None /\ UNCHANGED <<lastWindow, made, registered, left>>
PhraseRefused(p) ==
    /\ "refuse" \in env
    /\ clipboard' \in PutBack(p, Content(-fired, <<>>, p.window))
    /\ pending' = None /\ lastWindow' = p.window /\ UNCHANGED <<registered, left>>
    /\ \/ made' = made + 1 /\ window' = made + 1
       \/ window' = None /\ made' = made

(* So does a phrase that Windows refuses, and one that it takes.              *)
LEMMA RefusedKeeps ==
    ASSUME TypeOK, SessionInv, env' = env, NEW p \in Pending, PhraseRefused(p),
           p.window \in 1 .. made
    PROVE  SessionTypes' /\ SessionInv'
<1>1. Content(-fired, <<>>, p.window) \in Contents
  <2>1. <<>> \in Seq(Format) /\ -fired \in Int /\ p.window \in Nat
    BY EmptySeq DEF TypeOK, Pending
  <2> QED BY <2>1 DEF Content, Contents
<1>2. clipboard' \in Contents /\ clipboard'.owner = p.window
  <2>1. clipboard' \in Contents
        /\ clipboard'.owner \in {p.window, Content(-fired, <<>>, p.window).owner}
    BY <1>1, PutBackType DEF PhraseRefused
  <2> QED BY <2>1 DEF Content
<1>3. /\ made \in Nat /\ left \in Contents /\ registered \in SUBSET {"marks", "restored"}
      /\ left.owner \in {Other} \cup 1 .. made
  BY DEF TypeOK, SessionInv, Owners
<1>4. SessionTypes'
  BY <1>2, <1>3 DEF SessionTypes, PhraseRefused
<1>5. Owners'
  <2>1. /\ pending' = None /\ made' \in Nat /\ made' >= made
        /\ window' = None \/ (window' = made + 1 /\ made' = made + 1)
    BY <1>3 DEF PhraseRefused
  <2>2. {clipboard'.owner, left'.owner} \subseteq {Other} \cup 1 .. made
    BY <1>2, <1>3 DEF PhraseRefused
  <2>3. window' # None => window' \notin {clipboard'.owner, left'.owner}
    BY <1>3, <2>1, <2>2, Apart
  <2>4. {clipboard'.owner, left'.owner} \subseteq {Other} \cup 1 .. made'
    BY <1>3, <2>1, <2>2
  <2> QED BY <2>1, <2>3, <2>4 DEF Owners
<1> QED BY <1>4, <1>5 DEF SessionInv, PhraseRefused

LEMMA SetPhraseKeeps ==
    ASSUME TypeOK, SessionInv, env' = env, NEW p \in Pending, PhraseSet(p),
           p.window \in 1 .. made, left.owner = p.window => "added" \in ToSet(left.formats),
           "refuse" \notin env =>
             /\ registered = {"marks", "restored"}
             /\ ToSet(p.original.formats) \subseteq Copied
             /\ p.original.of = left.of /\ Saved(p.original.formats)
    PROVE  SessionTypes' /\ SessionInv'
<1>1. PICK w \in Nat, original \in Original : w = p.window /\ original = p.original
  BY DEF Pending
<1>2. PICK q \in Pending : q = pending'
  BY <1>1, NewPendingType DEF PhraseSet, Renewed
<1>3. /\ q # None /\ q.window = p.window /\ q.original = p.original
      /\ q.written = {"text"} \cup (registered \ {"restored"})
      /\ q.restoreAt = now /\ q.hardLimit = now /\ q.target = None
      /\ ~q.seenBusy /\ ~q.settled /\ ~q.due
  BY <1>1, <1>2, NewPendingType DEF PhraseSet, Renewed
<1>4. clipboard' \in Contents /\ clipboard'.owner = p.window /\ clipboard' = Phrase(p)
  BY PhraseType DEF PhraseSet
<1>5. /\ made \in Nat /\ left \in Contents /\ registered \in SUBSET {"marks", "restored"}
      /\ left.owner \in {Other} \cup 1 .. made /\ now \in Nat
      /\ lastWindow \in {None} \cup 1 .. made
  BY DEF TypeOK, SessionInv, Owners
<1>6. /\ made' = made /\ window' = None /\ registered' = registered /\ left' = left
      /\ lastWindow' = lastWindow
  BY DEF PhraseSet
<1>7. SessionTypes'
  BY <1>2, <1>3, <1>4, <1>5, <1>6 DEF SessionTypes
<1>8. "added" \notin q.written
      /\ ToSet(Enumerated(clipboard'.formats)) \subseteq q.written \cup {"ansi"}
  <2>1. Phrase(q) = Phrase(p)
    BY <1>3 DEF Phrase
  <2> QED BY <1>2, <1>3, <1>4, <2>1, PhraseIsOurs
<1>9. Owners'
  BY <1>2, <1>3, <1>4, <1>5, <1>6, <1>8 DEF Owners
<1>10. StillOurs'
  BY <1>2, <1>3, <1>4, <1>8 DEF StillOurs
<1>11. ASSUME "refuse" \notin env PROVE Contained'
  <2>1. /\ registered' = {"marks", "restored"} /\ pending' # None
        /\ ToSet(pending'.original.formats) \subseteq Copied
        /\ pending'.original.of = left'.of
    BY <1>2, <1>3, <1>6, <1>11
  <2>2. pending'.original = p.original /\ Saved(p.original.formats)
    BY <1>2, <1>3, <1>11
  <2> QED BY <1>6, <1>10, <2>1, <2>2 DEF Contained, Saved
<1> QED BY <1>7, <1>9, <1>11 DEF SessionInv

(* What a fresh paste saves is what was left.                                 *)
LEMMA FreshSaves ==
    ASSUME TypeOK, Contained, pending = None, "refuse" \notin env,
           NEW reads \in Reads(Enumerated(clipboard.formats))
    PROVE  /\ Save(reads).of = left.of /\ Saved(Save(reads).formats)
           /\ ToSet(Save(reads).formats) \subseteq Copied
<1>1. clipboard.formats \in Seq(Format) /\ left.formats \in Seq(Format)
  BY DEF TypeOK, Contents
<1>2. clipboard.of = left.of
  BY DEF Contained, Returned
<1>3. ToSet(<<>>) = {} /\ <<>> \in Seq(Format)
  BY EmptySeq DEF ToSet
<1>4. CASE IsPrivate(clipboard.formats)
  <2>1. IsPrivate(left.formats)
    BY <1>4 DEF Contained, Returned
  <2>2. Save(reads).formats = <<>>
    BY <1>4 DEF Save
  <2> QED BY <1>2, <1>3, <2>1, <2>2 DEF Save, Saved
<1>5. CASE ~IsPrivate(clipboard.formats)
  <2>1. Save(reads).formats = SavedFormats(Enumerated(clipboard.formats), reads)
    BY <1>5 DEF Save
  <2>2. CASE ~IsPrivate(left.formats)
    <3>1. Saved(Kept(clipboard.formats))
      BY <1>1, <2>2, SavedFirst DEF Contained, Returned
    <3> QED BY <1>1, <1>2, <2>1, <2>2, <3>1, SavedAgain DEF Save
  <2>3. CASE IsPrivate(left.formats)
    <3>1. clipboard.formats = <<>>
      BY <1>5, <2>3 DEF Contained, Returned
    <3>2. Only(<<>>, Copied) = <<>>
      BY <1>3, OnlyAll
    <3>3. Only(<<>>, reads \cup {"text"}) = <<>>
      BY <1>3, OnlyAll
    <3>4. Kept(Enumerated(<<>>)) = <<>>
      BY <1>3, <3>2, KeptOfEnumerated DEF Kept
    <3>5. Save(reads).formats = <<>>
      BY <2>1, <3>1, <3>3, <3>4 DEF SavedFormats
    <3> QED BY <1>2, <1>3, <2>3, <3>5 DEF Save, Saved
  <2> QED BY <2>2, <2>3
<1> QED BY <1>4, <1>5
-----------------------------------------------------------------------------
(* The fields of a keystroke that is not handled.                             *)
LEMMA KeystrokeTypes ==
    ASSUME TypeOK, NEW u \in unread
    PROVE  /\ u.paste \in Nat /\ u.sent \in Nat /\ u.delay \in Nat /\ u.by \in Nat
           /\ u.window \in Window /\ u.window # None
<1>1. u \in Keystroke
  BY DEF TypeOK
<1> QED BY <1>1, Apart DEF Keystroke

(* Only the paste that waits changes.                                         *)
LEMMA UnreadOfPaste ==
    ASSUME TypeOK, Unread,
           UNCHANGED <<env, now, fired, pending, clipboard, left, busy, gone, unread>>,
           paste' # None =>
             /\ paste # None
             /\ \A u \in unread :
                  /\ paste'.chainSince # None => u.sent <= paste'.chainSince
                  /\ paste'.wentAhead => u.sent + ChainLimit <= now
    PROVE  Unread'
<1> SUFFICES ASSUME NEW u \in unread PROVE Sending(u)' /\ (Excused(u)' \/ Awaited(u)')
  BY DEF Unread
<1>1. Sending(u)'
  BY DEF Unread, Sending
<1>2. Excused(u) => Excused(u)'
  BY DEF Excused
<1>3. Awaited(u) => Awaited(u)'
  BY DEF Awaited
<1> QED BY <1>1, <1>2, <1>3 DEF Unread

(* Nothing is awaited: a session that ends takes nothing away.                *)
LEMMA UnreadExcused ==
    ASSUME TypeOK, Unread, \A u \in unread : Excused(u),
           UNCHANGED <<env, now, fired, busy, gone, unread>>, paste' \in {None, paste}
    PROVE  Unread'
<1> SUFFICES ASSUME NEW u \in unread PROVE Sending(u)' /\ Excused(u)'
  BY DEF Unread
<1>1. Sending(u)'
  BY DEF Unread, Sending
<1>2. Excused(u)'
  BY DEF Excused
<1> QED BY <1>1, <1>2

(* No phrase is awaited without a session whose restore is yet to be due.     *)
LEMMA NoneAwaited ==
    ASSUME TypeOK, Unread,
           \/ pending = None \/ pending.due \/ pending.target = None
           \/ env \cap {"stop", "timer"} # {}
    PROVE  \A u \in unread : Excused(u)
<1> SUFFICES ASSUME NEW u \in unread PROVE Excused(u)
  OBVIOUS
<1>1. u.window # None /\ (Excused(u) \/ Awaited(u))
  BY KeystrokeTypes DEF Unread
<1>2. CASE env \cap {"stop", "timer"} # {}
  BY <1>2 DEF Excused
<1>3. CASE pending = None \/ pending.due \/ pending.target = None
  BY <1>1, <1>3 DEF Awaited
<1> QED BY <1>2, <1>3

(* A paste that opens the clipboard has waited for the one before it.         *)
LEMMA NoneAwaitedAtOpen ==
    ASSUME TypeOK, Phases, Unread, at = "open"
    PROVE  \A u \in unread : Excused(u)
<1>1. CASE pending = None \/ pending.due
  BY <1>1, NoneAwaited
<1>2. CASE pending # None /\ ~pending.due
  <2> SUFFICES ASSUME NEW u \in unread PROVE Excused(u)
    OBVIOUS
  <2>1. paste # None /\ paste.wentAhead
    BY <1>2 DEF Phases
  <2>2. u.paste < fired /\ u.sent + ChainLimit <= now
    BY <2>1 DEF Unread, Sending
  <2> QED BY <2>2 DEF Excused
<1> QED BY <1>1, <1>2
-----------------------------------------------------------------------------
(* The steps that leave the session and the clipboard alone.                  *)
LEMMA AdvanceTypes ==
    ASSUME TypeOK, paste # None
    PROVE  /\ Since(paste.chainSince) \in Nat /\ Since(paste.modifiersSince) \in Nat
           /\ paste.chainSince = None => Since(paste.chainSince) = now
           /\ paste.chainSince # None => Since(paste.chainSince) = paste.chainSince
           /\ Begun \in Run
           /\ Begun.window = (IF paste.window = None THEN foreground ELSE paste.window)
           /\ Begun.chainSince =
                (IF Behind THEN Since(paste.chainSince) ELSE paste.chainSince)
           /\ Begun.wentAhead = (paste.wentAhead \/ (Behind /\ now >= Patience))
<1>1. paste \in Run /\ now \in Nat /\ foreground \in Window \cup {None}
  BY DEF TypeOK
<1>2. /\ paste.chainSince \in Nat \cup {None} /\ paste.modifiersSince \in Nat \cup {None}
      /\ paste.window \in Window \cup {None} /\ paste.wentAhead \in BOOLEAN
  BY <1>1 DEF Run
<1>3. Since(paste.chainSince) \in Nat /\ Since(paste.modifiersSince) \in Nat
  BY <1>1, <1>2 DEF Since
<1>4. PICK behind \in BOOLEAN : behind = Behind
  BY <1>2 DEF Behind
<1>5. PICK ahead \in BOOLEAN : ahead = (paste.wentAhead \/ (Behind /\ now >= Patience))
  BY <1>2 DEF Behind
<1>6. Begun =
        [paste EXCEPT !.window = IF paste.window = None THEN foreground ELSE paste.window,
                      !.chainSince = IF behind THEN Since(paste.chainSince)
                                     ELSE paste.chainSince,
                      !.wentAhead = ahead]
  BY <1>4, <1>5 DEF Begun
<1>7. Begun \in Run
  BY <1>1, <1>2, <1>3, <1>6 DEF Run
<1> QED BY <1>1, <1>3, <1>4, <1>5, <1>6, <1>7 DEF Run, Since

(* The paste waits for the one before it and for the modifiers, or goes on.   *)
LEMMA AdvanceKeeps ==
    ASSUME PasteInv, Advance
    PROVE  PasteInv'
<1>1. /\ at = "advance" /\ paste # None /\ ending = None /\ paste \in Run
      /\ UNCHANGED <<env, now, ending, fired, session, world, unread, left>>
  BY DEF PasteInv, Phases, Advance, TypeOK
<1>2. TypeOK /\ Phases /\ SessionInv /\ Unread
  BY DEF PasteInv
<1>3. Untouched
  BY <1>1 DEF Untouched, world
<1>4. SessionTypes' /\ SessionInv'
  BY <1>1, <1>2, <1>3, UntouchedKeeps
<1> DEFINE Trying ==
      /\ Begun.window # None /\ paste' \in Run
      /\ paste'.window = Begun.window
      /\ paste'.chainSince = Begun.chainSince /\ paste'.wentAhead = Begun.wentAhead
<1>5. /\ \/ paste' = None /\ at' = "restore"
         \/ Trying /\ at' = "restore"
         \/ Trying /\ at' = "open" /\ (Behind => now >= Patience)
  <2>1. Begun \in Run
    BY <1>1, <1>2, AdvanceTypes
  <2>2. CASE AdvanceNowhere
    BY <2>2 DEF AdvanceNowhere, Over
  <2>3. CASE AdvanceBehind
    <3>1. pending \in Pending /\ now \in Nat /\ Since(paste.chainSince) \in Nat
          /\ pending.restoreAt \in Nat
      BY <1>1, <1>2, <2>3, AdvanceTypes DEF AdvanceBehind, Behind, TypeOK, Pending
    <3>2. Patience \in Nat
      BY <3>1, Apart DEF Patience
    <3>3. PICK time \in Nat : time = Min({pending.restoreAt, Patience})
      BY <3>1, <3>2, LeastOfTwo
    <3>4. paste' = [Begun EXCEPT !.resume = time] /\ at' = "restore" /\ Begun.window # None
      BY <2>3, <3>3 DEF AdvanceBehind, WaitUntil
    <3> QED BY <2>1, <3>4 DEF Run
  <2>4. CASE AdvanceModifier
    <3>1. PICK since \in Nat : since = Since(paste.modifiersSince)
      BY <1>1, <1>2, AdvanceTypes
    <3>2. CASE Over
      BY <3>2 DEF Over
    <3>3. CASE ~Over
      <4>1. Begun.window # None /\ at' = "restore"
            /\ paste' = [[Begun EXCEPT !.modifiersSince = since] EXCEPT !.resume = now + 1]
        BY <2>4, <3>1, <3>3 DEF AdvanceModifier, WaitUntil
      <4>2. now + 1 \in Nat
        BY <1>2 DEF TypeOK
      <4>3. [Begun EXCEPT !.modifiersSince = since] \in Run
        BY <2>1, <3>1 DEF Run
      <4> QED BY <2>1, <4>1, <4>2, <4>3 DEF Run
    <3> QED BY <3>2, <3>3
  <2>5. CASE AdvanceOn
    BY <2>1, <2>5 DEF AdvanceOn, Over
  <2> QED BY <2>2, <2>3, <2>4, <2>5 DEF Advance
<1>6. paste' # None => paste' \in Run /\ Trying
  BY <1>5, Apart
<1>7. TypeOK'
  BY <1>1, <1>2, <1>4, <1>5, <1>6 DEF TypeOK, SessionTypes, session, world
<1>8. Phases'
  <2>1. at' = "open" /\ pending # None => pending.due \/ Begun.wentAhead
    BY <1>1, <1>2, <1>5, AdvanceTypes DEF Behind
  <2> QED BY <1>1, <1>5, <1>6, <2>1, Apart DEF Phases, session
<1>9. pending' # None => Timing'
  BY <1>1, <1>5 DEF PasteInv, Timing, session
<1>10. Unread'
  <2>1. \A u \in unread :
           /\ Begun.chainSince # None => u.sent <= Begun.chainSince
           /\ Begun.wentAhead => u.sent + ChainLimit <= now
    <3> SUFFICES ASSUME NEW u \in unread
                 PROVE  /\ Begun.chainSince # None => u.sent <= Begun.chainSince
                        /\ Begun.wentAhead => u.sent + ChainLimit <= now
      OBVIOUS
    <3>1. u.sent \in Nat /\ now \in Nat /\ ChainLimit \in Nat /\ u.sent <= now
      BY <1>2, KeystrokeTypes, Apart DEF Unread, Sending, TypeOK
    <3>2. u.sent <= Since(paste.chainSince) /\ Since(paste.chainSince) \in Nat
      BY <1>1, <1>2, <3>1, AdvanceTypes DEF Unread, Sending
    <3>3. paste.wentAhead => u.sent + ChainLimit <= now
      BY <1>1, <1>2 DEF Unread, Sending
    <3>4. now >= Patience => u.sent + ChainLimit <= now
      BY <3>1, <3>2 DEF Patience
    <3>5. paste.chainSince # None => u.sent <= paste.chainSince
      BY <1>1, <1>2 DEF Unread, Sending
    <3> QED BY <1>1, <1>2, <3>2, <3>3, <3>4, <3>5, AdvanceTypes
  <2>2. UNCHANGED <<env, now, fired, pending, clipboard, left, busy, gone, unread>>
    BY <1>1 DEF session, world
  <2>3. paste' # None =>
           /\ paste # None
           /\ \A u \in unread :
                /\ paste'.chainSince # None => u.sent <= paste'.chainSince
                /\ paste'.wentAhead => u.sent + ChainLimit <= now
    BY <1>1, <1>6, <2>1
  <2> QED BY <1>2, <2>2, <2>3, UnreadOfPaste
<1> QED BY <1>4, <1>7, <1>8, <1>9, <1>10 DEF PasteInv
-----------------------------------------------------------------------------
(* A thread that is done handles its keystrokes within Settle.                *)
LEMMA DoneGives ==
    ASSUME TypeOK, NEW w \in busy, Done(w)
    PROVE  /\ busy' \subseteq Window \cup {Other} /\ busy' = busy \ {w}
           /\ unread' \subseteq Keystroke
           /\ \A v \in unread' : \E u \in unread :
                /\ v.paste = u.paste /\ v.window = u.window /\ v.sent = u.sent
                /\ v.delay = u.delay
                /\ v.by = IF u.window = w THEN now + Settle - 1 ELSE u.by
<1>1. busy \subseteq Window \cup {Other} /\ unread \subseteq Keystroke /\ now \in Nat
      /\ Settle \in Nat /\ Settle >= 1
  BY Apart DEF TypeOK
<1>2. ASSUME NEW v \in unread'
      PROVE  /\ v \in Keystroke
             /\ \E u \in unread :
                  /\ v.paste = u.paste /\ v.window = u.window /\ v.sent = u.sent
                  /\ v.delay = u.delay
                  /\ v.by = IF u.window = w THEN now + Settle - 1 ELSE u.by
  <2>1. PICK u \in unread : v = IF u.window = w THEN [u EXCEPT !.by = now + Settle - 1] ELSE u
    BY <1>2 DEF Done
  <2>2. u \in Keystroke /\ now + Settle - 1 \in Nat
    BY <1>1
  <2> QED BY <2>1, <2>2 DEF Keystroke
<1> QED BY <1>1, <1>2 DEF Done

(* What a probe makes of the restore that waits.                              *)
LEMMA ProbedGives ==
    ASSUME TypeOK, pending # None, pending.target # None,
           NEW probe \in {"gone", "silent", "late", "answered"}, pending' = Probed(probe)
    PROVE  /\ pending' \in Pending
           /\ pending'.window = pending.window /\ pending'.original = pending.original
           /\ pending'.written = pending.written /\ pending'.hardLimit = pending.hardLimit
           /\ pending'.target = pending.target /\ pending'.retrySince = pending.retrySince
           /\ pending'.nextTry = pending.nextTry
           /\ pending'.restoreAt <= pending.hardLimit
           /\ \/ pending'.due /\ pending'.restoreAt = pending.restoreAt
                 /\ \/ probe = "gone"
                    \/ probe \in {"late", "answered"}
                       /\ (pending.settled \/ (~pending.seenBusy /\ probe = "answered"))
              \/ /\ pending'.due = pending.due /\ pending'.seenBusy
                 /\ \/ probe = "silent" /\ pending'.settled = pending.settled
                    \/ /\ probe \in {"late", "answered"}
                       /\ pending.seenBusy \/ probe = "late"
                       /\ ~pending.settled /\ pending'.settled
                       /\ pending'.restoreAt \in {now + Settle, pending.hardLimit}
<1>1. /\ pending \in Pending /\ now \in Nat /\ Settle \in Nat /\ TargetRetry \in Nat
      /\ pending.restoreAt <= pending.hardLimit
  <2>1. pending \in Pending /\ pending.restoreAt <= pending.hardLimit
    BY DEF TypeOK
  <2>2. now \in Nat /\ Settle \in Nat /\ TargetRetry \in Nat
    BY Apart DEF TypeOK
  <2> QED BY <2>1, <2>2
<1>2. /\ pending.hardLimit \in Nat /\ pending.restoreAt \in Nat
      /\ pending.seenBusy \in BOOLEAN /\ pending.settled \in BOOLEAN
  BY <1>1 DEF Pending
<1>3. CASE probe = "gone"
  <2>1. pending' = [pending EXCEPT !.due = TRUE]
    BY <1>3 DEF Probed
  <2> QED BY <1>1, <1>3, <2>1 DEF Pending
<1>4. CASE probe = "silent"
  <2>1. PICK time \in Nat : time = Min({now + TargetRetry, pending.hardLimit})
                            /\ time <= pending.hardLimit
    <3>1. now + TargetRetry \in Nat
      BY <1>1
    <3> QED BY <1>2, <3>1, LeastOfTwo
  <2>2. pending' = [pending EXCEPT !.seenBusy = TRUE, !.restoreAt = time]
    BY <1>4, <2>1 DEF Probed
  <2> QED BY <1>1, <1>4, <2>1, <2>2 DEF Pending
<1>5. CASE probe \in {"late", "answered"}
  <2>1. pending' = AnsweredBy(probe)
    BY <1>5 DEF Probed
  <2>2. PICK seen \in BOOLEAN : seen = (pending.seenBusy \/ probe = "late")
    BY <1>2
  <2>3. CASE seen /\ ~pending.settled
    <3>1. PICK time \in Nat : /\ time = Min({now + Settle, pending.hardLimit})
                              /\ time <= pending.hardLimit
                              /\ time \in {now + Settle, pending.hardLimit}
      <4>1. now + Settle \in Nat
        BY <1>1
      <4> QED BY <1>2, <4>1, LeastOfTwo
    <3>2. pending' = [pending EXCEPT !.seenBusy = TRUE, !.settled = TRUE, !.restoreAt = time]
      BY <2>1, <2>2, <2>3, <3>1 DEF AnsweredBy
    <3> QED BY <1>1, <1>5, <2>2, <2>3, <3>1, <3>2 DEF Pending
  <2>4. CASE ~(seen /\ ~pending.settled)
    <3>1. pending' = [pending EXCEPT !.seenBusy = seen, !.due = TRUE]
      BY <2>1, <2>2, <2>4 DEF AnsweredBy
    <3> QED BY <1>1, <1>2, <1>5, <2>2, <2>4, <3>1 DEF Pending
  <2> QED BY <2>3, <2>4
<1> QED BY <1>3, <1>4, <1>5

(* The decision, whose target may be done with what it was busy with.         *)
LEMMA ProbeKeepsUnread ==
    ASSUME TypeOK, Unread, DecideByProbe, Timing,
           UNCHANGED <<env, now, fired, clipboard, left, gone>>, paste' \in {None, paste}
    PROVE  Unread'
<1>1. /\ pending # None /\ ~pending.due /\ now >= pending.restoreAt
      /\ pending.target # None /\ now < pending.hardLimit /\ pending \in Pending
  BY DEF DecideByProbe, TypeOK
<1>2. PICK probe \in Responds(pending.target) :
         /\ pending' = Probed(probe)
         /\ IF probe = "late" THEN Done(pending.target) ELSE UNCHANGED <<busy, unread>>
  BY DEF DecideByProbe
<1>3. /\ probe \in {"gone", "silent", "late", "answered"}
      /\ probe = "gone" => pending.target \in gone
      /\ probe \in {"silent", "late"} => pending.target \in busy
      /\ probe = "answered" => pending.target \notin busy
  BY <1>2 DEF Responds
<1>4. /\ now \in Nat /\ Settle \in Nat /\ Settle >= 1
      /\ pending.restoreAt \in Nat /\ pending.hardLimit \in Nat
  BY <1>1, Apart DEF TypeOK, Pending
<1>5. ASSUME NEW u \in unread, Awaited(u)
      PROVE  /\ u.window = pending.target /\ probe # "gone" /\ ~pending'.due
             /\ clipboard.of = -u.paste \/ clipboard = left
             /\ pending.hardLimit = u.sent + Max({u.delay, HungLimit})
             /\ u.window \in busy => ~pending.settled
  <2>1. /\ u.window = pending.target /\ u.window \notin gone
        /\ u.window \notin busy => now <= u.by
        /\ u.window \in busy => ~pending.settled
        /\ u.window \notin busy =>
             IF pending.seenBusy /\ ~pending.settled THEN u.by < now + Settle
             ELSE u.by < pending.restoreAt \/ pending.restoreAt = pending.hardLimit
    BY <1>5 DEF Unread, Sending, Awaited
  <2>2. u.by \in Nat
    BY KeystrokeTypes
  <2>3. ~pending'.due
    <3> SUFFICES ASSUME pending'.due PROVE FALSE
      OBVIOUS
    <3>1. \/ probe = "gone"
          \/ probe \in {"late", "answered"}
             /\ (pending.settled \/ (~pending.seenBusy /\ probe = "answered"))
      BY <1>1, <1>2, <1>3, ProbedGives
    <3>2. probe = "answered" /\ u.window \notin busy
      BY <1>3, <2>1, <3>1
    <3>3. u.by < pending.restoreAt \/ pending.restoreAt = pending.hardLimit
      BY <2>1, <3>1, <3>2
    <3> QED BY <1>1, <1>4, <2>1, <2>2, <3>2, <3>3
  <2> QED BY <1>3, <1>5, <2>1, <2>3 DEF Awaited
<1>6. ASSUME NEW v \in unread'
      PROVE  \E u \in unread :
                /\ v.paste = u.paste /\ v.window = u.window /\ v.sent = u.sent
                /\ v.delay = u.delay
                /\ v.by = IF probe = "late" /\ u.window = pending.target
                          THEN now + Settle - 1 ELSE u.by
  <2>1. CASE probe = "late"
    <3>1. pending.target \in busy /\ Done(pending.target)
      BY <1>2, <1>3, <2>1
    <3> QED BY <1>6, <2>1, <3>1, DoneGives
  <2>2. CASE probe # "late"
    BY <1>2, <1>6, <2>2
  <2> QED BY <2>1, <2>2
<1>7. busy' = IF probe = "late" THEN busy \ {pending.target} ELSE busy
  BY <1>2 DEF Done
<1> SUFFICES ASSUME NEW v \in unread' PROVE Sending(v)' /\ (Excused(v)' \/ Awaited(v)')
  BY DEF Unread
<1>8. PICK u \in unread :
         /\ v.paste = u.paste /\ v.window = u.window /\ v.sent = u.sent /\ v.delay = u.delay
         /\ v.by = IF probe = "late" /\ u.window = pending.target
                   THEN now + Settle - 1 ELSE u.by
  BY <1>6
<1>9. Sending(u) /\ (Excused(u) \/ Awaited(u))
  BY DEF Unread
<1>10. Sending(v)'
  BY <1>4, <1>7, <1>8, <1>9, KeystrokeTypes DEF Sending
<1>11. CASE Excused(u)
  <2>1. Excused(v)'
    BY <1>8, <1>11 DEF Excused
  <2> QED BY <1>10, <2>1
<1>12. CASE Awaited(u)
  <2>1. /\ u.window = pending.target /\ probe # "gone" /\ ~pending'.due
        /\ clipboard.of = -u.paste \/ clipboard = left
        /\ pending.hardLimit = u.sent + Max({u.delay, HungLimit})
        /\ u.window \in busy => ~pending.settled
    BY <1>5, <1>12
  <2>2. /\ pending' \in Pending /\ pending' # None
        /\ pending'.hardLimit = pending.hardLimit /\ pending'.target = pending.target
        /\ pending'.seenBusy
        /\ \/ probe = "silent" /\ pending'.settled = pending.settled
           \/ /\ probe \in {"late", "answered"} /\ pending'.settled
              /\ pending.seenBusy \/ probe = "late"
              /\ ~pending.settled
              /\ pending'.restoreAt \in {now + Settle, pending.hardLimit}
    BY <1>1, <1>2, <1>3, <2>1, ProbedGives, Apart
  <2>3. v.window \in busy' => ~pending'.settled
    BY <1>3, <1>7, <1>8, <2>1, <2>2
  <2>4. ASSUME v.window \notin busy'
        PROVE  IF pending'.seenBusy /\ ~pending'.settled THEN v.by < now' + Settle
               ELSE v.by < pending'.restoreAt \/ pending'.restoreAt = pending'.hardLimit
    <3>1. probe \in {"late", "answered"}
      BY <1>3, <1>7, <1>8, <2>1, <2>2, <2>4
    <3>2. v.by < now + Settle
      <4>1. CASE probe = "late"
        BY <1>4, <1>8, <2>1, <4>1
      <4>2. CASE probe = "answered"
        <5>1. pending.seenBusy /\ ~pending.settled /\ u.window \notin busy
          BY <1>3, <2>1, <2>2, <4>2
        <5> QED BY <1>8, <1>12, <4>2, <5>1 DEF Awaited
      <4> QED BY <3>1, <4>1, <4>2
    <3> QED BY <2>2, <3>1, <3>2
  <2> QED BY <1>8, <1>10, <2>1, <2>2, <2>3, <2>4 DEF Awaited
<1> QED BY <1>9, <1>10, <1>11, <1>12
-----------------------------------------------------------------------------
(* Every deadline that is decided is in the future or was just met.           *)
LEMMA PollKeeps ==
    ASSUME PasteInv, Poll
    PROVE  PasteInv'
<1>1. TypeOK /\ Phases /\ SessionInv /\ Unread /\ (pending # None => Timing)
  BY DEF PasteInv
<1>2. /\ at = "idle" /\ ending = None /\ ending' = None
      /\ UNCHANGED <<env, now, fired, window, lastWindow, made, registered, clipboard, held,
                     foreground, modifier, moves, gone, left>>
      /\ paste' = None \/ (paste' = paste /\ paste \in Run)
      /\ at' \in {"advance", "restore"} /\ (at' = "advance" => paste' # None)
  BY <1>1 DEF Poll, TypeOK
<1>3. now \in Nat
  BY <1>1, Apart DEF TypeOK
<1>4. CASE NotDecided
  <2>1. UNCHANGED <<pending, busy, unread>>
    BY <1>4 DEF NotDecided
  <2>2. Untouched
    BY <1>2, <2>1 DEF Untouched, session
  <2>3. SessionTypes' /\ SessionInv'
    BY <1>1, <1>2, <2>2, UntouchedKeeps
  <2>4. TypeOK'
    BY <1>1, <1>2, <2>1, <2>3 DEF TypeOK, SessionTypes
  <2>5. Phases'
    BY <1>2 DEF Phases
  <2>6. pending' # None => Timing'
    BY <1>1, <1>2, <2>1 DEF Timing
  <2>7. \A u \in unread : paste' # None =>
           /\ paste'.chainSince # None => u.sent <= paste'.chainSince
           /\ paste'.wentAhead => u.sent + ChainLimit <= now
    BY <1>1, <1>2 DEF Unread, Sending
  <2>8. Unread'
    BY <1>1, <1>2, <2>1, <2>7, Apart, UnreadOfPaste
  <2> QED BY <2>3, <2>4, <2>5, <2>6, <2>8 DEF PasteInv
<1>5. CASE DecideAtOnce
  <2>1. /\ pending # None /\ ~pending.due /\ now >= pending.restoreAt /\ pending \in Pending
        /\ pending.target = None \/ now >= pending.hardLimit
        /\ pending' = [pending EXCEPT !.due = TRUE] /\ busy' = busy /\ unread' = unread
    BY <1>1, <1>5 DEF DecideAtOnce, TypeOK
  <2>2. /\ pending' \in Pending /\ pending'.window = pending.window
        /\ pending'.original = pending.original /\ pending'.written = pending.written
        /\ pending'.restoreAt = pending.restoreAt /\ pending'.hardLimit = pending.hardLimit
        /\ pending'.target = pending.target /\ pending'.seenBusy = pending.seenBusy
        /\ pending'.settled = pending.settled /\ pending'.due
        /\ pending'.nextTry = pending.nextTry /\ pending'.retrySince = pending.retrySince
    BY <2>1 DEF Pending
  <2>3. PutOff
    BY <1>1, <1>2, <2>1, <2>2 DEF PutOff, TypeOK
  <2>4. SessionTypes' /\ SessionInv'
    BY <1>1, <1>2, <2>3, PutOffKeeps
  <2>5. TypeOK'
    BY <1>1, <1>2, <2>1, <2>4 DEF TypeOK, SessionTypes
  <2>6. Phases'
    BY <1>2 DEF Phases
  <2>7. Timing'
    BY <1>1, <1>2, <2>1, <2>2 DEF Timing
  <2>8. \A u \in unread : Excused(u)
    <3>1. CASE pending.target = None
      BY <1>1, <3>1, NoneAwaited
    <3>2. CASE now >= pending.hardLimit
      BY <1>1, <3>2 DEF Unread, Awaited, Excused
    <3> QED BY <2>1, <3>1, <3>2
  <2>9. Unread'
    BY <1>1, <1>2, <2>1, <2>8, UnreadExcused
  <2> QED BY <2>4, <2>5, <2>6, <2>7, <2>9 DEF PasteInv
<1>6. CASE DecideByProbe
  <2>1. /\ pending # None /\ ~pending.due /\ now >= pending.restoreAt
        /\ pending.target # None /\ now < pending.hardLimit /\ pending \in Pending
        /\ pending.hardLimit \in Nat /\ pending.restoreAt \in Nat
    BY <1>1, <1>6 DEF DecideByProbe, TypeOK, Pending
  <2>2. PICK probe \in Responds(pending.target) :
           /\ pending' = Probed(probe)
           /\ IF probe = "late" THEN Done(pending.target) ELSE UNCHANGED <<busy, unread>>
    BY <1>6 DEF DecideByProbe
  <2>3. /\ probe \in {"gone", "silent", "late", "answered"}
        /\ probe = "late" => pending.target \in busy
    BY <2>2 DEF Responds
  <2>4. /\ pending' \in Pending /\ pending' # None
        /\ pending'.window = pending.window /\ pending'.original = pending.original
        /\ pending'.written = pending.written /\ pending'.hardLimit = pending.hardLimit
        /\ pending'.target = pending.target /\ pending'.retrySince = pending.retrySince
        /\ pending'.nextTry = pending.nextTry /\ pending'.restoreAt <= pending.hardLimit
        /\ pending'.due => pending'.restoreAt = pending.restoreAt
    BY <1>1, <2>1, <2>2, <2>3, ProbedGives, Apart
  <2>5. SessionTypes' /\ SessionInv'
    <3>1. PutOff
      BY <1>2, <2>1, <2>4 DEF PutOff
    <3> QED BY <1>1, <1>2, <3>1, PutOffKeeps
  <2>6. busy' \subseteq Window \cup {Other} /\ unread' \subseteq Keystroke
    <3>1. CASE probe = "late"
      BY <1>1, <2>2, <2>3, <3>1, DoneGives
    <3>2. CASE probe # "late"
      BY <1>1, <2>2, <3>2 DEF TypeOK
    <3> QED BY <3>1, <3>2
  <2>7. TypeOK'
    BY <1>1, <1>2, <2>5, <2>6 DEF TypeOK, SessionTypes
  <2>8. Phases'
    BY <1>2 DEF Phases
  <2>9. Timing'
    BY <1>1, <1>2, <1>3, <2>1, <2>4 DEF Timing
  <2>10. Unread'
    BY <1>1, <1>2, <1>6, <2>1, ProbeKeepsUnread
  <2> QED BY <2>5, <2>7, <2>8, <2>9, <2>10 DEF PasteInv
<1> QED BY <1>4, <1>5, <1>6 DEF Poll

(* The keystroke is out: the restore waits for it.                            *)
LEMMA SentGives ==
    ASSUME TypeOK, Phases, at = "send", Sent
    PROVE  /\ now \in Nat /\ HungLimit \in Nat
           /\ paste.delay \in Nat /\ paste.delay >= 1 /\ paste.delay \in Delays
           /\ paste.window \in Window /\ paste.window \notin gone
           /\ pending' \in Pending /\ pending' # None
           /\ pending'.restoreAt = now + paste.delay
           /\ pending'.hardLimit = now + Max({paste.delay, HungLimit})
           /\ pending'.restoreAt <= pending'.hardLimit /\ pending'.target = paste.window
           /\ pending'.window = pending.window /\ pending'.original = pending.original
           /\ pending'.written = pending.written /\ ~pending'.due
           /\ pending'.seenBusy = pending.seenBusy /\ pending'.settled = pending.settled
           /\ pending'.retrySince = pending.retrySince /\ pending'.nextTry = pending.nextTry
<1>1. /\ paste \in Run /\ paste.window # None /\ pending \in Pending /\ ~pending.due
  BY DEF Phases, TypeOK
<1>2. /\ now \in Nat /\ HungLimit \in Nat
      /\ paste.delay \in Nat /\ paste.delay >= 1 /\ paste.delay \in Delays
      /\ paste.window \in Window /\ paste.window \notin gone
  BY <1>1, Apart DEF TypeOK, Run, Sent, Unchanged
<1>3. PICK most \in Nat : most = Max({paste.delay, HungLimit}) /\ most >= paste.delay
  BY <1>2, GreatestOfTwo
<1>4. PICK time \in Nat, limit \in Nat : time = now + paste.delay /\ limit = now + most
  BY <1>2
<1>5. pending' = [pending EXCEPT !.restoreAt = time, !.target = paste.window,
                                 !.hardLimit = limit]
  <2>1. pending' = [pending EXCEPT !.restoreAt = now + paste.delay,
                                   !.target = paste.window,
                                   !.hardLimit = now + Max({paste.delay, HungLimit})]
    BY DEF Sent
  <2> QED BY <1>3, <1>4, <2>1
<1>6. pending' \in Pending
  BY <1>1, <1>2, <1>4, <1>5 DEF Pending
<1>7. time <= limit
  BY <1>2, <1>3, <1>4
<1> QED BY <1>1, <1>2, <1>3, <1>4, <1>5, <1>6, <1>7, Apart DEF Pending

(* The keystroke of the phrase on the clipboard goes out, or none does.       *)
LEMMA SendKeeps ==
    ASSUME PasteInv, Send
    PROVE  PasteInv'
<1>1. TypeOK /\ Phases /\ SessionInv /\ Unread /\ (pending # None => Timing)
  BY DEF PasteInv
<1>2. /\ at = "send" /\ ending = None /\ paste \in Run /\ paste.window # None
      /\ pending \in Pending /\ pending # None /\ pending.target = None /\ ~pending.due
      /\ clipboard.of = -fired \/ clipboard = left
  BY <1>1 DEF Send, Phases, TypeOK
<1>3. /\ paste' = None /\ at' = "restore"
      /\ UNCHANGED <<env, now, ending, fired, window, lastWindow, made, registered, clipboard,
                     held, foreground, modifier, moves, busy, gone, left>>
  BY DEF Send, Over, world
<1>4. \A u \in unread : Excused(u)
  BY <1>1, <1>2, NoneAwaited
<1>5. Phases'
  BY <1>2, <1>3 DEF Phases
<1>6. CASE NotSent
  <2>1. pending' = pending /\ unread' = unread
    BY <1>6 DEF NotSent
  <2>2. SessionTypes' /\ SessionInv'
    <3>1. Untouched
      BY <1>3, <2>1 DEF Untouched, session
    <3> QED BY <1>1, <1>3, <3>1, UntouchedKeeps
  <2>3. TypeOK'
    BY <1>1, <1>3, <2>1, <2>2 DEF TypeOK, SessionTypes
  <2>4. Timing'
    BY <1>1, <1>2, <1>3, <2>1 DEF Timing
  <2>5. Unread'
    BY <1>1, <1>3, <1>4, <2>1, UnreadExcused
  <2> QED BY <1>5, <2>2, <2>3, <2>4, <2>5 DEF PasteInv
<1>7. CASE Sent
  <2>1. /\ now \in Nat /\ fired \in Nat /\ HungLimit \in Nat
        /\ paste.delay \in Nat /\ paste.delay >= 1 /\ paste.delay \in Delays
        /\ paste.window \in Window /\ paste.window \notin gone
    BY <1>1, <1>2, <1>7, SentGives, Apart DEF TypeOK
  <2>2. PICK most \in Nat : most = Max({paste.delay, HungLimit}) /\ most >= paste.delay
    BY <2>1, GreatestOfTwo
  <2>3. PICK limit \in Nat : limit = now + most
    BY <2>1
  <2>5. /\ pending' \in Pending /\ pending' # None /\ pending'.restoreAt = now + paste.delay
        /\ pending'.hardLimit = limit /\ pending'.target = paste.window
        /\ pending'.window = pending.window /\ pending'.original = pending.original
        /\ pending'.written = pending.written /\ ~pending'.due
        /\ pending'.seenBusy = pending.seenBusy /\ pending'.settled = pending.settled
        /\ pending'.retrySince = pending.retrySince /\ pending'.nextTry = pending.nextTry
    BY <1>1, <1>2, <1>7, <2>2, <2>3, SentGives
  <2>6. SessionTypes' /\ SessionInv'
    <3>1. PutOff
      BY <1>2, <1>3, <2>1, <2>2, <2>3, <2>5 DEF PutOff
    <3> QED BY <1>1, <1>3, <3>1, PutOffKeeps
  <2>7. PICK new \in Keystroke :
           /\ unread' = unread \cup {new} /\ new.paste = fired /\ new.window = paste.window
           /\ new.sent = now /\ new.delay = paste.delay /\ new.by = now + paste.delay - 1
    <3>1. PICK by \in Nat : by = now + paste.delay - 1
      BY <2>1
    <3>2. PICK new : new = [paste |-> fired, window |-> paste.window, sent |-> now,
                            delay |-> paste.delay, by |-> by]
      OBVIOUS
    <3>3. new \in Keystroke
      BY <2>1, <3>2 DEF Keystroke
    <3>4. unread' = unread \cup {new}
      BY <1>7, <3>1, <3>2 DEF Sent
    <3> QED BY <3>1, <3>2, <3>3, <3>4
  <2>8. TypeOK'
    BY <1>1, <1>3, <2>6, <2>7 DEF TypeOK, SessionTypes
  <2>9. Timing'
    BY <1>1, <1>2, <1>3, <2>1, <2>2, <2>3, <2>5 DEF Timing
  <2>10. ASSUME NEW u \in unread PROVE Sending(u)' /\ Excused(u)'
    <3>1. Sending(u)'
      BY <1>1, <1>3 DEF Unread, Sending
    <3>2. Excused(u)'
      BY <1>3, <1>4 DEF Excused
    <3> QED BY <3>1, <3>2
  <2>11. Sending(new)'
    BY <1>3, <2>1, <2>7 DEF Sending
  <2>12. Awaited(new)'
    <3>1. ~pending'.seenBusy /\ ~pending'.settled
      BY <1>1, <1>2, <2>5 DEF TypeOK
    <3>2. pending'.hardLimit = new.sent + Max({new.delay, HungLimit})
      BY <2>2, <2>3, <2>5, <2>7
    <3>3. new.by < pending'.restoreAt
      BY <2>1, <2>5, <2>7
    <3> QED BY <1>2, <1>3, <2>5, <2>7, <3>1, <3>2, <3>3 DEF Awaited
  <2>13. Unread'
    BY <2>7, <2>10, <2>11, <2>12 DEF Unread
  <2> QED BY <1>5, <2>6, <2>8, <2>9, <2>13 DEF PasteInv
<1> QED BY <1>6, <1>7 DEF Send

(* The restore is tried again, unless it was tried for RestoreLimit.          *)
LEMMA RetryGives ==
    ASSUME TypeOK, Phases, Timing, at = "restore", RestoreBusy
    PROVE  \/ GivenUp(FALSE) /\ now >= pending.restoreAt + RestoreLimit
           \/ /\ UNCHANGED <<window, lastWindow, made, registered, clipboard, left>>
              /\ pending' \in Pending /\ pending' # None /\ pending'.due
              /\ pending'.window = pending.window /\ pending'.original = pending.original
              /\ pending'.written = pending.written /\ pending'.target = pending.target
              /\ pending'.restoreAt = pending.restoreAt /\ pending.restoreAt <= now
              /\ pending'.hardLimit = pending.hardLimit
              /\ pending'.seenBusy = pending.seenBusy /\ pending'.settled = pending.settled
              /\ pending'.nextTry = now + 1 /\ pending'.retrySince \in Nat
              /\ pending.restoreAt <= pending'.retrySince
              /\ pending'.retrySince <= pending.hardLimit
              /\ pending'.nextTry <= pending'.retrySince + RestoreLimit
<1>1. PICK since : since = Since(pending.retrySince)
  OBVIOUS
<1>2. /\ RestoreDue /\ pending # None /\ pending \in Pending /\ RestoreLimit \in Nat
      /\ pending.restoreAt \in Nat /\ pending.hardLimit \in Nat
      /\ pending.retrySince \in Nat \cup {None} /\ now \in Nat /\ ending = None
  BY Apart DEF RestoreBusy, RestoreDue, TypeOK, Pending, Phases
<1>3. /\ since \in Nat /\ pending.restoreAt <= since /\ since <= pending.hardLimit
  <2>1. CASE pending.retrySince = None
    <3>1. since = now
      BY <1>1, <2>1 DEF Since
    <3>2. pending.restoreAt <= now /\ now <= pending.hardLimit
      BY <1>2, <2>1 DEF Timing, RestoreDue
    <3> QED BY <1>2, <3>1, <3>2
  <2>2. CASE pending.retrySince # None
    BY <1>1, <1>2, <2>2 DEF Since, Timing
  <2> QED BY <2>1, <2>2
<1>4. CASE GivesUp(since)
  <2>1. GivenUp(FALSE)
    BY <1>1, <1>4 DEF RestoreBusy
  <2>2. now - since >= RestoreLimit
    BY <1>4 DEF GivesUp
  <2>3. now >= pending.restoreAt + RestoreLimit
    BY <1>2, <1>3, <2>2
  <2> QED BY <2>1, <2>3
<1>5. CASE ~GivesUp(since)
  <2>1. PICK next \in Nat : next = now + 1
    BY <1>2
  <2>2. /\ pending' = [pending EXCEPT !.due = TRUE, !.retrySince = since, !.nextTry = next]
        /\ UNCHANGED <<window, lastWindow, made, registered, clipboard, left>>
    BY <1>1, <1>5, <2>1 DEF RestoreBusy
  <2>3. pending' \in Pending
    BY <1>2, <1>3, <2>2 DEF Pending
  <2>4. next <= since + RestoreLimit
    BY <1>2, <1>3, <1>5, <2>1 DEF GivesUp
  <2>5. pending.restoreAt <= now
    BY <1>2 DEF Timing, RestoreDue
  <2>6. /\ pending'.due /\ pending'.retrySince = since /\ pending'.nextTry = next
        /\ pending'.window = pending.window /\ pending'.original = pending.original
        /\ pending'.written = pending.written /\ pending'.target = pending.target
        /\ pending'.restoreAt = pending.restoreAt /\ pending'.hardLimit = pending.hardLimit
        /\ pending'.seenBusy = pending.seenBusy /\ pending'.settled = pending.settled
    BY <1>2, <2>2 DEF Pending
  <2>7. pending' # None
    BY <2>3, Apart
  <2> QED BY <1>3, <2>1, <2>2, <2>3, <2>4, <2>5, <2>6, <2>7
<1> QED BY <1>4, <1>5

(* The end of a poll: the restore is tried once it is due.                    *)
LEMMA RestoreKeeps ==
    ASSUME PasteInv, RestoreIfDue
    PROVE  PasteInv'
<1>1. TypeOK /\ Phases /\ SessionInv /\ Unread /\ (pending # None => Timing)
  BY DEF PasteInv
<1>2. /\ at = "restore" /\ at' = "arm" /\ ending = None /\ now \in Nat
      /\ UNCHANGED <<env, now, ending, paste, fired, held, foreground, modifier, moves, busy,
                     gone, unread>>
  BY <1>1, Apart DEF RestoreIfDue, Phases, TypeOK
<1>3. Phases'
  BY <1>2 DEF Phases
<1>4. RestoreDue => \A u \in unread : Excused(u)
  BY <1>1, NoneAwaited DEF RestoreDue
<1>5. CASE RestoreDue /\ Restored
  <2>1. SessionTypes' /\ SessionInv'
    BY <1>1, <1>2, <1>5, RestoredKeeps
  <2>2. TypeOK'
    BY <1>1, <1>2, <2>1 DEF TypeOK, SessionTypes
  <2>3. pending' = None
    BY <1>5 DEF Restored, Ended
  <2>4. Unread'
    BY <1>1, <1>2, <1>4, <1>5, UnreadExcused
  <2> QED BY <1>3, <2>1, <2>2, <2>3, <2>4 DEF PasteInv
<1>6. CASE RestoreTries
  BY <1>1, <1>5, <1>6, RestoreEnds DEF RestoreTries, RestoreDue
<1>7. CASE RestoreBusy
  <2>1. RestoreDue /\ pending # None /\ RestoreLimit \in Nat
    BY <1>7, Apart DEF RestoreBusy, RestoreDue
  <2>2. CASE GivenUp(FALSE)
    BY <1>1, <1>5, <2>1, <2>2, RestoreEnds
  <2>3. CASE ~GivenUp(FALSE)
    <3>1. /\ UNCHANGED <<window, lastWindow, made, registered, clipboard, left>>
          /\ pending' \in Pending /\ pending' # None /\ pending'.due
          /\ pending'.window = pending.window /\ pending'.original = pending.original
          /\ pending'.written = pending.written /\ pending'.target = pending.target
          /\ pending'.restoreAt = pending.restoreAt /\ pending.restoreAt <= now
          /\ pending'.hardLimit = pending.hardLimit
          /\ pending'.seenBusy = pending.seenBusy /\ pending'.settled = pending.settled
          /\ pending'.nextTry = now + 1 /\ pending'.retrySince \in Nat
          /\ pending.restoreAt <= pending'.retrySince
          /\ pending'.retrySince <= pending.hardLimit
          /\ pending'.nextTry <= pending'.retrySince + RestoreLimit
      BY <1>1, <1>2, <1>7, <2>1, <2>3, RetryGives
    <3>2. SessionTypes' /\ SessionInv'
      <4>1. PutOff
        BY <1>1, <2>1, <3>1 DEF PutOff, TypeOK
      <4> QED BY <1>1, <1>2, <4>1, PutOffKeeps
    <3>3. TypeOK'
      BY <1>1, <1>2, <3>2 DEF TypeOK, SessionTypes
    <3>4. Timing'
      BY <1>2, <3>1, Apart DEF Timing
    <3>5. Unread'
      BY <1>1, <1>2, <1>4, <2>1, UnreadExcused
    <3> QED BY <1>3, <3>2, <3>3, <3>4, <3>5 DEF PasteInv
  <2> QED BY <2>2, <2>3
<1>8. CASE ~RestoreDue /\ Untouched
  <2>1. UNCHANGED <<pending, clipboard, left>>
    BY <1>8 DEF Untouched, session
  <2>2. SessionTypes' /\ SessionInv'
    BY <1>1, <1>2, <1>8, UntouchedKeeps
  <2>3. TypeOK'
    BY <1>1, <1>2, <2>2 DEF TypeOK, SessionTypes
  <2>4. ASSUME pending # None PROVE Timing'
    <3>1. pending.due => pending.nextTry # None
      BY <1>8, <2>4 DEF RestoreDue
    <3> QED BY <1>1, <1>2, <2>1, <2>4, <3>1 DEF Timing
  <2>5. \A u \in unread : paste # None =>
           /\ paste.chainSince # None => u.sent <= paste.chainSince
           /\ paste.wentAhead => u.sent + ChainLimit <= now
    BY <1>1 DEF Unread, Sending
  <2>6. Unread'
    BY <1>1, <1>2, <2>1, <2>5, UnreadOfPaste
  <2> QED BY <1>3, <2>1, <2>2, <2>3, <2>4, <2>6 DEF PasteInv
<1> QED BY <1>6, <1>7, <1>8 DEF RestoreIfDue
-----------------------------------------------------------------------------
(* What set_phrase does is one of these outcomes.                             *)
LEMMA SetPhraseGives ==
    ASSUME NEW p, SetPhrase(p), registered' = registered, left' = left
    PROVE  \/ PhraseSet(p) /\ at' = "send" /\ paste' = paste
           \/ PhraseRefused(p) /\ at' = "restore" /\ paste' = None
<1>1. PICK granted \in Granted :
         IF granted
         THEN /\ pending' = Renewed(p) /\ clipboard' = Phrase(p)
              /\ at' = "send" /\ window' = None
              /\ UNCHANGED <<paste, lastWindow, made>>
         ELSE /\ clipboard' \in PutBack(p, Content(-fired, <<>>, p.window))
              /\ pending' = None /\ lastWindow' = p.window
              /\ \/ made' = made + 1 /\ window' = made + 1
                 \/ window' = None /\ UNCHANGED made
              /\ Over
  BY DEF SetPhrase
<1>2. granted \in BOOLEAN /\ (~granted => "refuse" \in env)
  BY DEF Granted
<1>3. CASE granted
  BY <1>1, <1>3 DEF PhraseSet
<1>4. CASE ~granted
  BY <1>1, <1>2, <1>4 DEF PhraseRefused, Over
<1> QED BY <1>2, <1>3, <1>4

(* A try of the clipboard.  The paste goes on, waits, or is over.             *)
LEMMA OpenKeeps ==
    ASSUME PasteInv, Open
    PROVE  PasteInv'
<1>1. TypeOK /\ Phases /\ SessionInv /\ Unread /\ (pending # None => Timing)
  BY DEF PasteInv
<1>2. /\ at = "open" /\ ending = None /\ ending' = None /\ now \in Nat
      /\ paste \in Run /\ paste # None /\ paste.window # None
      /\ UNCHANGED <<env, now, fired, held, foreground, modifier, moves, busy, gone,
                     unread, left>>
  BY <1>1, Apart DEF Open, Phases, TypeOK
<1> DEFINE
      Tries == /\ paste' \in Run /\ paste'.window = paste.window
               /\ paste'.chainSince = paste.chainSince /\ paste'.wentAhead = paste.wentAhead
      Waiting ==
        \/ paste' = None /\ at' = "restore"
        \/ Tries /\ at' = "restore"
        \/ Tries /\ at' = "open"
        \/ /\ Tries /\ at' = "send"
           /\ pending' # None /\ pending'.target = None /\ ~pending'.due
           /\ clipboard'.of = -fired
      Later ==
        pending' # None =>
          \/ pending' = pending /\ at' = "restore"
          \/ /\ at' = "send" /\ pending'.nextTry = None /\ pending'.retrySince = None
             /\ ~pending'.due /\ pending'.hardLimit = now
      Goal == SessionTypes' /\ SessionInv' /\ Waiting /\ Later
<1>4. paste' = paste => Tries
  BY <1>2
<1>5. ASSUME OpenWindow PROVE Goal
  <2>1. /\ pending = None /\ pending' = None /\ made \in Nat
        /\ UNCHANGED <<lastWindow, registered, clipboard, left>>
        /\ \/ window' = made + 1 /\ made' = made + 1
           \/ window' = None /\ made' = made
    BY <1>1, <1>2, <1>5 DEF OpenWindow, MakeWindow, TypeOK
  <2>2. Waiting
    BY <1>2, <1>4, <1>5 DEF OpenWindow, Over
  <2>3. SessionTypes'
    BY <1>1, <2>1 DEF TypeOK, SessionTypes
  <2>4. Owners'
    BY <1>1, <2>1, Apart DEF SessionInv, Owners
  <2>5. "refuse" \notin env' => Contained'
    BY <1>1, <1>2, <2>1 DEF SessionInv, Contained, Returned, Saved
  <2> QED BY <2>1, <2>2, <2>3, <2>4, <2>5 DEF SessionInv
<1>6. ASSUME OwnerHangs PROVE Goal
  <2>1. Untouched /\ pending' = None
    BY <1>2, <1>6 DEF OwnerHangs, Untouched, session
  <2>2. Waiting
    BY <1>2, <1>6 DEF OwnerHangs, Over, Run
  <2> QED BY <1>1, <1>2, <2>1, <2>2, UntouchedKeeps
<1>7. ASSUME OpenBusy PROVE Goal
  <2>1. Untouched /\ pending' = pending
    BY <1>2, <1>7 DEF OpenBusy, Untouched, session
  <2>2. Waiting /\ at' = "restore"
    <3>1. CASE paste.tries < Len(OpenBackoff)
      <4>1. paste.tries + 1 \in 1 .. Len(OpenBackoff)
        <5>1. Len(OpenBackoff) \in Nat /\ paste.tries \in 0 .. Len(OpenBackoff)
          BY <1>2, PasteAssumption, LenProperties DEF Run
        <5> QED BY <3>1, <5>1
      <4>2. PICK t \in 1 .. Len(OpenBackoff) : t = paste.tries + 1
        BY <4>1
      <4>3. OpenBackoff[t] \in Nat
        BY PasteAssumption, ElementOfSeq
      <4>4. PICK time \in Nat : time = now + OpenBackoff[t]
        BY <1>2, <4>3
      <4>5. /\ paste' = [[paste EXCEPT !.tries = t] EXCEPT !.resume = time]
            /\ at' = "restore"
        BY <1>7, <3>1, <4>2, <4>4 DEF OpenBusy, WaitUntil
      <4>6. t \in 0 .. Len(OpenBackoff)
        BY PasteAssumption, LenProperties
      <4> QED BY <1>2, <4>4, <4>5, <4>6 DEF Run
    <3>2. CASE ~(paste.tries < Len(OpenBackoff))
      BY <1>7, <3>2 DEF OpenBusy, Over
    <3> QED BY <3>1, <3>2
  <2>3. SessionTypes' /\ SessionInv'
    BY <1>1, <1>2, <2>1, UntouchedKeeps
  <2> HIDE DEF Waiting
  <2> QED BY <2>1, <2>2, <2>3
<1>8. ASSUME NEW p \in Pending, SetPhrase(p), registered' = registered,
             p.window \in 1 .. made, left.owner = p.window => "added" \in ToSet(left.formats),
             "refuse" \notin env =>
               /\ registered = {"marks", "restored"}
               /\ ToSet(p.original.formats) \subseteq Copied
               /\ p.original.of = left.of /\ Saved(p.original.formats)
      PROVE  Goal
  <2>1. CASE PhraseSet(p) /\ at' = "send" /\ paste' = paste
    <3>1. SessionTypes' /\ SessionInv'
      BY <1>1, <1>2, <1>8, <2>1, SetPhraseKeeps
    <3>2. clipboard'.of = -fired
      BY <1>1, <1>8, <2>1, PhraseType DEF PhraseSet
    <3>3. /\ pending' # None /\ pending'.target = None /\ ~pending'.due
          /\ pending'.nextTry = None /\ pending'.retrySince = None /\ pending'.hardLimit = now
      <4>1. p.window \in Nat /\ p.original \in Original
        BY <1>8 DEF Pending
      <4> QED BY <1>1, <2>1, <4>1, NewPendingType DEF PhraseSet, Renewed
    <3> QED BY <1>4, <2>1, <3>1, <3>2, <3>3
  <2>2. CASE PhraseRefused(p) /\ at' = "restore" /\ paste' = None
    BY <1>1, <1>2, <1>8, <2>2, RefusedKeeps DEF PhraseRefused
  <2> QED BY <1>2, <1>8, <2>1, <2>2, SetPhraseGives
<1>9. ASSUME OpenChained PROVE Goal
  <2>1. /\ pending # None /\ pending \in Pending /\ StillOurs /\ SetPhrase(pending)
        /\ registered' = registered /\ pending.window \in 1 .. made
    BY <1>1, <1>9 DEF OpenChained, TypeOK
  <2>2. left.owner = pending.window => "added" \in ToSet(left.formats)
    BY <1>1, <2>1 DEF SessionInv, Owners
  <2>3. ASSUME "refuse" \notin env
        PROVE  /\ registered = {"marks", "restored"}
               /\ ToSet(pending.original.formats) \subseteq Copied
               /\ pending.original.of = left.of /\ Saved(pending.original.formats)
    <3>1. clipboard # left
      BY <1>1, <2>1, OursIsNotLeft DEF SessionInv
    <3> QED BY <1>1, <2>1, <2>3, <3>1 DEF SessionInv, Contained
  <2> HIDE DEF Goal
  <2> QED BY <1>8, <2>1, <2>2, <2>3
<1>10. ASSUME OpenFresh PROVE Goal
  <2>1. PICK reads \in Reads(Enumerated(clipboard.formats)) :
           SetPhrase(NewPending(window, Save(reads)))
    BY <1>10 DEF OpenFresh
  <2>2. /\ pending = None /\ registered' = registered
        /\ window # None /\ window \in 1 .. made /\ window \in Nat
    BY <1>1, <1>10 DEF OpenFresh, Ready, TypeOK
  <2>3. PICK original \in Original : original = Save(reads)
    BY <1>1, SaveType
  <2>4. PICK p \in Pending : /\ p = NewPending(window, Save(reads))
                             /\ p.window = window /\ p.original = Save(reads)
    BY <1>1, <2>2, <2>3, NewPendingType
  <2>5. left.owner # p.window
    BY <1>1, <2>2, <2>4 DEF SessionInv, Owners
  <2>6. "refuse" \notin env =>
          /\ registered = {"marks", "restored"}
          /\ ToSet(p.original.formats) \subseteq Copied
          /\ p.original.of = left.of /\ Saved(p.original.formats)
    <3>1. "refuse" \notin env => Contained /\ registered = {"marks", "restored"}
      BY <1>1 DEF SessionInv, Contained
    <3> QED BY <1>1, <2>1, <2>2, <2>4, <3>1, FreshSaves
  <2> HIDE DEF Goal
  <2> QED BY <1>8, <2>1, <2>2, <2>4, <2>5, <2>6
<1>11. ASSUME OpenChanged PROVE Goal
  <2>1. Ended /\ paste' = paste /\ at' = "open" /\ clipboard' = clipboard /\ ~StillOurs
    BY <1>1, <1>2, <1>11, SessionEnds DEF OpenChanged
  <2>2. Restored
    BY <1>2, <2>1 DEF Restored
  <2> QED BY <1>1, <1>2, <1>4, <2>1, <2>2, RestoredKeeps DEF Ended
<1>12. ASSUME OpenNotEmptied PROVE Goal
  <2>1. Untouched /\ paste' = None /\ at' = "restore" /\ pending' = pending
    BY <1>2, <1>12 DEF OpenNotEmptied, Untouched, session, Over
  <2> QED BY <1>1, <1>2, <2>1, UntouchedKeeps
<1>13. Goal
  <2> HIDE DEF Goal
  <2> QED BY <1>5, <1>6, <1>7, <1>9, <1>10, <1>11, <1>12 DEF Open
<1>14. paste' # None => Tries
  BY <1>13
<1>15. TypeOK'
  BY <1>1, <1>2, <1>13 DEF TypeOK, SessionTypes
<1>16. Phases'
  <2>1. at' = "open" => pending' = None
    BY <1>13
  <2>2. paste' # None => paste'.window # None
    BY <1>2, <1>14
  <2>3. at' \in {"open", "send"} => paste' # None
    BY <1>13, Apart
  <2>4. at' = "send" => /\ pending' # None /\ pending'.target = None /\ ~pending'.due
                        /\ clipboard'.of = -fired'
    BY <1>2, <1>13, Apart
  <2>5. at' \in {"open", "send", "restore"}
    BY <1>13
  <2> QED BY <1>2, <2>1, <2>2, <2>3, <2>4, <2>5 DEF Phases
<1>17. pending' # None => Timing'
  BY <1>1, <1>2, <1>13 DEF Timing
<1>18. Unread'
  <2> SUFFICES ASSUME NEW u \in unread PROVE Sending(u)' /\ Excused(u)'
    BY <1>2 DEF Unread
  <2>1. Excused(u)'
    BY <1>1, <1>2, NoneAwaitedAtOpen DEF Excused
  <2>2. Sending(u)
    BY <1>1 DEF Unread
  <2>3. Sending(u)'
    BY <1>2, <1>14, <2>2 DEF Sending
  <2> QED BY <2>1, <2>3
<1> QED BY <1>13, <1>15, <1>16, <1>17, <1>18 DEF PasteInv
-----------------------------------------------------------------------------
(* Fewer keystrokes wait, and none of those that do is at a thread that is    *)
(* now busy, or no longer is, or in a window that went away.                  *)
LEMMA UnreadFewer ==
    ASSUME TypeOK, Unread, unread' \subseteq unread,
           UNCHANGED <<env, now, fired, pending, clipboard, left, paste>>,
           \A u \in unread' :
             u.window \notin gone' /\ (u.window \in busy' <=> u.window \in busy)
    PROVE  Unread'
<1> SUFFICES ASSUME NEW u \in unread' PROVE Sending(u)' /\ (Excused(u)' \/ Awaited(u)')
  BY DEF Unread
<1>1. u \in unread /\ Sending(u) /\ (Excused(u) \/ Awaited(u))
  BY DEF Unread
<1>2. Sending(u)'
  BY <1>1 DEF Sending
<1>3. Excused(u) => Excused(u)'
  BY DEF Excused
<1>4. Awaited(u) => Awaited(u)'
  BY DEF Awaited
<1> QED BY <1>1, <1>2, <1>3, <1>4

(* The timer, and the end of the executor.                                    *)
LEMMA ExecutorGives ==
    ASSUME TypeOK, Phases, Executor
    PROVE  /\ Untouched \/ Restored
           /\ UNCHANGED <<env, now, fired, held, foreground, modifier, moves, busy, gone,
                          unread>>
           /\ paste' \in {None, paste} /\ ending' \in Ending \cup {None}
           /\ \/ at = "arm" /\ at' = "idle" /\ ending' = None
                 /\ ((Untouched /\ paste' = paste) \/ "timer" \in env)
              \/ "stop" \in env /\ at' = "closing" /\ ending' # None
              \/ "stop" \in env /\ at' \in {"ending", "ended"} /\ ending' = ending
           /\ pending' # None => Untouched
<1>1. /\ UNCHANGED <<env, now, fired, held, foreground, modifier, moves, busy, gone, unread>>
      /\ now \in Nat /\ ClosingLimit \in Nat /\ ending \in Ending \cup {None}
  <2>1. now \in Nat /\ ClosingLimit \in Nat
    BY Apart DEF TypeOK
  <2> QED BY <2>1 DEF Executor, TypeOK
<1>2. Restored => pending' = None
  BY DEF Restored, Ended
<1>3. ASSUME NEW exit, LastTry(exit) PROVE (Untouched /\ pending' = None) \/ Restored
  BY <1>3, LastTryEnds DEF Untouched, session
<1>4. CASE Arm
  BY <1>1, <1>4 DEF Arm, Phases
<1>5. CASE ArmFails
  BY <1>1, <1>2, <1>3, <1>5 DEF ArmFails, Phases
<1>6. CASE Stop
  <2>1. PICK until \in Nat : until = now + ClosingLimit
    BY <1>1
  <2>2. ending' = [until |-> until, next |-> now] /\ ending' \in Ending
    BY <1>1, <1>6, <2>1 DEF Stop, Ending
  <2> QED BY <1>1, <1>6, <2>2, Apart DEF Stop
<1>7. CASE Die
  BY <1>1, <1>7 DEF Die
<1>8. CASE Close
  <2>1. /\ at = "closing" /\ ending \in Ending /\ ending # None /\ "stop" \in env
        /\ paste' = paste
    BY <1>1, <1>8 DEF Close, Phases
  <2>2. CASE pending = None /\ at' = "ending" /\ Untouched /\ ending' = ending
    BY <1>1, <2>1, <2>2
  <2>3. CASE pending # None /\ TryRestore(TRUE) /\ at' = "ending" /\ ending' = ending
    BY <1>1, <1>2, <2>1, <2>3, RestoreEnds
  <2>4. CASE /\ pending # None /\ held /\ CloseRetried
             /\ ending' = [ending EXCEPT !.next = Min({now + 1, ending.until})]
             /\ Untouched /\ UNCHANGED at
    <3>1. now + 1 \in Nat /\ ending.until \in Nat
      BY <1>1, <2>1 DEF Ending
    <3>2. PICK time \in Nat : time = Min({now + 1, ending.until})
      BY <3>1, LeastOfTwo
    <3>3. ending' = [ending EXCEPT !.next = time]
      BY <2>4, <3>2
    <3>4. ending' \in Ending
      BY <2>1, <3>3 DEF Ending
    <3> QED BY <1>1, <2>1, <2>4, <3>4, Apart
  <2>5. CASE pending # None /\ at' = "ending" /\ GivenUp(TRUE) /\ ending' = ending
    BY <1>1, <1>2, <2>1, <2>5, RestoreEnds
  <2> QED BY <1>8, <2>2, <2>3, <2>4, <2>5 DEF Close
<1>9. CASE Abandon
  BY <1>1, <1>2, <1>3, <1>9 DEF Abandon, Phases
<1> QED BY <1>4, <1>5, <1>6, <1>7, <1>8, <1>9 DEF Executor

(* So the timer and the end of the executor keep the invariant.               *)
LEMMA ExecutorKeeps ==
    ASSUME PasteInv, Executor
    PROVE  PasteInv'
<1>1. TypeOK /\ Phases /\ SessionInv /\ Unread /\ (pending # None => Timing)
  BY DEF PasteInv
<1>2. /\ Untouched \/ Restored
      /\ UNCHANGED <<env, now, fired, held, foreground, modifier, moves, busy, gone, unread>>
      /\ paste' \in {None, paste} /\ ending' \in Ending \cup {None}
      /\ \/ at = "arm" /\ at' = "idle" /\ ending' = None
            /\ ((Untouched /\ paste' = paste) \/ "timer" \in env)
         \/ "stop" \in env /\ at' = "closing" /\ ending' # None
         \/ "stop" \in env /\ at' \in {"ending", "ended"} /\ ending' = ending
      /\ pending' # None => Untouched
  BY <1>1, ExecutorGives
<1>3. SessionTypes' /\ SessionInv'
  BY <1>1, <1>2, UntouchedKeeps, RestoredKeeps
<1>4. TypeOK'
  BY <1>1, <1>2, <1>3 DEF TypeOK, SessionTypes
<1>5. Phases'
  BY <1>2 DEF Phases
<1>6. ASSUME pending' # None PROVE Timing'
  <2>1. pending' = pending
    BY <1>2, <1>6 DEF Untouched, session
  <2>2. ending' = None => ending = None
    BY <1>1, <1>2 DEF Phases
  <2> QED BY <1>1, <1>2, <1>6, <2>1, <2>2 DEF Timing
<1>7. Unread'
  <2>1. CASE env \cap {"stop", "timer"} # {}
    BY <1>1, <1>2, <2>1, NoneAwaited, UnreadExcused
  <2>2. CASE env \cap {"stop", "timer"} = {}
    <3>1. Untouched /\ paste' = paste
      BY <1>2, <2>2
    <3>2. UNCHANGED <<pending, clipboard, left>>
      BY <3>1 DEF Untouched, session
    <3>3. \A u \in unread : u.window \notin gone
      BY <1>1 DEF Unread, Sending
    <3> QED BY <1>1, <1>2, <3>1, <3>2, <3>3, UnreadFewer
  <2> QED BY <2>1, <2>2
<1> QED BY <1>3, <1>4, <1>5, <1>6, <1>7 DEF PasteInv
-----------------------------------------------------------------------------
(* The content another program copies, or adds to.                            *)
LEMMA CopyGives ==
    ASSUME TypeOK, Copy, moves \in Nat
    PROVE  /\ clipboard' \in Contents /\ left' = clipboard'
           /\ \/ clipboard'.owner = Other
              \/ clipboard'.owner = clipboard.owner /\ "added" \in ToSet(clipboard'.formats)
<1>1. CASE \E formats \in Copies : clipboard' = Content(moves + 1, formats, Other)
  <2>1. PICK formats \in Copies : clipboard' = Content(moves + 1, formats, Other)
    BY <1>1
  <2>2. formats \in Seq(Format)
    BY CopiesType
  <2>3. moves + 1 \in Int
    OBVIOUS
  <2> QED BY <2>1, <2>2, <2>3 DEF Content, Contents, Copy
<1>2. CASE clipboard' = [clipboard EXCEPT !.formats = Append(@, "added")]
  <2>1. clipboard \in Contents /\ clipboard.formats \in Seq(Format) /\ "added" \in Format
    BY DEF TypeOK, Contents, Format
  <2>2. PICK f \in Seq(Format) : f = Append(clipboard.formats, "added")
                                 /\ "added" \in ToSet(f)
    <3>1. Append(clipboard.formats, "added") \in Seq(Format)
      BY <2>1, AppendProperties
    <3>2. ToSet(Append(clipboard.formats, "added")) = ToSet(clipboard.formats) \cup {"added"}
      BY <2>1, ElementsAppended
    <3> QED BY <3>1, <3>2
  <2>3. clipboard' = [clipboard EXCEPT !.formats = f]
    BY <1>2, <2>2
  <2> QED BY <2>1, <2>2, <2>3 DEF Contents, Copy
<1> QED BY <1>1, <1>2 DEF Copy

(* Other programs and the user, between any two steps of the daemon.          *)
LEMMA OthersKeep ==
    ASSUME PasteInv, Others
    PROVE  PasteInv'
<1>1. TypeOK /\ Phases /\ SessionInv /\ Unread /\ (pending # None => Timing)
  BY DEF PasteInv
<1>2. /\ UNCHANGED <<env, now, at, ending, fired, session>>
      /\ moves' \in 0 .. MaxMoves /\ moves \in Nat
      /\ UNCHANGED <<pending, window, lastWindow, made, registered>>
  BY <1>1, Apart DEF Others, session, TypeOK
<1>3. pending' # None => Timing'
  BY <1>1, <1>2 DEF Timing
<1>4. CASE Copy
  <2>1. UNCHANGED <<held, foreground, modifier, busy, gone, unread, paste>>
        /\ left' = clipboard'
    BY <1>4 DEF Copy
  <2>2. /\ clipboard' \in Contents
        /\ \/ clipboard'.owner = Other
           \/ clipboard'.owner = clipboard.owner /\ "added" \in ToSet(clipboard'.formats)
    BY <1>1, <1>2, <1>4, CopyGives
  <2>3. SessionTypes'
    BY <1>1, <1>2, <2>1, <2>2 DEF TypeOK, SessionTypes
  <2>4. Owners'
    <3>1. pending # None => pending.window \in 1 .. made
      BY <1>1 DEF TypeOK
    <3>2. clipboard'.owner = clipboard.owner \/ clipboard'.owner = Other
      BY <2>2
    <3>3. window # None => window # Other
      BY <1>1, Apart DEF TypeOK
    <3>4. pending # None => pending.window # Other
      BY <1>1, Apart DEF TypeOK, Pending
    <3> QED BY <1>1, <1>2, <2>1, <2>2, <3>1, <3>3, <3>4 DEF SessionInv, Owners
  <2>5. "refuse" \notin env' => Contained'
    BY <1>1, <1>2, <2>1 DEF SessionInv, Contained
  <2>6. TypeOK'
    BY <1>1, <1>2, <2>1, <2>3 DEF TypeOK, SessionTypes
  <2>7. Phases'
    BY <1>1, <1>2, <2>1 DEF Phases
  <2>8. Unread'
    <3> SUFFICES ASSUME NEW u \in unread PROVE Sending(u)' /\ (Excused(u)' \/ Awaited(u)')
      BY <2>1 DEF Unread
    <3>1. Sending(u)'
      BY <1>1, <1>2, <2>1 DEF Unread, Sending
    <3>2. Excused(u) => Excused(u)'
      BY <1>2, <2>1 DEF Excused
    <3>3. Awaited(u) => Awaited(u)'
      BY <1>2, <2>1 DEF Awaited
    <3> QED BY <1>1, <3>1, <3>2, <3>3 DEF Unread
  <2> QED BY <1>3, <2>3, <2>4, <2>5, <2>6, <2>7, <2>8 DEF PasteInv, SessionInv
<1>5. CASE ~Copy
  <2>1. /\ UNCHANGED <<clipboard, left>>
        /\ Hold \/ Hang \/ Vanish \/ Act \/ Cancel
    BY <1>5 DEF Others, Hold, Hang, Vanish, Act, Cancel
  <2>2. SessionTypes' /\ SessionInv'
    <3>1. Untouched
      BY <1>2, <2>1 DEF Untouched
    <3> QED BY <1>1, <1>2, <3>1, UntouchedKeeps
  <2>3. \A u \in unread : u.window \notin gone /\ u \in Keystroke
    BY <1>1 DEF Unread, Sending, TypeOK
  <2>4. /\ held' \in BOOLEAN /\ modifier' \in BOOLEAN
        /\ foreground' \in (Window \ gone') \cup {None}
        /\ busy' \subseteq Window \cup {Other} /\ gone' \subseteq Window
        /\ unread' \subseteq unread
        /\ \A u \in unread' :
             u.window \notin gone' /\ (u.window \in busy' <=> u.window \in busy)
        /\ paste' = paste \/ Cancel
    <3>1. CASE Hold \/ Cancel
      BY <1>1, <2>3, <3>1 DEF Hold, Cancel, TypeOK
    <3>2. CASE Hang
      BY <1>1, <2>3, <3>2 DEF Hang, TypeOK
    <3>3. CASE Vanish
      BY <1>1, <2>3, <3>3 DEF Vanish, TypeOK
    <3>4. CASE Act
      BY <1>1, <2>3, <3>4 DEF Act, TypeOK
    <3> QED BY <2>1, <3>1, <3>2, <3>3, <3>4
  <2>5. /\ paste' \in Run \cup {None} /\ (paste # None => paste' # None)
        /\ (paste # None => paste'.window = paste.window)
        /\ paste # None => /\ paste'.chainSince = paste.chainSince
                           /\ paste'.wentAhead = paste.wentAhead
        /\ paste = None => paste' = None
    <3>1. CASE paste' = paste
      BY <1>1, <3>1 DEF TypeOK
    <3>2. CASE Cancel
      <4>1. paste \in Run /\ paste # None /\ paste' = [paste EXCEPT !.live = FALSE]
        BY <1>1, <3>2 DEF Cancel, TypeOK
      <4>2. paste' \in Run
        BY <4>1 DEF Run
      <4> QED BY <4>1, <4>2, Apart DEF Run
    <3> QED BY <2>4, <3>1, <3>2
  <2>6. TypeOK'
    BY <1>1, <1>2, <2>2, <2>4, <2>5 DEF TypeOK, SessionTypes
  <2>7. Phases'
    BY <1>1, <1>2, <2>1, <2>5 DEF Phases
  <2>8. Unread'
    <3>1. CASE paste' = paste
      BY <1>1, <1>2, <2>1, <2>4, <3>1, UnreadFewer
    <3>2. CASE Cancel
      <4>1. UNCHANGED <<busy, gone, unread>>
        BY <3>2 DEF Cancel
      <4>2. \A u \in unread : paste # None =>
               /\ paste.chainSince # None => u.sent <= paste.chainSince
               /\ paste.wentAhead => u.sent + ChainLimit <= now
        BY <1>1 DEF Unread, Sending
      <4> QED BY <1>1, <1>2, <2>1, <2>5, <4>1, <4>2, UnreadOfPaste
    <3> QED BY <2>4, <3>1, <3>2
  <2> QED BY <1>3, <2>2, <2>6, <2>7, <2>8 DEF PasteInv
<1> QED BY <1>4, <1>5

(* A program closes the clipboard, or a window handles a keystroke.           *)
LEMMA ReleaseKeeps ==
    ASSUME PasteInv, Release \/ Handle
    PROVE  PasteInv'
<1>1. TypeOK /\ Phases /\ SessionInv /\ Unread /\ (pending # None => Timing)
  BY DEF PasteInv
<1>2. /\ UNCHANGED <<env, now, at, ending, paste, fired, pending, window, lastWindow, made,
                     registered, clipboard, foreground, moves, busy, gone, left>>
      /\ held' \in BOOLEAN /\ modifier' \in BOOLEAN /\ unread' \subseteq unread
  BY <1>1 DEF Release, Handle, session, world, TypeOK
<1>3. SessionTypes' /\ SessionInv'
  <2>1. Untouched
    BY <1>2 DEF Untouched, session
  <2> QED BY <1>1, <1>2, <2>1, UntouchedKeeps
<1>4. TypeOK'
  BY <1>1, <1>2, <1>3 DEF TypeOK, SessionTypes
<1>5. Phases'
  BY <1>1, <1>2 DEF Phases
<1>6. pending' # None => Timing'
  BY <1>1, <1>2 DEF Timing
<1>7. Unread'
  <2>1. \A u \in unread : u.window \notin gone
    BY <1>1 DEF Unread, Sending
  <2> QED BY <1>1, <1>2, <2>1, UnreadFewer
<1> QED BY <1>3, <1>4, <1>5, <1>6, <1>7 DEF PasteInv

(* A busy thread is done: its keystroke is read before the restore.           *)
LEMMA RecoverKeeps ==
    ASSUME PasteInv, Recover
    PROVE  PasteInv'
<1>1. TypeOK /\ Phases /\ SessionInv /\ Unread /\ (pending # None => Timing)
  BY DEF PasteInv
<1>2. UNCHANGED <<env, now, at, ending, paste, fired, pending, window, lastWindow, made,
                  registered, clipboard, held, foreground, modifier, moves, gone, left>>
  BY DEF Recover, session
<1>3. PICK w \in busy : /\ (\E u \in unread : u.window = w) => InSight(w)
                      /\ Done(w)
  BY DEF Recover
<1>4. /\ busy' \subseteq Window \cup {Other} /\ busy' = busy \ {w}
      /\ unread' \subseteq Keystroke
      /\ \A v \in unread' : \E u \in unread :
           /\ v.paste = u.paste /\ v.window = u.window /\ v.sent = u.sent
           /\ v.delay = u.delay
           /\ v.by = IF u.window = w THEN now + Settle - 1 ELSE u.by
  BY <1>1, <1>3, DoneGives
<1>5. now \in Nat /\ Settle \in Nat /\ Settle >= 1
  BY <1>1, Apart DEF TypeOK
<1>6. SessionTypes' /\ SessionInv'
  <2>1. Untouched
    BY <1>2 DEF Untouched, session
  <2> QED BY <1>1, <1>2, <2>1, UntouchedKeeps
<1>7. TypeOK'
  BY <1>1, <1>2, <1>4, <1>6 DEF TypeOK, SessionTypes
<1>8. Phases'
  BY <1>1, <1>2 DEF Phases
<1>9. pending' # None => Timing'
  BY <1>1, <1>2 DEF Timing
<1>10. ASSUME NEW v \in unread' PROVE Sending(v)' /\ (Excused(v)' \/ Awaited(v)')
  <2>1. PICK u \in unread :
           /\ v.paste = u.paste /\ v.window = u.window /\ v.sent = u.sent
           /\ v.delay = u.delay
           /\ v.by = IF u.window = w THEN now + Settle - 1 ELSE u.by
    BY <1>4, <1>10
  <2>2. Sending(u) /\ (Excused(u) \/ Awaited(u))
    BY <1>1 DEF Unread
  <2>3. Sending(v)'
    BY <1>2, <1>4, <1>5, <2>1, <2>2 DEF Sending
  <2>4. CASE Excused(u)
    <3>1. Excused(v)'
      BY <1>2, <2>1, <2>4 DEF Excused
    <3> QED BY <2>3, <3>1
  <2>5. CASE Awaited(u)
    <3>1. CASE u.window # w
      <4>1. v.by = u.by /\ (v.window \in busy' <=> u.window \in busy)
        BY <1>4, <2>1, <3>1
      <4>2. Awaited(v)'
        BY <1>2, <2>1, <2>5, <4>1 DEF Awaited
      <4> QED BY <2>3, <4>2
    <3>2. CASE u.window = w
      <4>1. /\ v.window \notin busy' /\ v.by = now + Settle - 1 /\ ~pending.settled
            /\ pending # None /\ pending.target = w
        BY <1>4, <2>1, <2>5, <3>2 DEF Awaited
      <4>2. pending.seenBusy \/ now + Settle <= pending.restoreAt
        BY <1>3, <3>2, <4>1 DEF InSight
      <4>3. pending.restoreAt \in Nat
        BY <1>1, <4>1 DEF TypeOK, Pending
      <4>4. IF pending.seenBusy /\ ~pending.settled THEN v.by < now + Settle
            ELSE v.by < pending.restoreAt \/ pending.restoreAt = pending.hardLimit
        BY <1>5, <4>1, <4>2, <4>3
      <4>5. Awaited(v)'
        BY <1>2, <2>1, <2>5, <4>1, <4>4 DEF Awaited
      <4> QED BY <2>3, <4>5
    <3> QED BY <3>1, <3>2
  <2> QED BY <2>2, <2>4, <2>5
<1>11. Unread'
  BY <1>10 DEF Unread
<1> QED BY <1>6, <1>7, <1>8, <1>9, <1>11 DEF PasteInv

(* A paste is fired: the keystrokes before it are of earlier pastes.          *)
LEMMA FireKeeps ==
    ASSUME PasteInv, Fire
    PROVE  PasteInv'
<1>1. TypeOK /\ Phases /\ SessionInv /\ Unread /\ (pending # None => Timing)
  BY DEF PasteInv
<1>2. /\ UNCHANGED <<env, now, at, ending, pending, window, lastWindow, made, registered,
                     clipboard, held, foreground, modifier, moves, busy, gone, unread, left>>
      /\ at = "idle" /\ fired' = fired + 1 /\ fired \in Nat /\ fired' \in 0 .. MaxPastes
      /\ now \in Nat
  BY <1>1, Apart DEF Fire, session, world, TypeOK
<1>3. PICK delay \in Delays :
         paste' = [window |-> None, delay |-> delay, live |-> TRUE, chainSince |-> None,
                   wentAhead |-> FALSE, modifiersSince |-> None, prechecked |-> FALSE,
                   tries |-> 0, resume |-> now]
  BY DEF Fire
<1>4. paste' \in Run /\ paste'.chainSince = None /\ ~paste'.wentAhead
  <2>1. 0 \in 0 .. Len(OpenBackoff)
    BY PasteAssumption, LenProperties
  <2> QED BY <1>2, <1>3, <2>1 DEF Run
<1>5. SessionTypes' /\ SessionInv'
  <2>1. Untouched
    BY <1>2 DEF Untouched, session
  <2> QED BY <1>1, <1>2, <2>1, UntouchedKeeps
<1>6. TypeOK'
  BY <1>1, <1>2, <1>4, <1>5 DEF TypeOK, SessionTypes
<1>7. Phases'
  BY <1>1, <1>2 DEF Phases
<1>8. pending' # None => Timing'
  BY <1>1, <1>2 DEF Timing
<1>9. Unread'
  <2> SUFFICES ASSUME NEW u \in unread PROVE Sending(u)' /\ (Excused(u)' \/ Awaited(u)')
    BY <1>2 DEF Unread
  <2>1. Sending(u) /\ (Excused(u) \/ Awaited(u)) /\ u.paste \in Nat
    BY <1>1, KeystrokeTypes DEF Unread
  <2>2. Sending(u)'
    BY <1>2, <1>4, <2>1 DEF Sending
  <2>3. Excused(u) => Excused(u)'
    BY <1>2, <2>1 DEF Excused
  <2>4. Awaited(u) => Awaited(u)'
    BY <1>2 DEF Awaited
  <2> QED BY <2>1, <2>2, <2>3, <2>4
<1> QED BY <1>5, <1>6, <1>7, <1>8, <1>9 DEF PasteInv

(* Time passes, but not past a deadline of the executor or a window.          *)
LEMMA TickKeeps ==
    ASSUME PasteInv, Tick
    PROVE  PasteInv'
<1>1. TypeOK /\ Phases /\ SessionInv /\ Unread /\ (pending # None => Timing)
  BY DEF PasteInv
<1>2. /\ UNCHANGED <<env, at, ending, paste, fired, pending, window, lastWindow, made,
                     registered, clipboard, held, foreground, modifier, moves, busy, gone,
                     unread, left>>
      /\ now' = now + 1 /\ now \in Nat /\ now' \in 0 .. MaxTime
      /\ \A u \in unread : u.window \in busy \/ now < u.by
      /\ \/ at = "idle" /\ ~Expired
         \/ at = "closing" /\ ending # None
  BY <1>1, Apart DEF Tick, Waits, session, world, TypeOK, Phases
<1>3. SessionTypes' /\ SessionInv'
  <2>1. Untouched
    BY <1>2 DEF Untouched, session
  <2> QED BY <1>1, <1>2, <2>1, UntouchedKeeps
<1>4. TypeOK'
  BY <1>1, <1>2, <1>3 DEF TypeOK, SessionTypes
<1>5. Phases'
  BY <1>1, <1>2 DEF Phases
<1>6. ASSUME pending # None PROVE Timing'
  <2>1. /\ pending.restoreAt \in Nat /\ pending.hardLimit \in Nat /\ RestoreLimit \in Nat
        /\ pending.retrySince \in Nat \cup {None} /\ pending.nextTry \in Nat \cup {None}
        /\ pending.restoreAt <= pending.hardLimit
    BY <1>1, <1>6, Apart DEF TypeOK, Pending
  <2>2. CASE ending # None
    BY <1>1, <1>2, <1>6, <2>1, <2>2 DEF Timing
  <2>3. CASE ending = None
    <3>1. at = "idle" /\ ~Expired
      BY <1>2, <2>3
    <3>2. pending.due /\ pending.nextTry # None => now < pending.nextTry
      BY <1>2, <1>6, <2>1, <3>1 DEF Expired, Deadlines, SessionNext
    <3>3. ~pending.due => now < pending.restoreAt
      BY <1>2, <1>6, <2>1, <3>1 DEF Expired, Deadlines, SessionNext
    <3> QED BY <1>1, <1>2, <1>6, <2>1, <2>3, <3>1, <3>2, <3>3 DEF Timing
  <2> QED BY <2>2, <2>3
<1>7. Unread'
  <2> SUFFICES ASSUME NEW u \in unread PROVE Sending(u)' /\ (Excused(u)' \/ Awaited(u)')
    BY <1>2 DEF Unread
  <2>1. Sending(u) /\ (Excused(u) \/ Awaited(u))
    BY <1>1 DEF Unread
  <2>2. /\ u.sent \in Nat /\ u.by \in Nat /\ u.delay \in Nat /\ HungLimit \in Nat
        /\ ChainLimit \in Nat /\ Settle \in Nat
    BY <1>1, KeystrokeTypes, Apart
  <2>3. Sending(u)'
    BY <1>2, <2>1, <2>2 DEF Sending
  <2>4. Excused(u) => Excused(u)'
    <3>1. PICK limit \in Nat : limit = Max({u.delay, HungLimit})
      BY <2>2, GreatestOfTwo
    <3>2. now >= u.sent + limit => now + 1 >= u.sent + limit
      BY <1>2, <2>2
    <3>3. now >= u.sent + ChainLimit => now + 1 >= u.sent + ChainLimit
      BY <1>2, <2>2
    <3> QED BY <1>2, <3>1, <3>2, <3>3 DEF Excused
  <2>5. Awaited(u) => Awaited(u)'
    BY <1>2, <2>2 DEF Awaited
  <2> QED BY <2>1, <2>3, <2>4, <2>5
<1> QED BY <1>2, <1>3, <1>4, <1>5, <1>6, <1>7 DEF PasteInv
-----------------------------------------------------------------------------
(* The invariant holds at the start, and every step keeps it.                 *)
LEMMA PasteInit == Init => PasteInv
<1> SUFFICES ASSUME Init PROVE PasteInv
  OBVIOUS
<1>1. PICK formats \in Copies : clipboard = Content(0, formats, Other)
  BY DEF Init
<1>2. clipboard \in Contents /\ clipboard.owner = Other /\ left = clipboard
  <2>1. formats \in Seq(Format)
    BY CopiesType
  <2> QED BY <1>1, <2>1 DEF Init, Content, Contents
<1>3. registered = {"marks", "restored"} \/ (registered = {} /\ "refuse" \in env)
  BY DEF Init
<1>4. TypeOK
  <2>1. now \in 0 .. MaxTime /\ fired \in 0 .. MaxPastes /\ moves \in 0 .. MaxMoves
    BY Apart DEF Init
  <2>2. /\ env \in Environments /\ ending = None /\ paste = None /\ pending = None
        /\ window = None /\ lastWindow = None /\ made \in Nat
        /\ registered \in SUBSET {"marks", "restored"}
        /\ {clipboard, left} \subseteq Contents
    BY <1>2, <1>3 DEF Init
  <2>3. /\ at = "idle" /\ held \in BOOLEAN /\ modifier \in BOOLEAN /\ busy = {} /\ gone = {}
        /\ foreground \in Window /\ unread = {}
    BY DEF Init
  <2> QED BY <2>1, <2>2, <2>3 DEF TypeOK
<1>5. Phases /\ Unread
  BY DEF Init, Phases, Unread
<1>6. SessionInv
  BY <1>2, <1>3, Apart DEF Init, SessionInv, Owners, Contained
<1> QED BY <1>4, <1>5, <1>6 DEF Init, PasteInv

LEMMA PasteStep == PasteInv /\ [Next]_vars => PasteInv'
<1> SUFFICES ASSUME PasteInv, [Next]_vars PROVE PasteInv'
  OBVIOUS
<1>1. CASE UNCHANGED vars
  <2>1. /\ UNCHANGED <<env, now, at, ending, paste, fired, pending, window, lastWindow, made,
                       registered, clipboard, held, foreground, modifier, moves, busy, gone,
                       unread, left>>
    BY <1>1 DEF vars, session, world
  <2>2. TypeOK /\ Phases /\ SessionInv /\ Unread /\ (pending # None => Timing)
    BY DEF PasteInv
  <2>3. SessionTypes' /\ SessionInv'
    <3>1. Untouched
      BY <2>1 DEF Untouched, session
    <3> QED BY <2>1, <2>2, <3>1, UntouchedKeeps
  <2>4. TypeOK'
    BY <2>1, <2>2, <2>3 DEF TypeOK, SessionTypes
  <2>5. Phases'
    BY <2>1, <2>2 DEF Phases
  <2>6. pending' # None => Timing'
    BY <2>1, <2>2 DEF Timing
  <2>7. Unread'
    <3>1. \A u \in unread : u.window \notin gone
      BY <2>2 DEF Unread, Sending
    <3> QED BY <2>1, <2>2, <3>1, UnreadFewer
  <2> QED BY <2>3, <2>4, <2>5, <2>6, <2>7 DEF PasteInv
<1>2. CASE Poll \/ Advance \/ Open \/ Send \/ RestoreIfDue \/ Executor
  BY <1>2, PollKeeps, AdvanceKeeps, OpenKeeps, SendKeeps, RestoreKeeps, ExecutorKeeps
<1>3. CASE Others \/ Release \/ Recover \/ Handle \/ Fire \/ Tick
  BY <1>3, OthersKeep, ReleaseKeeps, RecoverKeeps, FireKeeps, TickKeeps
<1> QED BY <1>1, <1>2, <1>3 DEF Next

(* Every variable of the paste keeps its type (Paste!TypeOK): a restore that  *)
(* waits leaves no idle window, its window is one that was made, and it is    *)
(* never due after its own limit.                                             *)
THEOREM PasteTypesKept == Spec => []TypeOK
<1>1. PasteInv => TypeOK
  BY DEF PasteInv
<1> QED BY <1>1, PasteInit, PasteStep, PTL DEF Spec

(* How a step changes the clipboard.                                          *)
LEMMA ClipboardChanges ==
    ASSUME PasteInv, Next
    PROVE  \/ Restored /\ (held => Outlasted)
           \/ UNCHANGED <<clipboard, left>> /\ (pending # None => pending' # None)
           \/ left' = clipboard' /\ pending' = pending
           \/ left' = left /\ pending # None /\ StillOurs
              /\ (pending' # None \/ "refuse" \in env)
           \/ left' = left /\ pending = None
              /\ \/ pending' # None /\ pending'.original.of = clipboard.of
                 \/ "refuse" \in env
<1>1. TypeOK /\ Phases /\ SessionInv /\ Unread /\ (pending # None => Timing)
  BY DEF PasteInv
<1>2. CASE Poll
  <2>1. CASE DecideByProbe
    <3>1. PICK probe \in {"gone", "silent", "late", "answered"} : pending' = Probed(probe)
      BY <2>1 DEF DecideByProbe, Responds
    <3>2. pending' \in Pending
      BY <1>1, <2>1, <3>1, ProbedGives DEF DecideByProbe
    <3> QED BY <1>2, <3>2, Apart DEF Poll
  <2>2. CASE DecideAtOnce
    <3>1. pending \in Pending /\ pending' = [pending EXCEPT !.due = TRUE]
      BY <1>1, <2>2 DEF DecideAtOnce, TypeOK
    <3>2. pending' \in Pending
      BY <3>1 DEF Pending
    <3> QED BY <1>2, <3>2, Apart DEF Poll
  <2>3. CASE NotDecided
    BY <1>2, <2>3 DEF Poll, NotDecided
  <2> QED BY <1>2, <2>1, <2>2, <2>3 DEF Poll
<1>3. CASE Advance \/ Release \/ Recover \/ Handle \/ Fire \/ Tick
  BY <1>3 DEF Advance, Release, Recover, Handle, Fire, Tick, session, world
<1>4. CASE Send
  <2>1. CASE NotSent
    BY <1>4, <2>1 DEF Send, NotSent, world
  <2>2. CASE Sent
    <3>1. pending' # None
      BY <1>1, <1>4, <2>2, SentGives DEF Send
    <3> QED BY <1>4, <3>1 DEF Send, world
  <2> QED BY <1>4, <2>1, <2>2 DEF Send
<1>5. CASE Others
  BY <1>5 DEF Others, Copy, Hold, Hang, Vanish, Act, Cancel, session
<1>6. CASE Executor
  <2>1. Untouched \/ Restored
    BY <1>1, <1>6, ExecutorGives
  <2>2. CASE Untouched
    BY <2>2 DEF Untouched, session
  <2>3. ASSUME Restored PROVE at \in {"closing", "ending"} \/ "timer" \in env
    <3>1. ~Untouched
      BY <2>3 DEF Restored, Ended, Untouched, session
    <3> QED BY <1>6, <3>1 DEF Executor, Arm, ArmFails, Stop, Die, Close, Abandon
  <2> QED BY <2>1, <2>2, <2>3 DEF Outlasted
<1>7. CASE RestoreIfDue
  <2>1. CASE RestoreTries
    BY <1>1, <2>1, RestoreEnds DEF RestoreTries, RestoreDue, TryRestore
  <2>2. CASE RestoreBusy
    <3>1. pending # None /\ held /\ Timing /\ at = "restore"
      BY <1>1, <1>7, <2>2 DEF RestoreBusy, RestoreDue, RestoreIfDue
    <3>2. CASE GivenUp(FALSE) /\ now >= pending.restoreAt + RestoreLimit
      BY <1>1, <3>1, <3>2, RestoreEnds DEF Outlasted
    <3>3. CASE UNCHANGED <<clipboard, left>> /\ pending' # None
      BY <3>3
    <3> QED BY <1>1, <2>2, <3>1, <3>2, <3>3, RetryGives
  <2>4. CASE Untouched
    BY <2>4 DEF Untouched, session
  <2> QED BY <1>7, <2>1, <2>2, <2>4 DEF RestoreIfDue
<1>8. CASE Open
  <2>1. left' = left
    BY <1>8 DEF Open
  <2>2. CASE OpenWindow \/ OwnerHangs \/ OpenBusy \/ OpenNotEmptied
    BY <2>1, <2>2 DEF OpenWindow, OwnerHangs, OpenBusy, OpenNotEmptied, session
  <2>3. CASE OpenChanged
    <3>1. Ended
      BY <1>1, <2>3, SessionEnds DEF OpenChanged
    <3> QED BY <2>1, <2>3, <3>1 DEF OpenChanged, Restored
  <2>4. ASSUME NEW p \in Pending, SetPhrase(p), registered' = registered
        PROVE  (pending' # None /\ pending'.original = p.original) \/ "refuse" \in env
    <3>1. CASE PhraseSet(p)
      <4>1. p.window \in Nat /\ p.original \in Original
        BY <2>4 DEF Pending
      <4> QED BY <1>1, <3>1, <4>1, NewPendingType DEF PhraseSet, Renewed
    <3> QED BY <2>1, <2>4, <3>1, SetPhraseGives DEF PhraseRefused
  <2>5. CASE OpenChained
    <3>1. /\ pending \in Pending /\ pending # None /\ StillOurs /\ SetPhrase(pending)
          /\ registered' = registered
      BY <1>1, <2>5 DEF OpenChained, TypeOK
    <3> QED BY <2>1, <2>4, <3>1
  <2>6. CASE OpenFresh
    <3>1. PICK reads : SetPhrase(NewPending(window, Save(reads)))
      BY <2>6 DEF OpenFresh
    <3>2. pending = None /\ registered' = registered /\ window \in Nat
      BY <1>1, <2>6 DEF OpenFresh, Ready, TypeOK
    <3>3. PICK original \in Original : original = Save(reads) /\ original.of = clipboard.of
      BY <1>1, SaveType
    <3>4. PICK p \in Pending : p = NewPending(window, Save(reads)) /\ p.original = original
      BY <1>1, <3>2, <3>3, NewPendingType
    <3> QED BY <2>1, <2>4, <3>1, <3>2, <3>3, <3>4
  <2> QED BY <1>8, <2>2, <2>3, <2>5, <2>6 DEF Open
<1> QED BY <1>2, <1>3, <1>4, <1>5, <1>6, <1>7, <1>8 DEF Next

(* The daemon replaces what another program left on the clipboard only when a *)
(* paste has just saved it (Paste!OnlySaved), whatever the order of copies,   *)
(* chained pastes, refusals and ends of the executor (still_ours, save).      *)
THEOREM CopiesAreKept == Spec => [][OnlySaved]_vars
<1>1. PasteInv /\ [Next]_vars => [OnlySaved]_vars
  <2> SUFFICES ASSUME PasteInv, Next PROVE OnlySaved
    OBVIOUS
  <2> SUFFICES ASSUME clipboard = left, clipboard' # clipboard, left' = left
               PROVE  \/ pending = None /\ pending' # None /\ pending'.original.of = left.of
                      \/ pending = None /\ "refuse" \in env
    BY DEF OnlySaved
  <2>1. pending # None => ~StillOurs
    BY OursIsNotLeft DEF PasteInv, SessionInv
  <2> QED BY <2>1, ClipboardChanges DEF Restored, Ended
<1> QED BY <1>1, PasteInit, PasteStep, PTL DEF Spec

(* A session that ends has put back what it saved, or leaves what another     *)
(* program copied, or gave up.                                                *)
LEMMA EndsBack ==
    ASSUME PasteInv, Restored, "refuse" \notin env
    PROVE  \/ clipboard' = left
           \/ Back(clipboard')
           \/ held /\ left' = clipboard /\ clipboard' = clipboard
<1>1. TypeOK /\ Owners /\ Contained /\ pending # None
  BY DEF PasteInv, SessionInv, Restored, Ended
<1>2. CASE ~StillOurs /\ left' = left /\ clipboard' = clipboard
  BY <1>1, <1>2 DEF Contained
<1>3. CASE StillOurs /\ left' = left /\ clipboard' \in PutBack(pending, clipboard)
  <2>1. clipboard # left
    BY <1>1, <1>3, OursIsNotLeft
  <2>2. /\ registered = {"marks", "restored"}
        /\ ToSet(pending.original.formats) \subseteq Copied
        /\ pending.original.of = left.of /\ Saved(pending.original.formats)
    BY <1>1, <2>1 DEF Contained
  <2>3. PICK c \in PutBack(pending, clipboard) : c = clipboard'
    BY <1>3
  <2>4. /\ c.of = left.of /\ Saved(Kept(c.formats))
        /\ IsPrivate(left.formats) => c.formats = <<>>
    BY <1>1, <2>2, RestoredReturned
  <2>5. Back(c)
    BY <2>4 DEF Back, Saved
  <2> QED BY <2>3, <2>5
<1> QED BY <1>2, <1>3 DEF Restored

(* What a restore that waits is given up for.                                 *)

(* The phrase is on the clipboard for a bounded time, and when a session ends *)
(* the user's content is back, or what another program put there since, or    *)
(* another program kept the clipboard open for too long (Paste!ComesBack):    *)
(* for any delays, limits, contents and number of pastes (tick,               *)
(* restore_if_due, close, restore_now, abandon).                              *)
THEOREM ClipboardComesBack == Spec => [][ComesBack]_vars
<1>1. PasteInv => InTime
  <2> SUFFICES ASSUME PasteInv, pending # None, ending = None
               PROVE  now <= pending.hardLimit + RestoreLimit
    BY DEF InTime
  <2>1. /\ Timing /\ pending \in Pending /\ RestoreLimit \in Nat /\ now \in Nat
    BY Apart DEF PasteInv, TypeOK
  <2>2. /\ pending.hardLimit \in Nat /\ pending.restoreAt \in Nat
        /\ pending.retrySince \in Nat \cup {None} /\ pending.nextTry \in Nat \cup {None}
    BY <2>1 DEF Pending
  <2>3. CASE pending.nextTry = None
    BY <2>1, <2>2, <2>3 DEF Timing
  <2>4. CASE pending.nextTry # None
    BY <2>1, <2>2, <2>4 DEF Timing
  <2> QED BY <2>3, <2>4
<1>2. PasteInv /\ [Next]_vars => [ComesBack]_vars
  <2> SUFFICES ASSUME PasteInv, Next PROVE ComesBack
    OBVIOUS
  <2> SUFFICES ASSUME pending # None, pending' = None, "refuse" \notin env
               PROVE  clipboard' = left \/ Back(clipboard') \/ Outlasted
    BY <1>1 DEF ComesBack
  <2>1. Restored /\ (held => Outlasted)
    BY ClipboardChanges
  <2> QED BY <2>1, EndsBack
<1> QED BY <1>2, PasteInit, PasteStep, PTL DEF Spec

(* A window that handles the keystroke pastes the phrase it was sent for, or  *)
(* what another program copied since; unless it was busy for HungLimit, the   *)
(* next paste had waited ChainLimit for it, or the executor ended or lost its *)
(* timer (Paste!ReadsPhrase; tick, advance, set_phrase).                      *)
THEOREM PhraseIsRead == Spec => [][ReadsPhrase]_vars
<1>1. PasteInv /\ [Next]_vars => [ReadsPhrase]_vars
  <2> SUFFICES ASSUME PasteInv, NEW u \in unread
               PROVE  \/ clipboard.of = -u.paste
                      \/ clipboard = left
                      \/ now >= u.sent + Max({u.delay, HungLimit})
                      \/ fired > u.paste /\ now >= u.sent + ChainLimit
                      \/ env \cap {"stop", "timer"} # {}
    BY DEF ReadsPhrase
  <2> QED BY DEF PasteInv, Unread, Excused, Awaited
<1> QED BY <1>1, PasteInit, PasteStep, PTL DEF Spec
-----------------------------------------------------------------------------
(* The cache is of the window in front.                                       *)
Right ==
    /\ cache.window = front /\ cache.pid = owner[front]
    /\ ~unnamed => cache.app = owner[front]

(* The name that is cached is that of the process that is cached.             *)
NameKept == cache.window # None /\ cache.pid # Own /\ ~unnamed => cache.app = cache.pid

(* A window that Windows tells of is in front on this desktop: the latest     *)
(* event in the queue is its own or a desktop switch, which reads it again;   *)
(* and once the queue is empty the cache is right, will be read again, or     *)
(* Windows did not say.                                                       *)
Visible == here /\ front # None /\ owner[front] # Own
LatestTells == Visible /\ events # <<>> => events[Len(events)] \in {front, "switch"}
ReadOrDue ==
    Visible /\ phase = "running" /\ enabled /\ events = <<>> =>
        Right \/ "back" \in signals \/ untold

ForeInv == Fore!TypeOK /\ NameKept /\ LatestTells /\ ReadOrDue
-----------------------------------------------------------------------------
(* Reading a window, or none, keeps the cache's types and its name.           *)
LEMMA ReadsWindow ==
    ASSUME Fore!ForegroundAssumption, Fore!TypeOK, NameKept, NEW x \in Hwnd \cup {None},
           UNCHANGED owner, Fore!WindowChanged(x)
    PROVE  /\ cache' \in [window : Hwnd \cup {None}, pid : Process \cup {None},
                          app : (Process \ {Own}) \cup {None}]
           /\ (cache'.window = None) = (cache'.pid = None)
           /\ unnamed' \in BOOLEAN
           /\ NameKept'
           /\ x # None /\ owner[x] # None /\ owner[x] # Own =>
                 /\ cache'.window = x /\ cache'.pid = owner[x]
                 /\ ~unnamed' => cache'.app = owner[x]
<1>1. CASE x = None \/ owner[x] = None
  BY <1>1 DEF Fore!WindowChanged, Fore!TypeOK, NameKept
<1>2. CASE Fore!Same(x) /\ x # None
  BY <1>2 DEF Fore!WindowChanged, Fore!Same, Fore!TypeOK, NameKept
<1>3. CASE x # None /\ owner[x] # None /\ ~Fore!Same(x)
  <2>1. PICK named \in {TRUE, FALSE} :
           /\ cache' = [window |-> x, pid |-> owner[x],
                        app |-> IF named /\ owner[x] # Own THEN owner[x] ELSE None]
           /\ unnamed' = ~named
    BY <1>3 DEF Fore!WindowChanged
  <2>2. x \in Hwnd /\ owner[x] \in Process /\ None \notin Hwnd /\ None \notin Process
    BY <1>3 DEF Fore!TypeOK, Fore!ForegroundAssumption
  <2>3. CASE named = TRUE
    BY <2>1, <2>2, <2>3 DEF NameKept
  <2>4. CASE named = FALSE
    BY <2>1, <2>2, <2>4 DEF NameKept
  <2> QED  BY <2>3, <2>4
<1> QED
  BY <1>1, <1>2, <1>3

(* The same for reading the window in front.                                  *)
LEMMA ReadsFront ==
    ASSUME Fore!ForegroundAssumption, Fore!TypeOK, NameKept,
           UNCHANGED <<here, front, owner>>, Fore!Resync
    PROVE  /\ cache' \in [window : Hwnd \cup {None}, pid : Process \cup {None},
                          app : (Process \ {Own}) \cup {None}]
           /\ (cache'.window = None) = (cache'.pid = None)
           /\ unnamed' \in BOOLEAN /\ untold' = FALSE
           /\ NameKept'
           /\ Visible => Right'
<1>1. front \in Hwnd \cup {None} /\ None \in Hwnd \cup {None}
  BY DEF Fore!TypeOK
<1>2. CASE Fore!WindowChanged(front)
  BY <1>1, <1>2, ReadsWindow DEF Fore!Resync, Visible, Right, Fore!TypeOK
<1>3. CASE ~here /\ Fore!WindowChanged(None)
  BY <1>1, <1>3, ReadsWindow DEF Fore!Resync, Visible
<1> QED
  BY <1>2, <1>3 DEF Fore!Resync

(* The queue without its first event, and with one more.                      *)
LEMMA EventQueue ==
    ASSUME NEW S, NEW q \in Seq(S), q # <<>>
    PROVE  /\ Head(q) \in S /\ Tail(q) \in Seq(S)
           /\ Tail(q) # <<>> => Tail(q)[Len(Tail(q))] = q[Len(q)]
           /\ Tail(q) = <<>> => Head(q) = q[Len(q)]
<1>1. /\ Tail(q) \in Seq(S) /\ Len(Tail(q)) = Len(q) - 1
      /\ \A i \in 1 .. Len(Tail(q)) : Tail(q)[i] = q[i + 1]
      /\ Head(q) = q[1] /\ Len(q) \in Nat \ {0}
  BY HeadTailProperties, EmptySeq
<1>2. Tail(q) # <<>> => Len(Tail(q)) # 0
  BY <1>1, EmptySeq
<1>3. Tail(q) = <<>> => Len(q) = 1
  BY <1>1, EmptySeq
<1> QED
  BY <1>1, <1>2, <1>3, HeadTailProperties

(* An event joins the queue at its end.                                       *)
LEMMA EventAppended ==
    ASSUME NEW S, NEW q \in Seq(S), NEW e \in S
    PROVE  /\ Append(q, e) \in Seq(S) /\ Append(q, e) # <<>>
           /\ Append(q, e)[Len(Append(q, e))] = e
BY AppendProperties, EmptySeq
-----------------------------------------------------------------------------
CacheType ==
    /\ cache \in [window : Hwnd \cup {None}, pid : Process \cup {None},
                  app : (Process \ {Own}) \cup {None}]
    /\ (cache.window = None) = (cache.pid = None)
    /\ unnamed \in BOOLEAN

(* The invariant of the cache holds at the start, and every step keeps it.    *)
LEMMA ForeInit == Fore!ForegroundAssumption /\ Fore!Init => ForeInv
<1> SUFFICES ASSUME Fore!ForegroundAssumption, Fore!Init PROVE ForeInv
  OBVIOUS
<1>1. Fore!TypeOK
  <2>1. /\ phase \in {"installed", "running"} /\ enabled \in BOOLEAN /\ here \in BOOLEAN
        /\ front \in Hwnd \cup {None} /\ (front # None => owner[front] # None)
        /\ owner \in [Hwnd -> Process \cup {None}]
    BY DEF Fore!Init, Fore!ForegroundAssumption
  <2>2. /\ events \in Seq(Hwnd \cup {"switch"}) /\ signals \subseteq {"away", "back"}
        /\ shifts \in 0 .. MaxShifts /\ unnamed \in BOOLEAN /\ untold \in BOOLEAN
    <3>1. events \in Seq(Hwnd \cup {"switch"})
      BY EmptySeq DEF Fore!Init
    <3>2. shifts \in 0 .. MaxShifts
      BY DEF Fore!Init, Fore!ForegroundAssumption
    <3> QED  BY <3>1, <3>2 DEF Fore!Init
  <2>3. /\ cache \in [window : Hwnd \cup {None}, pid : Process \cup {None},
                      app : (Process \ {Own}) \cup {None}]
        /\ (cache.window = None) = (cache.pid = None)
    BY DEF Fore!Init
  <2> QED
    BY <2>1, <2>2, <2>3 DEF Fore!TypeOK
<1>2. NameKept /\ LatestTells /\ ReadOrDue
  BY DEF Fore!Init, NameKept, LatestTells, ReadOrDue
<1> QED
  BY <1>1, <1>2 DEF ForeInv

(* The main thread's steps, which leave windows and desktops alone.           *)
LEMMA HandlersInv ==
    Fore!ForegroundAssumption /\ ForeInv
    /\ \/ Fore!RefreshForeground \/ Fore!ForegroundChanged \/ Fore!DesktopSwitched
       \/ Fore!AnswerSignals \/ Fore!SetEnabled
    => ForeInv'
<1> SUFFICES ASSUME Fore!ForegroundAssumption, Fore!TypeOK, NameKept, LatestTells, ReadOrDue,
                    \/ Fore!RefreshForeground \/ Fore!ForegroundChanged \/ Fore!DesktopSwitched
                    \/ Fore!AnswerSignals \/ Fore!SetEnabled
             PROVE  ForeInv'
  BY DEF ForeInv
<1>0. UNCHANGED <<here, front, owner>>
  BY DEF Fore!RefreshForeground, Fore!ForegroundChanged, Fore!DesktopSwitched,
         Fore!AnswerSignals, Fore!SetEnabled, Fore!outside
<1>1. CASE Fore!RefreshForeground
  <2>1. phase' = "running" /\ Fore!Resync /\ UNCHANGED <<enabled, events, signals, shifts>>
    BY <1>1 DEF Fore!RefreshForeground, Fore!outside
  <2>2. CacheType' /\ untold' = FALSE /\ NameKept' /\ (Visible => Right')
    BY <1>0, <2>1, ReadsFront DEF CacheType
  <2>3. Fore!TypeOK'
    BY <1>0, <2>1, <2>2 DEF Fore!TypeOK, CacheType
  <2> QED
    BY <1>0, <2>1, <2>2, <2>3 DEF ForeInv, LatestTells, ReadOrDue, Visible
<1>2. CASE Fore!ForegroundChanged
  <2>1. /\ phase = "running" /\ events # <<>> /\ Head(events) # "switch"
        /\ events' = Tail(events) /\ UNCHANGED <<phase, enabled, signals, shifts>>
    BY <1>2 DEF Fore!ForegroundChanged, Fore!outside
  <2>2. /\ Head(events) \in Hwnd \cup {"switch"} /\ events' \in Seq(Hwnd \cup {"switch"})
        /\ events' # <<>> => events'[Len(events')] = events[Len(events)]
        /\ events' = <<>> => Head(events) = events[Len(events)]
    BY <2>1, EventQueue DEF Fore!TypeOK
  <2>3. CASE enabled
    <3>1. /\ Fore!WindowChanged(Head(events)) /\ untold' = FALSE
          /\ Head(events) \in Hwnd \cup {None}
      BY <1>2, <2>1, <2>2, <2>3 DEF Fore!ForegroundChanged
    <3>2. /\ CacheType' /\ NameKept'
          /\ Head(events) = front /\ Visible => Right'
      BY <1>0, <3>1, ReadsWindow DEF CacheType, Right, Visible, Fore!TypeOK
    <3>3. Fore!TypeOK'
      BY <1>0, <2>1, <2>2, <3>1, <3>2 DEF Fore!TypeOK, CacheType
    <3>4. LatestTells'
      BY <1>0, <2>1, <2>2 DEF LatestTells, Visible
    <3>5. ReadOrDue'
      BY <1>0, <2>1, <2>2, <3>2 DEF LatestTells, ReadOrDue, Visible
    <3> QED  BY <3>2, <3>3, <3>4, <3>5 DEF ForeInv
  <2>4. CASE ~enabled
    <3>1. UNCHANGED Fore!kept
      BY <1>2, <2>4 DEF Fore!ForegroundChanged
    <3>2. Fore!TypeOK'
      BY <1>0, <2>1, <2>2, <3>1 DEF Fore!TypeOK, Fore!kept
    <3>3. NameKept' /\ LatestTells' /\ ReadOrDue'
      BY <1>0, <2>1, <2>2, <2>4, <3>1 DEF NameKept, LatestTells, ReadOrDue, Visible, Fore!kept
    <3> QED  BY <3>2, <3>3 DEF ForeInv
  <2> QED  BY <2>3, <2>4
<1>3. CASE Fore!DesktopSwitched
  <2>1. /\ phase = "running" /\ events # <<>> /\ Head(events) = "switch"
        /\ events' = Tail(events) /\ UNCHANGED <<phase, enabled, shifts, cache, unnamed>>
        /\ \/ ~enabled /\ UNCHANGED <<signals, untold>>
           \/ /\ enabled /\ signals' = signals \cup {IF here THEN "back" ELSE "away"}
              /\ UNCHANGED untold
           \/ enabled /\ untold' = TRUE /\ UNCHANGED signals
    BY <1>3 DEF Fore!DesktopSwitched, Fore!outside
  <2>2. /\ events' \in Seq(Hwnd \cup {"switch"})
        /\ events' # <<>> => events'[Len(events')] = events[Len(events)]
    BY <2>1, EventQueue DEF Fore!TypeOK
  <2>3. Fore!TypeOK'
    BY <1>0, <2>1, <2>2 DEF Fore!TypeOK
  <2>4. NameKept' /\ LatestTells' /\ ReadOrDue'
    BY <1>0, <2>1, <2>2 DEF NameKept, LatestTells, ReadOrDue, Visible
  <2> QED  BY <2>3, <2>4 DEF ForeInv
<1>4. CASE Fore!AnswerSignals
  <2>1. signals' = {} /\ UNCHANGED <<phase, enabled, events, shifts>>
    BY <1>4 DEF Fore!AnswerSignals, Fore!outside
  <2>2. CASE enabled /\ "back" \in signals
    <3>1. Fore!Resync
      BY <1>4, <2>2 DEF Fore!AnswerSignals
    <3>2. CacheType' /\ untold' = FALSE /\ NameKept' /\ (Visible => Right')
      BY <1>0, <3>1, ReadsFront DEF CacheType
    <3>3. Fore!TypeOK'
      BY <1>0, <2>1, <3>2 DEF Fore!TypeOK, CacheType
    <3> QED
      BY <1>0, <2>1, <3>2, <3>3 DEF ForeInv, LatestTells, ReadOrDue, Visible
  <2>3. CASE ~(enabled /\ "back" \in signals)
    <3>1. UNCHANGED Fore!kept
      BY <1>4, <2>3 DEF Fore!AnswerSignals
    <3>2. Fore!TypeOK'
      BY <1>0, <2>1, <3>1 DEF Fore!TypeOK, Fore!kept
    <3>3. NameKept' /\ LatestTells' /\ ReadOrDue'
      BY <1>0, <2>1, <2>3, <3>1 DEF NameKept, LatestTells, ReadOrDue, Visible, Right, Fore!kept
    <3> QED  BY <3>2, <3>3 DEF ForeInv
  <2> QED  BY <2>2, <2>3
<1>5. CASE Fore!SetEnabled
  <2>1. /\ Fore!Resync /\ enabled' \in BOOLEAN /\ shifts' \in 0 .. MaxShifts
        /\ UNCHANGED <<phase, events, signals>>
    BY <1>5 DEF Fore!SetEnabled, Fore!TypeOK, Fore!ForegroundAssumption
  <2>2. CacheType' /\ untold' = FALSE /\ NameKept' /\ (Visible => Right')
    BY <1>0, <2>1, ReadsFront DEF CacheType
  <2>3. Fore!TypeOK'
    BY <1>0, <2>1, <2>2 DEF Fore!TypeOK, CacheType
  <2> QED
    BY <1>0, <2>1, <2>2, <2>3 DEF ForeInv, LatestTells, ReadOrDue, Visible
<1> QED
  BY <1>1, <1>2, <1>3, <1>4, <1>5

(* Windows' steps, which leave the daemon alone but for its queue of events.  *)
LEMMA WindowsInv == Fore!ForegroundAssumption /\ ForeInv /\ Fore!Windows => ForeInv'
<1> SUFFICES ASSUME Fore!ForegroundAssumption, Fore!TypeOK, NameKept, LatestTells, ReadOrDue,
                    Fore!Windows
             PROVE  ForeInv'
  BY DEF ForeInv
<1>0. /\ shifts' \in 0 .. MaxShifts
      /\ UNCHANGED <<phase, enabled, signals, cache, unnamed, untold>>
  BY DEF Fore!Windows, Fore!kept, Fore!TypeOK, Fore!ForegroundAssumption
<1>1. NameKept'
  BY <1>0 DEF NameKept
<1>2. ASSUME owner' \in [Hwnd -> Process \cup {None}],
             NEW x \in Hwnd \cup {None}, x # None => owner'[x] # None, UNCHANGED here,
             Fore!Take(x)
      PROVE  Fore!TypeOK' /\ LatestTells' /\ ReadOrDue'
  <2>1. /\ front' = x
        /\ events' = IF x # None /\ owner'[x] # Own /\ here THEN Append(events, x) ELSE events
    BY <1>2 DEF Fore!Take
  <2>2. CASE x # None /\ owner'[x] # Own /\ here
    <3>1. /\ events' = Append(events, x) /\ x \in Hwnd \cup {"switch"}
      BY <2>1, <2>2, <1>2
    <3>2. /\ events' \in Seq(Hwnd \cup {"switch"}) /\ events' # <<>>
          /\ events'[Len(events')] = x
      BY <3>1, EventAppended DEF Fore!TypeOK
    <3> QED
      BY <1>0, <1>2, <2>1, <3>2 DEF Fore!TypeOK, LatestTells, ReadOrDue
  <2>3. CASE ~(x # None /\ owner'[x] # Own /\ here)
    <3>1. events' = events /\ ~Visible'
      BY <1>2, <2>1, <2>3 DEF Visible
    <3> QED
      BY <1>0, <1>2, <2>1, <3>1 DEF Fore!TypeOK, LatestTells, ReadOrDue
  <2> QED  BY <2>2, <2>3
<1>3. CASE Fore!TakesForeground
  BY <1>1, <1>2, <1>3 DEF Fore!TakesForeground, Fore!TypeOK, ForeInv
<1>4. CASE Fore!Destroyed
  <2>1. PICK x \in Hwnd :
           /\ owner[x] # None /\ owner' = [owner EXCEPT ![x] = None]
           /\ front' = IF front = x THEN None ELSE front
           /\ UNCHANGED <<here, events>>
    BY <1>4 DEF Fore!Destroyed
  <2>2. /\ owner' \in [Hwnd -> Process \cup {None}]
        /\ front' # None => front' = front /\ owner'[front] = owner[front]
    BY <2>1 DEF Fore!TypeOK
  <2>3. Fore!TypeOK'
    BY <1>0, <2>1, <2>2 DEF Fore!TypeOK
  <2>4. LatestTells' /\ ReadOrDue'
    BY <1>0, <2>1, <2>2 DEF LatestTells, ReadOrDue, Visible, Right
  <2> QED  BY <1>1, <2>3, <2>4 DEF ForeInv
<1>5. CASE Fore!Created
  <2>1. PICK x \in Hwnd, p \in Process :
           /\ owner[x] = None /\ owner' = [owner EXCEPT ![x] = p]
           /\ Fore!Take(x) \/ UNCHANGED <<front, events>>
           /\ UNCHANGED here
    BY <1>5 DEF Fore!Created
  <2>2. /\ owner' \in [Hwnd -> Process \cup {None}] /\ owner'[x] = p /\ p # None
        /\ \A y \in Hwnd \ {x} : owner'[y] = owner[y]
    BY <2>1 DEF Fore!TypeOK, Fore!ForegroundAssumption
  <2>3. CASE Fore!Take(x)
    <3>1. Fore!TypeOK' /\ LatestTells' /\ ReadOrDue'
      BY <1>2, <2>1, <2>2, <2>3
    <3> QED  BY <1>1, <3>1 DEF ForeInv
  <2>4. CASE UNCHANGED <<front, events>>
    <3>1. front # None => owner'[front] = owner[front]
      BY <2>1, <2>2 DEF Fore!TypeOK
    <3>2. Fore!TypeOK'
      BY <1>0, <2>1, <2>2, <2>4, <3>1 DEF Fore!TypeOK
    <3>3. LatestTells' /\ ReadOrDue'
      BY <1>0, <2>1, <2>4, <3>1 DEF LatestTells, ReadOrDue, Visible, Right
    <3> QED  BY <1>1, <3>2, <3>3 DEF ForeInv
  <2> QED  BY <2>1, <2>3, <2>4
<1>6. CASE Fore!SwitchDesktop
  <2>1. here' = ~here /\ events' = Append(events, "switch") /\ UNCHANGED <<front, owner>>
    BY <1>6 DEF Fore!SwitchDesktop
  <2>2. /\ events' \in Seq(Hwnd \cup {"switch"}) /\ events' # <<>>
        /\ events'[Len(events')] = "switch"
    BY <2>1, EventAppended DEF Fore!TypeOK
  <2>3. Fore!TypeOK'
    BY <1>0, <2>1, <2>2 DEF Fore!TypeOK
  <2> QED
    BY <1>0, <1>1, <2>1, <2>2, <2>3 DEF ForeInv, LatestTells, ReadOrDue
<1> QED
  BY <1>3, <1>4, <1>5, <1>6 DEF Fore!Windows

LEMMA ForeStep == Fore!ForegroundAssumption /\ ForeInv /\ [Fore!Next]_(Fore!vars) => ForeInv'
<1>1. Fore!ForegroundAssumption /\ ForeInv /\ Fore!Next => ForeInv'
  BY HandlersInv, WindowsInv DEF Fore!Next
<1>2. ForeInv /\ UNCHANGED Fore!vars => ForeInv'
  BY DEF Fore!vars, ForeInv, Fore!TypeOK, NameKept, LatestTells, ReadOrDue, Visible, Right
<1> QED
  BY <1>1, <1>2
-----------------------------------------------------------------------------
(* The cache names a window with its process, or nothing yet                  *)
(* (ForegroundCache).                                                         *)
THEOREM AppTypesKept == ASSUME Fore!ForegroundAssumption PROVE Fore!Spec => []Fore!TypeOK
<1>1. ForeInv => Fore!TypeOK
  BY DEF ForeInv
<1> QED
  BY <1>1, Fore!ForegroundAssumption, ForeInit, ForeStep, PTL DEF Fore!Spec

(* Once the main thread has handled what was posted, a `when:` sees the       *)
(* window in front and its process, however windows, handles and desktops     *)
(* changed and whatever the switch missed (window_changed, desktop_switched,  *)
(* reset_engine, answer_input_signals).                                       *)
THEOREM AppIsTrue == ASSUME Fore!ForegroundAssumption PROVE Fore!Spec => []Fore!AppTrue
<1>1. ForeInv => Fore!AppTrue
  <2> SUFFICES ASSUME ForeInv, Fore!Settled PROVE Right
    BY DEF Fore!AppTrue, Right
  <2> QED
    BY DEF ForeInv, ReadOrDue, Visible, Fore!Settled
<1> QED
  BY <1>1, Fore!ForegroundAssumption, ForeInit, ForeStep, PTL DEF Fore!Spec
=============================================================================
