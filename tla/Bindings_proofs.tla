-------------------------- MODULE Bindings_proofs --------------------------
(* The winner and its group, the blockers, and the tables of pending chords    *)
(* and sequences: what Bindings says of them holds for every configuration,    *)
(* list of conditions and number of codes.                                     *)
(*                                                                             *)
(* The engine's list is the file sorted (SortedOrders), the election goes down *)
(* it (ElectElects), and the scan feeds each binding in turn (ScanStep).       *)
(*                                                                             *)
(* Then chords and sequences by the clock: what fires is what the times of the *)
(* key-downs say, for every course of the timers.  The log's attempts          *)
(* (Running, Path) and the table's agree up to what has expired                *)
(* (AttemptsKept).  A scan takes the table where one more key-down takes the   *)
(* log (ScanTells, SequencesGo, ChordsGo), a timer ends no attempt before its  *)
(* deadline (Numbers), and a reset makes the log old.                          *)
(*                                                                             *)
(* Last, the loader that the bindings come from (Loader, here Conf): what is   *)
(* loaded is what the file asks for (LiveList, BlockersLed), and has the form  *)
(* that Bindings takes for granted.                                            *)
EXTENDS Bindings, FiniteSetTheorems, WellFoundedInduction, NaturalsInduction, TLAPS

(* Who comes before whom is a strict total order.                             *)
LEMMA BeforeOrders ==
    ASSUME NEW N \in Nat, NEW f, DOMAIN f = 1 .. N,
           \A i \in 1 .. N : KeyCount(f[i]) \in Nat
    PROVE  /\ \A i \in 1 .. N : ~Before(f, i, i)
           /\ \A i, j \in 1 .. N : i # j => Before(f, i, j) \/ Before(f, j, i)
           /\ \A i, j, k \in 1 .. N : Before(f, k, i) /\ Before(f, i, j) => Before(f, k, j)
  BY DEF Before

(* The places are those of the file, and follow the order.                    *)
LEMMA Places ==
    ASSUME NEW N \in Nat, NEW f, DOMAIN f = 1 .. N,
           \A i \in 1 .. N : KeyCount(f[i]) \in Nat
    PROVE  /\ \A j \in 1 .. N : Place(f, j) \in 1 .. N
           /\ \A i, j \in 1 .. N : Before(f, i, j) => Place(f, i) < Place(f, j)
<1> DEFINE Ahead(j) == {i \in 1 .. N : Before(f, i, j)}
<1>0. \A j : Place(f, j) = 1 + Cardinality(Ahead(j))
  BY DEF Place
<1>a. /\ \A i \in 1 .. N : ~Before(f, i, i)
      /\ \A i, j, k \in 1 .. N : Before(f, k, i) /\ Before(f, i, j) => Before(f, k, j)
  BY BeforeOrders
<1>1. IsFiniteSet(1 .. N) /\ Cardinality(1 .. N) = N
  BY FS_Interval
<1>2. ASSUME NEW j \in 1 .. N
      PROVE  /\ IsFiniteSet(Ahead(j)) /\ Cardinality(Ahead(j)) \in Nat
             /\ Cardinality(Ahead(j)) <= N - 1
  <2>1. Ahead(j) \in SUBSET ((1 .. N) \ {j})
    BY <1>a
  <2>2. IsFiniteSet((1 .. N) \ {j}) /\ Cardinality((1 .. N) \ {j}) = N - 1
    BY <1>1, FS_RemoveElement
  <2> HIDE DEF Ahead
  <2>3. IsFiniteSet(Ahead(j)) /\ Cardinality(Ahead(j)) <= N - 1
    BY <2>1, <2>2, FS_Subset
  <2> QED BY <2>3, FS_CardinalityType
<1>3. ASSUME NEW i \in 1 .. N, NEW j \in 1 .. N, Before(f, i, j)
      PROVE  Cardinality(Ahead(i)) < Cardinality(Ahead(j))
  <2>1. i \in Ahead(j) /\ i \notin Ahead(i)
    BY <1>3, <1>a
  <2>2. ASSUME NEW k \in Ahead(i) PROVE k \in Ahead(j)
    <3>1. k \in 1 .. N /\ Before(f, k, i)
      OBVIOUS
    <3>2. Before(f, k, j)
      BY <1>3, <3>1, <1>a
    <3> QED BY <3>1, <3>2
  <2> HIDE DEF Ahead
  <2>3. Ahead(i) \in SUBSET (Ahead(j) \ {i})
    BY <2>1, <2>2
  <2>4. /\ IsFiniteSet(Ahead(j) \ {i})
        /\ Cardinality(Ahead(j) \ {i}) = Cardinality(Ahead(j)) - 1
    BY <1>2, <2>1, FS_RemoveElement
  <2>5. Cardinality(Ahead(i)) <= Cardinality(Ahead(j)) - 1
    BY <2>3, <2>4, FS_Subset
  <2> QED BY <1>2, <2>5
<1> HIDE DEF Ahead
<1>4. ASSUME NEW j \in 1 .. N PROVE Place(f, j) \in 1 .. N
  <2>1. Cardinality(Ahead(j)) \in Nat /\ Cardinality(Ahead(j)) <= N - 1
    BY <1>2
  <2> QED BY <1>0, <2>1
<1>5. ASSUME NEW i \in 1 .. N, NEW j \in 1 .. N, Before(f, i, j)
      PROVE  Place(f, i) < Place(f, j)
  BY <1>0, <1>2, <1>3, <1>5
<1> QED BY <1>4, <1>5

(* Sorted(f) is f in another order, `at`, in which each entry comes before    *)
(* every later one.                                                           *)
LEMMA SortedOrders ==
    ASSUME NEW N \in Nat, NEW f, DOMAIN f = 1 .. N,
           \A i \in 1 .. N : KeyCount(f[i]) \in Nat
    PROVE  \E at \in [1 .. N -> 1 .. N] :
              /\ DOMAIN Sorted(f) = 1 .. N
              /\ \A n \in 1 .. N : Sorted(f)[n] = f[at[n]]
              /\ \A j \in 1 .. N : \E n \in 1 .. N : at[n] = j
              /\ \A m, n \in 1 .. N : m < n => Before(f, at[m], at[n])
<1> DEFINE place == [j \in 1 .. N |-> Place(f, j)]
           at == [n \in 1 .. N |-> CHOOSE j \in 1 .. N : Place(f, j) = n]
<1>1. /\ \A j \in 1 .. N : Place(f, j) \in 1 .. N
      /\ \A i, j \in 1 .. N : Before(f, i, j) => Place(f, i) < Place(f, j)
  BY Places
<1>2. \A i, j \in 1 .. N : i # j => Before(f, i, j) \/ Before(f, j, i)
  BY BeforeOrders
<1>3. ASSUME NEW i \in 1 .. N, NEW j \in 1 .. N, Place(f, i) = Place(f, j)
      PROVE  i = j
  <2>1. Place(f, i) \in Nat /\ Place(f, j) \in Nat
    BY <1>1
  <2>2. ~(Place(f, i) < Place(f, j)) /\ ~(Place(f, j) < Place(f, i))
    BY <1>3, <2>1
  <2> QED BY <1>1, <1>2, <2>2
<1>4. place \in Injection(1 .. N, 1 .. N)
  BY <1>1, <1>3 DEF Injection, IsInjective
<1>5. place \in Surjection(1 .. N, 1 .. N)
  <2> HIDE DEF place
  <2>1. IsFiniteSet(1 .. N)
    BY FS_Interval
  <2> QED BY <1>4, <2>1, FS_Injection
<1>6. ASSUME NEW n \in 1 .. N PROVE at[n] \in 1 .. N /\ Place(f, at[n]) = n
  <2>1. \E j \in 1 .. N : Place(f, j) = n
    BY <1>5 DEF Surjection
  <2>2. at[n] = CHOOSE j \in 1 .. N : Place(f, j) = n
    OBVIOUS
  <2> HIDE DEF at
  <2> QED BY <2>1, <2>2
<1>7. at \in [1 .. N -> 1 .. N]
  BY <1>6
<1>8. DOMAIN Sorted(f) = 1 .. N /\ \A n \in 1 .. N : Sorted(f)[n] = f[at[n]]
  BY DEF Sorted
<1>9. ASSUME NEW j \in 1 .. N PROVE \E n \in 1 .. N : at[n] = j
  <2> DEFINE p == Place(f, j)
  <2>1. p \in 1 .. N
    BY <1>1
  <2>2. Place(f, at[p]) = p /\ at[p] \in 1 .. N
    BY <1>6, <2>1
  <2> HIDE DEF at
  <2> QED BY <1>3, <2>1, <2>2
<1>10. ASSUME NEW m \in 1 .. N, NEW n \in 1 .. N, m < n
       PROVE  Before(f, at[m], at[n])
  <2> HIDE DEF at
  <2>1. at[m] \in 1 .. N /\ at[n] \in 1 .. N /\ Place(f, at[m]) = m /\ Place(f, at[n]) = n
    BY <1>6
  <2>2. at[m] # at[n] /\ ~(Place(f, at[n]) < Place(f, at[m]))
    BY <1>10, <2>1
  <2>3. ~Before(f, at[n], at[m])
    BY <1>1, <2>1, <2>2
  <2> QED BY <1>2, <2>1, <2>2, <2>3
<1> HIDE DEF at
<1> QED BY <1>7, <1>8, <1>9, <1>10

-----------------------------------------------------------------------------
(* A set of numbers with one has a least one.                                 *)
LEMMA LeastNumber ==
    ASSUME NEW T, T \subseteq Nat, T # {}
    PROVE  \E n \in T : \A m \in T : n <= m
<1>1. PICK x \in T : \A y \in T : ~ (<<y, x>> \in OpToRel(<, Nat))
  BY NatLessThanWellFounded, WFMin
<1>2. ASSUME NEW y \in T PROVE x <= y
  <2>1. y \in Nat /\ x \in Nat
    OBVIOUS
  <2>2. y < x => <<y, x>> \in OpToRel(<, Nat)
    BY <2>1 DEF OpToRel
  <2>3. ~(y < x)
    BY <1>1, <2>2
  <2> QED BY <2>1, <2>3
<1> QED BY <1>2

(* What holds at 0 and is handed on by each step holds up to the end.         *)
LEMMA StepByStep ==
    ASSUME NEW n \in Nat, NEW T, 0 \in T, \A i \in 1 .. n : i - 1 \in T => i \in T
    PROVE  \A i \in 0 .. n : i \in T
<1> DEFINE Out == {i \in 0 .. n : i \notin T}
<1>1. ASSUME Out # {} PROVE FALSE
  <2>1. Out \subseteq Nat
    OBVIOUS
  <2>2. PICK i \in Out : \A j \in Out : i <= j
    <3> HIDE DEF Out
    <3> QED BY <1>1, <2>1, LeastNumber
  <2>3. i \in 1 .. n /\ i - 1 \in 0 .. n /\ i \notin T
    OBVIOUS
  <2>4. i - 1 \notin Out
    <3> HIDE DEF Out
    <3> QED BY <2>2, <2>3
  <2> QED BY <2>3, <2>4
<1> QED BY <1>1

(* Elect goes through the list, one binding after another.                    *)
Better(l, i, won, vk, held, holds) ==
    IF /\ Candidate(l[i], vk, held, holds)
       /\ won # 0 => Outranks(l[i], l[won])
    THEN i ELSE won

(* What the election has after each binding of the list.                      *)
LEMMA ElectUnfolds ==
    ASSUME NEW n \in Nat, NEW l, Len(l) = n, NEW vk, NEW held, NEW holds
    PROVE  \E h : /\ h[0] = 0
                  /\ \A i \in 1 .. n : h[i] = Better(l, i, h[i - 1], vk, held, holds)
                  /\ Elect(l, vk, held, holds) = h[n]
<1> DEFINE Rule(h, m) ==
      h = [i \in 0 .. m |-> IF i = 0 THEN 0 ELSE Better(l, i, h[i - 1], vk, held, holds)]
    Reached == {m \in 0 .. n : \E h : Rule(h, m)}
<1>1. 0 \in Reached
  <2> DEFINE h == [i \in 0 .. 0 |-> 0]
  <2>1. Rule(h, 0)
    OBVIOUS
  <2> HIDE DEF Rule, h
  <2> QED BY <2>1
<1>2. ASSUME NEW m \in 1 .. n, m - 1 \in Reached PROVE m \in Reached
  <2>1. PICK g : Rule(g, m - 1)
    BY <1>2
  <2> DEFINE h == [i \in 0 .. m |->
                      IF i = m THEN Better(l, m, g[m - 1], vk, held, holds) ELSE g[i]]
  <2>2. \A i \in 0 .. m : h[i] = IF i = 0 THEN 0 ELSE Better(l, i, h[i - 1], vk, held, holds)
    <3>1. \A i \in 0 .. m - 1 : h[i] = g[i]
      OBVIOUS
    <3>2. \A i \in 0 .. m - 1 :
             g[i] = IF i = 0 THEN 0 ELSE Better(l, i, g[i - 1], vk, held, holds)
      BY <2>1
    <3>3. h[m] = Better(l, m, g[m - 1], vk, held, holds)
      OBVIOUS
    <3>4. m # 0 /\ \A i \in 0 .. m : i = m \/ i \in 0 .. m - 1
      OBVIOUS
    <3>5. \A i \in 0 .. m : i # 0 => i - 1 \in 0 .. m - 1
      OBVIOUS
    <3> HIDE DEF h
    <3> QED BY <3>1, <3>2, <3>3, <3>4, <3>5
  <2>3. Rule(h, m)
    <3>1. h = [i \in 0 .. m |-> h[i]]
      OBVIOUS
    <3> HIDE DEF h
    <3> QED BY <2>2, <3>1
  <2> HIDE DEF Rule, h
  <2> QED BY <2>3
<1>3. n \in Reached
  <2> HIDE DEF Reached
  <2> QED BY <1>1, <1>2, StepByStep
<1> DEFINE c == CHOOSE h : Rule(h, n)
<1>4. Rule(c, n)
  <2>1. \E h : Rule(h, n)
    BY <1>3
  <2> HIDE DEF Rule
  <2> QED BY <2>1
<1>5. Elect(l, vk, held, holds) = c[n]
  <2> USE Len(l) = n
  <2> QED BY Zenon DEF Elect, Better
<1>6. c[0] = 0 /\ \A i \in 1 .. n : c[i] = Better(l, i, c[i - 1], vk, held, holds)
  <2> HIDE DEF c
  <2> QED BY <1>4
<1> HIDE DEF c
<1> QED BY <1>5, <1>6

(* The winner is a candidate, outranks every candidate before it, and none    *)
(* after it outranks it.                                                      *)
Elected(l, w, m, vk, held, holds) ==
    /\ w \in 0 .. m
    /\ w = 0 => \A i \in 1 .. m : ~Candidate(l[i], vk, held, holds)
    /\ w # 0 => /\ Candidate(l[w], vk, held, holds)
                /\ \A i \in 1 .. m : Candidate(l[i], vk, held, holds) =>
                      /\ i < w => Outranks(l[w], l[i])
                      /\ i > w => ~Outranks(l[i], l[w])

(* Of the candidates, the election has the first one of the best in the list. *)
LEMMA ElectElects ==
    ASSUME NEW n \in Nat, NEW l, Len(l) = n, NEW vk, NEW held, NEW holds,
           \A i \in 1 .. n : KeyCount(l[i]) \in Nat
    PROVE  Elected(l, Elect(l, vk, held, holds), n, vk, held, holds)
<1> DEFINE Cand(i) == Candidate(l[i], vk, held, holds)
<1>1. PICK h : /\ h[0] = 0
               /\ \A i \in 1 .. n : h[i] = Better(l, i, h[i - 1], vk, held, holds)
               /\ Elect(l, vk, held, holds) = h[n]
  BY ElectUnfolds
<1> DEFINE Good == {m \in 0 .. n : Elected(l, h[m], m, vk, held, holds)}
<1>2. 0 \in Good
  BY <1>1 DEF Elected
<1>3. ASSUME NEW m \in 1 .. n, m - 1 \in Good PROVE m \in Good
  <2> DEFINE w == h[m - 1]
  <2>1. /\ w \in 0 .. m - 1
        /\ w = 0 => \A i \in 1 .. m - 1 : ~Cand(i)
        /\ w # 0 => /\ Cand(w)
                    /\ \A i \in 1 .. m - 1 : Cand(i) =>
                          /\ i < w => Outranks(l[w], l[i])
                          /\ i > w => ~Outranks(l[i], l[w])
    BY <1>3 DEF Elected
  <2>2. h[m] = IF Cand(m) /\ (w # 0 => Outranks(l[m], l[w])) THEN m ELSE w
    BY <1>1 DEF Better
  <2>3. \A i \in 1 .. m : i = m \/ i \in 1 .. m - 1
    OBVIOUS
  <2>4. w # 0 => w \in 1 .. m - 1 /\ w \in 1 .. n
    BY <2>1
  <2> HIDE DEF w, Cand
  <2>5. CASE Cand(m) /\ (w # 0 => Outranks(l[m], l[w]))
    <3>1. ASSUME NEW i \in 1 .. m - 1, Cand(i) PROVE Outranks(l[m], l[i])
      <4>1. w # 0 /\ Cand(w) /\ Outranks(l[m], l[w]) /\ w \in 1 .. n
        BY <2>1, <2>4, <2>5, <3>1
      <4>2. i < w \/ i = w \/ i > w
        BY <2>1
      <4>3. i = w \/ Outranks(l[w], l[i]) \/ ~Outranks(l[i], l[w])
        BY <2>1, <3>1, <4>1, <4>2
      <4>4. KeyCount(l[i]) \in Nat /\ KeyCount(l[w]) \in Nat /\ KeyCount(l[m]) \in Nat
        BY <4>1
      <4> QED BY <4>1, <4>3, <4>4 DEF Outranks
    <3>2. h[m] = m
      BY <2>2, <2>5
    <3>3. Elected(l, m, m, vk, held, holds)
      BY <2>3, <2>5, <3>1 DEF Elected, Cand
    <3> QED BY <3>2, <3>3
  <2>6. CASE ~(Cand(m) /\ (w # 0 => Outranks(l[m], l[w])))
    <3>1. h[m] = w
      BY <2>2, <2>6
    <3>2. w = 0 => ~Cand(m)
      BY <2>6
    <3>3. w # 0 /\ Cand(m) => ~Outranks(l[m], l[w])
      BY <2>6
    <3>4. Elected(l, w, m, vk, held, holds)
      <4>1. w \in 0 .. m /\ ~(m < w)
        BY <2>1
      <4>2. w = 0 => \A i \in 1 .. m : ~Cand(i)
        BY <2>1, <2>3, <3>2
      <4>3. w # 0 => \A i \in 1 .. m : Cand(i) =>
                        /\ i < w => Outranks(l[w], l[i])
                        /\ i > w => ~Outranks(l[i], l[w])
        BY <2>1, <2>3, <3>3, <4>1
      <4> QED BY <2>1, <4>1, <4>2, <4>3 DEF Elected, Cand
    <3> QED BY <3>1, <3>4
  <2> QED BY <2>5, <2>6
<1>4. n \in Good
  <2> HIDE DEF Good
  <2>1. \A i \in 0 .. n : i \in Good
    BY <1>2, <1>3, StepByStep
  <2> QED BY <2>1
<1> QED BY <1>1, <1>4

-----------------------------------------------------------------------------
(* The state of a scan, with the rest of the state around it.                 *)
ScanState == [chords : SUBSET PendingChord, sequences : SUBSET PendingSequence,
              record : [Code -> LastDown], seq : Nat, timers : SUBSET Timer,
              fire : Seq(STRING), mask : BOOLEAN, swallow : BOOLEAN]

TimerOf(slot, e) == [slot |-> slot, seq |-> e.seq, generation |-> generation, due |-> e.due]

TablesWhole(s) ==
    /\ \A e \in s.sequences : e.next \in 1 .. Len(e.steps) - 1
    /\ \A e, f \in s.chords : e.keys = f.keys => e = f
    /\ \A e, f \in s.sequences : e.steps = f.steps => e = f

TimersAsked(s) ==
    /\ \A e \in s.chords : Expires("chord", e) \/ TimerOf("chord", e) \in s.timers
    /\ \A e \in s.sequences : Expires("sequence", e) \/ TimerOf("sequence", e) \in s.timers

KindName(kind, name) == \E j \in DOMAIN file : file[j].name = name /\ file[j].kind = kind

NamesApart(s) == /\ \A e \in s.chords : KindName("chord", e.name)
                 /\ \A e \in s.sequences : KindName("sequence", e.name)

ScanInv(s) == s \in ScanState /\ TablesWhole(s) /\ TimersAsked(s) /\ NamesApart(s)

(* What a feed may do to the event: swallow it, which it never takes back,    *)
(* and fire an action of its kind.  The records change only with that.        *)
Feeds(s, t, kind) ==
    /\ t.mask = s.mask
    /\ s.swallow => t.swallow
    /\ t.record = s.record \/ t.swallow
    /\ \/ t.fire = s.fire
       \/ \E name \in STRING : KindName(kind, name) /\ t.fire = Append(s.fire, name)

(* The keys of what has fired keep records of the right type.                 *)
LEMMA CompletedType ==
    ASSUME NEW held, NEW old \in [Code -> LastDown], NEW keys
    PROVE  Completed(held, old, keys) \in [Code -> LastDown]
  BY DEF Completed, LastDown

(* A chord's feed keeps the tables whole, with a timer for each attempt.      *)
LEMMA FeedChordKeeps ==
    ASSUME now \in Nat, generation \in 0 .. MaxReset, NEW s, ScanInv(s),
           NEW b \in ChordBinding, KindName("chord", b.name), NEW vk \in Code
    PROVE  ScanInv(FeedChord(s, b, vk)) /\ Feeds(s, FeedChord(s, b, vk), "chord")
<1> DEFINE live  == Unexpired(s.chords)
           entry == CHOOSE e \in live : e.keys = b.keys
           more  == [entry EXCEPT !.seen = @ \cup {vk}]
           fresh == [keys |-> b.keys, seen |-> {vk}, name |-> b.name,
                     due |-> now + b.term, seq |-> s.seq]
           t     == FeedChord(s, b, vk)
<1>1. /\ s \in ScanState /\ TablesWhole(s) /\ TimersAsked(s) /\ NamesApart(s)
      /\ b.keys \in SUBSET KeySpec /\ b.name \in STRING /\ b.term \in Nat
  BY DEF ScanInv, ChordBinding
<1>2. live \subseteq s.chords
  BY DEF Unexpired
<1>3. CASE vk \notin UNION b.keys
  <2>1. t = s
    BY <1>3 DEF FeedChord
  <2> QED BY <1>1, <2>1 DEF ScanInv, Feeds
<1>4. CASE vk \in UNION b.keys /\ \A e \in live : e.keys # b.keys
  <2>1. t = [s EXCEPT !.chords = live \cup {fresh}, !.swallow = TRUE,
                      !.timers = @ \cup {TimerOf("chord", fresh)}]
    BY <1>1, <1>4 DEF FeedChord, Ask, ScanState, TimerOf
  <2>2. fresh \in PendingChord /\ TimerOf("chord", fresh) \in Timer
    BY <1>1 DEF PendingChord, Timer, TimerOf, ScanState
  <2>3. /\ t \in ScanState
        /\ t.chords = live \cup {fresh} /\ t.sequences = s.sequences /\ t.fire = s.fire
        /\ t.mask = s.mask /\ t.swallow /\ TimerOf("chord", fresh) \in t.timers
        /\ s.timers \subseteq t.timers
    <3> HIDE DEF fresh, live, t
    <3> QED BY <1>1, <1>2, <2>1, <2>2 DEF ScanState
  <2>4. fresh.keys = b.keys /\ fresh.name = b.name
    OBVIOUS
  <2> HIDE DEF fresh, live, t
  <2>5. TablesWhole(t)
    BY <1>1, <1>2, <1>4, <2>3, <2>4 DEF TablesWhole
  <2>6. TimersAsked(t)
    BY <1>1, <1>2, <2>3 DEF TimersAsked
  <2>7. NamesApart(t)
    BY <1>1, <1>2, <2>3, <2>4 DEF NamesApart
  <2> QED BY <2>3, <2>5, <2>6, <2>7 DEF ScanInv, Feeds, t
<1>5. CASE vk \in UNION b.keys /\ ~(\A e \in live : e.keys # b.keys)
  <2>1. entry \in live /\ entry.keys = b.keys
    <3>1. \E e \in live : e.keys = b.keys
      BY <1>5
    <3> HIDE DEF live
    <3> QED BY <3>1
  <2>2. entry \in s.chords /\ entry \in PendingChord /\ KindName("chord", entry.name)
    <3> HIDE DEF entry, live
    <3> QED BY <1>1, <1>2, <2>1 DEF ScanState, NamesApart
  <2>3. more \in PendingChord /\ more.keys = entry.keys /\ more.seq = entry.seq
        /\ more.due = entry.due /\ more.name = entry.name
    <3> HIDE DEF entry
    <3> QED BY <2>2 DEF PendingChord
  <2>4. CASE AllSeen(b.keys, more.seen)
    <3>1. t = [s EXCEPT !.chords = live \ {entry}, !.swallow = TRUE,
                        !.fire = Append(@, entry.name),
                        !.record = Completed(active', @, more.seen)]
      <4>1. t = Complete([s EXCEPT !.chords = live \ {entry}], entry.name, more.seen)
        BY <1>5, <2>4 DEF FeedChord
      <4> HIDE DEF entry, live, more, t
      <4> QED BY <1>1, <4>1 DEF Complete, ScanState
    <3> HIDE DEF entry, live, more, t
    <3>2. /\ Completed(active', s.record, more.seen) \in [Code -> LastDown]
          /\ entry.name \in STRING /\ Append(s.fire, entry.name) \in Seq(STRING)
      BY <1>1, <2>2, CompletedType DEF ScanState, PendingChord
    <3>3. /\ t \in ScanState
          /\ t.chords = live \ {entry} /\ t.sequences = s.sequences
          /\ t.fire = Append(s.fire, entry.name)
          /\ t.mask = s.mask /\ t.swallow /\ t.timers = s.timers
      BY <1>1, <1>2, <3>1, <3>2 DEF ScanState
    <3>4. TablesWhole(t) /\ TimersAsked(t) /\ NamesApart(t)
      BY <1>1, <1>2, <3>3 DEF TablesWhole, TimersAsked, NamesApart
    <3> QED BY <2>2, <3>2, <3>3, <3>4 DEF ScanInv, Feeds, t
  <2>5. CASE ~AllSeen(b.keys, more.seen)
    <3>1. t = [s EXCEPT !.chords = (live \ {entry}) \cup {more}, !.swallow = TRUE]
      BY <1>5, <2>5 DEF FeedChord
    <3>2. \A e \in (live \ {entry}) \cup {more} : e = more \/ (e \in s.chords /\ e # entry)
      BY <1>2
    <3> HIDE DEF entry, live, more, t
    <3>3. /\ t \in ScanState
          /\ t.chords = (live \ {entry}) \cup {more} /\ t.sequences = s.sequences
          /\ t.fire = s.fire /\ t.record = s.record
          /\ t.mask = s.mask /\ t.swallow /\ t.timers = s.timers
      BY <1>1, <1>2, <2>3, <3>1 DEF ScanState
    <3>4. TablesWhole(t)
      BY <1>1, <2>2, <2>3, <3>2, <3>3 DEF TablesWhole
    <3>5. TimersAsked(t)
      BY <1>1, <2>2, <2>3, <3>2, <3>3 DEF TimersAsked, Expires, TimerOf
    <3>6. NamesApart(t)
      BY <1>1, <2>2, <2>3, <3>2, <3>3 DEF NamesApart
    <3> QED BY <3>3, <3>4, <3>5, <3>6 DEF ScanInv, Feeds, t
  <2> QED BY <2>4, <2>5
<1> QED BY <1>3, <1>4, <1>5

(* A step on of a pending sequence, and its start afresh, put one entry with  *)
(* its timer in the place of the one that was pending.                        *)
LEMMA BeginKeeps ==
    ASSUME generation \in 0 .. MaxReset, NEW s, ScanInv(s), NEW rest \in SUBSET s.sequences,
           NEW e \in PendingSequence, e.next \in 1 .. Len(e.steps) - 1, e.seq = s.seq,
           KindName("sequence", e.name), \A f \in rest : f.steps # e.steps,
           NEW t, t = Ask([s EXCEPT !.sequences = rest \cup {e}], "sequence", e.due)
    PROVE  ScanInv(t) /\ Feeds(s, t, "sequence")
<1>1. s \in ScanState /\ TablesWhole(s) /\ TimersAsked(s) /\ NamesApart(s)
  BY DEF ScanInv
<1>2. t = [s EXCEPT !.sequences = rest \cup {e}, !.swallow = TRUE,
                    !.timers = @ \cup {TimerOf("sequence", e)}]
  BY <1>1 DEF Ask, ScanState, TimerOf
<1>3. TimerOf("sequence", e) \in Timer
  BY DEF PendingSequence, Timer, TimerOf
<1>4. /\ t \in ScanState
      /\ t.sequences = rest \cup {e} /\ t.chords = s.chords /\ t.fire = s.fire
      /\ t.mask = s.mask /\ t.swallow /\ TimerOf("sequence", e) \in t.timers
      /\ s.timers \subseteq t.timers
  <2>1. /\ t.sequences = rest \cup {e} /\ t.chords = s.chords /\ t.fire = s.fire
        /\ t.mask = s.mask /\ t.swallow = TRUE /\ t.record = s.record /\ t.seq = s.seq
        /\ t.timers = s.timers \cup {TimerOf("sequence", e)}
        /\ t = [chords |-> t.chords, sequences |-> t.sequences, record |-> t.record,
                seq |-> t.seq, timers |-> t.timers, fire |-> t.fire, mask |-> t.mask,
                swallow |-> t.swallow]
    BY <1>1, <1>2 DEF ScanState
  <2>2. rest \cup {e} \in SUBSET PendingSequence
    BY <1>1 DEF ScanState
  <2>3. s.timers \cup {TimerOf("sequence", e)} \in SUBSET Timer
    BY <1>1, <1>3 DEF ScanState
  <2>4. t \in ScanState
    BY <1>1, <2>1, <2>2, <2>3 DEF ScanState
  <2> QED BY <2>1, <2>4
<1>5. TablesWhole(t)
  <2>1. \A f \in t.sequences : f.next \in 1 .. Len(f.steps) - 1
    BY <1>1, <1>4 DEF TablesWhole
  <2>2. \A f, g \in t.chords : f.keys = g.keys => f = g
    BY <1>1, <1>4 DEF TablesWhole
  <2>3. \A f, g \in rest : f.steps = g.steps => f = g
    BY <1>1 DEF TablesWhole
  <2>4. \A f, g \in t.sequences : f.steps = g.steps => f = g
    BY <1>4, <2>3
  <2> QED BY <2>1, <2>2, <2>4 DEF TablesWhole
<1>6. TimersAsked(t)
  BY <1>1, <1>4 DEF TimersAsked
<1>7. NamesApart(t)
  BY <1>1, <1>4 DEF NamesApart
<1> QED BY <1>4, <1>5, <1>6, <1>7 DEF ScanInv, Feeds

(* A sequence's feed keeps the tables whole, with a timer for each attempt.   *)
LEMMA FeedSequenceKeeps ==
    ASSUME now \in Nat, generation \in 0 .. MaxReset, NEW s, ScanInv(s),
           NEW b \in SequenceBinding, Len(b.steps) > 1, KindName("sequence", b.name)
    PROVE  ScanInv(FeedSequence(s, b)) /\ Feeds(s, FeedSequence(s, b), "sequence")
<1> DEFINE live  == Unexpired(s.sequences)
           entry == CHOOSE e \in live : e.steps = b.steps
           rest  == {e \in live : e.steps # b.steps}
           after == Advanced(entry, now + b.term, s.seq)
           fresh == [steps |-> b.steps, next |-> 1, name |-> b.name,
                     due |-> now + b.term, seq |-> s.seq]
           t     == FeedSequence(s, b)
<1>1. /\ s \in ScanState /\ TablesWhole(s) /\ TimersAsked(s) /\ NamesApart(s)
      /\ b.steps \in Seq(SUBSET KeySpec) /\ b.name \in STRING /\ b.term \in Nat
      /\ Len(b.steps) \in Nat
  BY DEF ScanInv, SequenceBinding
<1>2. live \subseteq s.sequences /\ rest \subseteq s.sequences
  BY DEF Unexpired
<1>3. rest # live => entry \in live /\ entry.steps = b.steps
  <2>1. rest # live => \E e \in live : e.steps = b.steps
    OBVIOUS
  <2> HIDE DEF live, rest
  <2> QED BY <2>1
<1>4. CASE rest # live /\ KeysDown(b.steps[entry.next + 1], active') /\ AtEnd(after)
  <2>1. t = [s EXCEPT !.sequences = rest, !.swallow = TRUE,
                      !.fire = Append(@, entry.name),
                      !.record = Completed(active', @, LastStepKeys(b.steps))]
    <3>1. t = Complete([s EXCEPT !.sequences = rest], entry.name, LastStepKeys(b.steps))
      BY <1>4 DEF FeedSequence
    <3> HIDE DEF entry, live, rest, t
    <3> QED BY <1>1, <3>1 DEF Complete, ScanState
  <2> HIDE DEF entry, live, rest, after, fresh, t
  <2>2. entry \in s.sequences /\ entry \in PendingSequence /\ KindName("sequence", entry.name)
    BY <1>1, <1>2, <1>3, <1>4 DEF ScanState, NamesApart
  <2>3. /\ Completed(active', s.record, LastStepKeys(b.steps)) \in [Code -> LastDown]
        /\ entry.name \in STRING /\ Append(s.fire, entry.name) \in Seq(STRING)
    BY <1>1, <2>2, CompletedType DEF ScanState, PendingSequence
  <2>4. /\ t \in ScanState
        /\ t.sequences = rest /\ t.chords = s.chords
        /\ t.fire = Append(s.fire, entry.name)
        /\ t.mask = s.mask /\ t.swallow /\ t.timers = s.timers
    BY <1>1, <1>2, <2>1, <2>3 DEF ScanState
  <2>5. TablesWhole(t) /\ TimersAsked(t) /\ NamesApart(t)
    BY <1>1, <1>2, <2>4 DEF TablesWhole, TimersAsked, NamesApart
  <2> QED BY <2>2, <2>3, <2>4, <2>5 DEF ScanInv, Feeds, t
<1>5. CASE rest # live /\ KeysDown(b.steps[entry.next + 1], active') /\ ~AtEnd(after)
  <2>1. t = Ask([s EXCEPT !.sequences = rest \cup {after}], "sequence", after.due)
    BY <1>5 DEF FeedSequence
  <2>2. \A f \in rest : f.steps # b.steps
    OBVIOUS
  <2>3. after = [entry EXCEPT !.next = @ + 1, !.due = now + b.term, !.seq = s.seq]
    BY DEF Advanced
  <2> HIDE DEF entry, live, rest, after, t
  <2>4. /\ entry \in s.sequences /\ entry \in PendingSequence
        /\ KindName("sequence", entry.name)
        /\ entry.next \in 1 .. Len(entry.steps) - 1 /\ entry.steps = b.steps
    BY <1>1, <1>2, <1>3, <1>5 DEF ScanState, NamesApart, TablesWhole
  <2>5. /\ after \in PendingSequence /\ after.steps = b.steps /\ after.seq = s.seq
        /\ after.name = entry.name /\ after.next = entry.next + 1
    <3>1. s.seq \in Nat /\ now + b.term \in Nat
      BY <1>1 DEF ScanState
    <3>2. /\ entry = [steps |-> entry.steps, next |-> entry.next, name |-> entry.name,
                      due |-> entry.due, seq |-> entry.seq]
          /\ entry.steps \in Seq(SUBSET KeySpec) /\ entry.name \in STRING
          /\ entry.next \in Nat
      BY <2>4 DEF PendingSequence
    <3>3. after = [steps |-> entry.steps, next |-> entry.next + 1, name |-> entry.name,
                   due |-> now + b.term, seq |-> s.seq]
      BY <2>3, <3>2
    <3> QED BY <2>4, <3>1, <3>2, <3>3 DEF PendingSequence
  <2>6. after.next \in 1 .. Len(after.steps) - 1
    BY <1>1, <1>5, <2>4, <2>5 DEF AtEnd
  <2>7. ScanInv(t) /\ Feeds(s, t, "sequence")
    BY <1>2, <2>1, <2>2, <2>4, <2>5, <2>6, BeginKeeps
  <2> QED BY <2>7 DEF t
<1>6. CASE ~(rest # live /\ KeysDown(b.steps[entry.next + 1], active'))
  <2>1. CASE KeysDown(b.steps[1], active')
    <3>1. t = Ask([s EXCEPT !.sequences = rest \cup {fresh}], "sequence", fresh.due)
      BY <1>6, <2>1 DEF FeedSequence
    <3>2. /\ fresh \in PendingSequence /\ fresh.next \in 1 .. Len(fresh.steps) - 1
          /\ fresh.seq = s.seq /\ fresh.name = b.name
          /\ \A f \in rest : f.steps # fresh.steps
      BY <1>1 DEF PendingSequence, ScanState
    <3> HIDE DEF entry, live, rest, fresh, t
    <3>3. ScanInv(t) /\ Feeds(s, t, "sequence")
      BY <1>2, <3>1, <3>2, BeginKeeps
    <3> QED BY <3>3 DEF t
  <2>2. CASE ~KeysDown(b.steps[1], active')
    <3>1. t = [s EXCEPT !.sequences = rest]
      BY <1>6, <2>2 DEF FeedSequence
    <3> HIDE DEF entry, live, rest, t
    <3>2. /\ t \in ScanState /\ t.sequences = rest /\ t.chords = s.chords
          /\ t.fire = s.fire /\ t.record = s.record
          /\ t.mask = s.mask /\ t.swallow = s.swallow /\ t.timers = s.timers
      BY <1>1, <1>2, <3>1 DEF ScanState
    <3>3. TablesWhole(t) /\ TimersAsked(t) /\ NamesApart(t)
      BY <1>1, <1>2, <3>2 DEF TablesWhole, TimersAsked, NamesApart
    <3> QED BY <3>2, <3>3 DEF ScanInv, Feeds, t
  <2> QED BY <2>1, <2>2
<1> QED BY <1>4, <1>5, <1>6

(* The engine's list is the sorted file.                                      *)
ListInv == file \in Files /\ list = Sorted(file)

Binding == ComboBinding \cup ChordBinding \cup SequenceBinding

(* What is known of the list's bindings.                                      *)
Known(b) ==
    /\ b \in Binding /\ KeyCount(b) \in Nat
    /\ b.kind = "combo" => b \in ComboBinding
    /\ b.kind = "chord" => b \in ChordBinding
    /\ b.kind \notin {"combo", "chord"} => b \in SequenceBinding /\ Len(b.steps) > 1
    /\ b.kind \in {"combo", "chord", "sequence"} /\ KindName(b.kind, b.name)

(* What the loader makes of a file, for each of its bindings.                 *)
LEMMA FileKnown ==
    ASSUME file \in Files
    PROVE  /\ Len(file) \in Nat /\ DOMAIN file = 1 .. Len(file)
           /\ \A i \in 1 .. Len(file) : Known(file[i])
           /\ \A name, k, l : KindName(k, name) /\ KindName(l, name) => k = l
           /\ \A name : IsCombo(name) <=> KindName("combo", name)
<1>1. /\ file \in Seq(Binding)
      /\ \A i \in DOMAIN file :
            IF file[i].kind = "sequence" THEN Len(file[i].steps) > 1
                                         ELSE IsFiniteSet(file[i].keys)
      /\ \A i, j \in DOMAIN file : file[i].kind # file[j].kind => file[i].name # file[j].name
  BY FilesAssumption DEF Binding
<1>2. Len(file) \in Nat /\ DOMAIN file = 1 .. Len(file)
  BY <1>1
<1>3. ASSUME NEW i \in 1 .. Len(file) PROVE Known(file[i])
  <2> DEFINE b == file[i]
  <2>1. b \in Binding /\ i \in DOMAIN file
    BY <1>1, <1>2
  <2>2. /\ b.kind = "combo" => b \in ComboBinding
        /\ b.kind = "chord" => b \in ChordBinding
        /\ b.kind \notin {"combo", "chord"} => b \in SequenceBinding /\ b.kind = "sequence"
    <3> HIDE DEF b
    <3> QED BY <2>1 DEF Binding, ComboBinding, ChordBinding, SequenceBinding
  <2>3. b.kind \in {"combo", "chord", "sequence"} /\ KindName(b.kind, b.name)
    <3>1. KindName(b.kind, b.name)
      BY <2>1 DEF KindName
    <3> HIDE DEF b
    <3> QED BY <2>1, <3>1 DEF Binding, ComboBinding, ChordBinding, SequenceBinding
  <2>4. KeyCount(b) \in Nat
    <3>1. CASE b.kind = "sequence"
      <4>1. b.steps \in Seq(SUBSET KeySpec)
        BY <2>2, <3>1 DEF SequenceBinding
      <4> QED BY <3>1, <4>1 DEF KeyCount
    <3>2. CASE b.kind # "sequence"
      <4>1. IsFiniteSet(b.keys)
        BY <1>1, <2>1, <3>2
      <4> QED BY <3>2, <4>1, FS_CardinalityType DEF KeyCount
    <3> QED BY <3>1, <3>2
  <2>5. b.kind \notin {"combo", "chord"} => Len(b.steps) > 1
    BY <1>1, <2>1, <2>2
  <2> HIDE DEF b
  <2>6. Known(b)
    BY <2>1, <2>2, <2>3, <2>4, <2>5 DEF Known
  <2> QED BY <2>6 DEF b
<1>4. \A name, k, l : KindName(k, name) /\ KindName(l, name) => k = l
  BY <1>1 DEF KindName
<1>5. \A name : IsCombo(name) <=> KindName("combo", name)
  BY DEF KindName, IsCombo
<1> QED BY <1>2, <1>3, <1>4, <1>5

(* The list is the file in another order, in which each binding comes before  *)
(* every later one.                                                           *)
LEMMA ListKnown ==
    ASSUME ListInv
    PROVE  /\ Len(list) \in Nat /\ DOMAIN list = 1 .. Len(list) /\ Len(list) = Len(file)
           /\ \A i \in 1 .. Len(list) : Known(list[i])
           /\ \E at \in [1 .. Len(list) -> 1 .. Len(list)] :
                 /\ \A n \in 1 .. Len(list) : list[n] = file[at[n]]
                 /\ \A j \in 1 .. Len(list) : \E n \in 1 .. Len(list) : at[n] = j
                 /\ \A m, n \in 1 .. Len(list) : m < n => Before(file, at[m], at[n])
<1> DEFINE N == Len(file)
<1>1. N \in Nat /\ DOMAIN file = 1 .. N /\ \A i \in 1 .. N : Known(file[i])
  BY FileKnown DEF ListInv
<1>2. \A i \in 1 .. N : KeyCount(file[i]) \in Nat
  BY <1>1 DEF Known
<1> HIDE DEF N
<1>3. PICK at \in [1 .. N -> 1 .. N] :
              /\ DOMAIN list = 1 .. N
              /\ \A n \in 1 .. N : list[n] = file[at[n]]
              /\ \A j \in 1 .. N : \E n \in 1 .. N : at[n] = j
              /\ \A m, n \in 1 .. N : m < n => Before(file, at[m], at[n])
  <2>1. list = Sorted(file)
    BY DEF ListInv
  <2>2. \E at \in [1 .. N -> 1 .. N] :
              /\ DOMAIN Sorted(file) = 1 .. N
              /\ \A n \in 1 .. N : Sorted(file)[n] = file[at[n]]
              /\ \A j \in 1 .. N : \E n \in 1 .. N : at[n] = j
              /\ \A m, n \in 1 .. N : m < n => Before(file, at[m], at[n])
    BY <1>1, <1>2, SortedOrders
  <2> QED BY <2>1, <2>2
<1>4. list = [n \in 1 .. N |-> list[n]]
  <2>1. list = [n \in DOMAIN file |-> file[CHOOSE j \in DOMAIN file : Place(file, j) = n]]
    BY DEF ListInv, Sorted
  <2> QED BY <1>1, <2>1
<1>5. list \in Seq(Binding)
  <2>1. \A n \in 1 .. N : list[n] \in Binding
    BY <1>1, <1>3 DEF Known
  <2> QED BY <1>1, <1>4, <2>1
<1>6. Len(list) = N
  BY <1>1, <1>3, <1>5
<1>7. \A i \in 1 .. N : Known(list[i])
  BY <1>1, <1>3
<1>8. Len(list) = Len(file)
  BY <1>6 DEF N
<1> QED BY <1>1, <1>3, <1>6, <1>7, <1>8

(* Whether the binding at `i` is a blocker of the key-down, and whether it    *)
(* fires at once if it is the winner.                                         *)
Blocks(i, vk, holds) ==
    /\ list[i].kind = "combo" /\ list[i].blocker # "no" /\ list[i].when \in holds
    /\ BlockerMatches(list[i].keys, vk, active', WindowsHas \ {vk})

FiresNow(i, repeat) ==
    /\ list[i].kind = "combo" /\ list[i].blocker = "no"
    /\ list[i].trigger = "immediate" /\ (~repeat \/ list[i].repeat)

(* What the binding at `i` may do in the scan.                                *)
StepEffect(s, t, i, won, vk, holds, repeat) ==
    /\ s.swallow => t.swallow
    /\ s.mask => t.mask
    /\ t.record = s.record \/ t.swallow
    /\ Blocks(i, vk, holds) =>
          t.swallow \/ (list[i].blocker = "mask" /\ (t.mask \/ repeat))
    /\ IF i = won /\ FiresNow(i, repeat)
       THEN t.fire = Append(s.fire, list[i].name)
       ELSE \/ t.fire = s.fire
            \/ \E name \in STRING : ~IsCombo(name) /\ t.fire = Append(s.fire, name)

(* A new number changes nothing of what the scan has so far.                  *)
LEMMA NumberKeeps ==
    ASSUME NEW s, ScanInv(s), NEW n, n = [s EXCEPT !.seq = @ + 1]
    PROVE  /\ ScanInv(n)
           /\ n.mask = s.mask /\ n.swallow = s.swallow /\ n.record = s.record
           /\ n.fire = s.fire
<1>1. s \in ScanState /\ TablesWhole(s) /\ TimersAsked(s) /\ NamesApart(s)
  BY DEF ScanInv
<1>2. /\ n \in ScanState /\ n.chords = s.chords /\ n.sequences = s.sequences
      /\ n.timers = s.timers
      /\ n.mask = s.mask /\ n.swallow = s.swallow /\ n.record = s.record
      /\ n.fire = s.fire
  BY <1>1 DEF ScanState
<1>3. TablesWhole(n) /\ TimersAsked(n) /\ NamesApart(n)
  BY <1>1, <1>2 DEF TablesWhole, TimersAsked, NamesApart
<1> QED BY <1>2, <1>3 DEF ScanInv

(* A combo changes only what the event is to do.                              *)
LEMMA ScanComboKeeps ==
    ASSUME NEW s, ScanInv(s), NEW i, Known(list[i]), list[i].kind = "combo",
           NEW won, NEW vk, NEW holds, NEW repeat \in BOOLEAN,
           NEW t, t = ScanCombo(s, i, won, vk, holds, repeat)
    PROVE  ScanInv(t) /\ StepEffect(s, t, i, won, vk, holds, repeat)
<1> DEFINE b == list[i]
<1>1. s \in ScanState /\ TablesWhole(s) /\ TimersAsked(s) /\ NamesApart(s)
  BY DEF ScanInv
<1>2. /\ b.blocker \in {"no", "swallow", "mask"} /\ b.name \in STRING
      /\ b.block \in BOOLEAN /\ b.repeat \in BOOLEAN /\ b.kind = "combo"
  BY DEF Known, ComboBinding
<1>3. Append(s.fire, b.name) \in Seq(STRING)
  BY <1>1, <1>2 DEF ScanState
<1>4. /\ t \in ScanState /\ t.chords = s.chords /\ t.sequences = s.sequences
      /\ t.timers = s.timers /\ t.record = s.record
      /\ (s.swallow => t.swallow) /\ (s.mask => t.mask)
      /\ Blocks(i, vk, holds) => t.swallow \/ (b.blocker = "mask" /\ (t.mask \/ repeat))
      /\ t.fire = IF i = won /\ FiresNow(i, repeat) THEN Append(s.fire, b.name) ELSE s.fire
  <2>1. CASE b.blocker # "no"
    <3> DEFINE acts == /\ BlockerMatches(b.keys, vk, active', WindowsHas \ {vk})
                       /\ b.when \in holds
    <3>1. t = IF ~acts THEN s
              ELSE IF b.blocker = "swallow" THEN [s EXCEPT !.swallow = TRUE]
              ELSE [s EXCEPT !.mask = @ \/ ~repeat]
      BY <2>1 DEF ScanCombo
    <3>2. Blocks(i, vk, holds) => acts
      BY DEF Blocks
    <3>3. ~FiresNow(i, repeat)
      BY <2>1 DEF FiresNow
    <3> HIDE DEF acts, b
    <3>4. CASE ~acts
      BY <1>1, <3>1, <3>2, <3>3, <3>4
    <3>5. CASE acts /\ b.blocker = "swallow"
      <4>1. t = [s EXCEPT !.swallow = TRUE]
        BY <3>1, <3>5
      <4>2. t.swallow = TRUE /\ t.mask = s.mask /\ t.fire = s.fire
        BY <1>1, <4>1 DEF ScanState
      <4>3. t \in ScanState /\ t.chords = s.chords /\ t.sequences = s.sequences
            /\ t.timers = s.timers /\ t.record = s.record
        BY <1>1, <4>1 DEF ScanState
      <4> QED BY <3>3, <4>2, <4>3
    <3>6. CASE acts /\ b.blocker = "mask"
      <4>1. t = [s EXCEPT !.mask = s.mask \/ ~repeat]
        BY <3>1, <3>6
      <4>2. /\ t.mask = (s.mask \/ ~repeat)
            /\ t.swallow = s.swallow /\ t.fire = s.fire
        BY <1>1, <4>1 DEF ScanState
      <4>3. t \in ScanState /\ t.chords = s.chords /\ t.sequences = s.sequences
            /\ t.timers = s.timers /\ t.record = s.record
        BY <1>1, <4>1 DEF ScanState
      <4> QED BY <3>3, <3>6, <4>2, <4>3
    <3> QED BY <1>2, <2>1, <3>4, <3>5, <3>6
  <2>2. CASE b.blocker = "no" /\ i = won /\ b.trigger = "immediate"
    <3>1. t = [s EXCEPT !.fire = IF ~repeat \/ b.repeat THEN Append(@, b.name) ELSE @,
                        !.swallow = @ \/ b.block]
      BY <2>2 DEF ScanCombo
    <3>2. ~Blocks(i, vk, holds) /\ (FiresNow(i, repeat) <=> ~repeat \/ b.repeat)
      BY <1>2, <2>2 DEF Blocks, FiresNow
    <3> HIDE DEF b
    <3> QED BY <1>1, <1>2, <1>3, <2>2, <3>1, <3>2 DEF ScanState
  <2>3. CASE b.blocker = "no" /\ ~(i = won /\ b.trigger = "immediate")
    <3>1. t = s
      BY <2>3 DEF ScanCombo
    <3>2. ~Blocks(i, vk, holds) /\ ~(i = won /\ FiresNow(i, repeat))
      BY <2>3 DEF Blocks, FiresNow
    <3> HIDE DEF b
    <3> QED BY <1>1, <3>1, <3>2
  <2> QED BY <2>1, <2>2, <2>3
<1>5. TablesWhole(t) /\ TimersAsked(t) /\ NamesApart(t)
  BY <1>1, <1>4 DEF TablesWhole, TimersAsked, NamesApart
<1> QED BY <1>4, <1>5 DEF ScanInv, StepEffect

(* Each binding keeps the tables whole, and does what it may do.              *)
LEMMA BindingKeeps ==
    ASSUME file \in Files, now \in Nat, generation \in 0 .. MaxReset, NEW s, ScanInv(s),
           NEW i, Known(list[i]), NEW won, NEW vk \in Code, NEW holds,
           NEW repeat \in BOOLEAN,
           NEW t, t = ScanBinding(s, i, won, vk, holds, repeat)
    PROVE  ScanInv(t) /\ StepEffect(s, t, i, won, vk, holds, repeat)
<1> DEFINE b == list[i]
           n == [s EXCEPT !.seq = @ + 1]
<1>1. CASE b.kind = "combo"
  <2>1. t = ScanCombo(s, i, won, vk, holds, repeat)
    BY <1>1 DEF ScanBinding
  <2> QED BY <1>1, <2>1, ScanComboKeeps
<1>2. b.kind # "combo" => ~Blocks(i, vk, holds) /\ ~FiresNow(i, repeat)
  BY DEF Blocks, FiresNow
<1>3. CASE b.kind # "combo" /\ (repeat \/ b.when \notin holds)
  <2>1. t = s
    BY <1>3 DEF ScanBinding
  <2> QED BY <1>2, <1>3, <2>1 DEF StepEffect
<1>4. /\ ScanInv(n) /\ n.mask = s.mask /\ n.swallow = s.swallow
      /\ n.record = s.record /\ n.fire = s.fire
  BY NumberKeeps
<1>5. CASE b.kind # "combo" /\ ~(repeat \/ b.when \notin holds)
  <2>1. \E kind \in {"chord", "sequence"} : ScanInv(t) /\ Feeds(n, t, kind)
    <3>1. CASE b.kind = "chord"
      <4>1. t = FeedChord(n, b, vk)
        BY <1>5, <3>1 DEF ScanBinding
      <4>2. b \in ChordBinding /\ KindName("chord", b.name)
        BY <3>1 DEF Known
      <4> HIDE DEF n, b
      <4> QED BY <1>4, <4>1, <4>2, FeedChordKeeps
    <3>2. CASE b.kind # "chord"
      <4>1. t = FeedSequence(n, b)
        BY <1>5, <3>2 DEF ScanBinding
      <4>2. b \in SequenceBinding /\ KindName("sequence", b.name) /\ Len(b.steps) > 1
        BY <1>5, <3>2 DEF Known
      <4> HIDE DEF n, b
      <4> QED BY <1>4, <4>1, <4>2, FeedSequenceKeeps
    <3> QED BY <3>1, <3>2
  <2>2. \A name : KindName("chord", name) \/ KindName("sequence", name) => ~IsCombo(name)
    BY FileKnown
  <2> HIDE DEF n
  <2> QED BY <1>2, <1>4, <1>5, <2>1, <2>2 DEF StepEffect, Feeds
<1> QED BY <1>1, <1>3, <1>5

-----------------------------------------------------------------------------
(* The states of the scan, from the first binding to the last.                *)
Scans(h, n, start, won, vk, holds, repeat) ==
    /\ h[0] = start
    /\ \A i \in 1 .. n : h[i] = ScanBinding(h[i - 1], i, won, vk, holds, repeat)

(* The scan goes from one binding of the list to the next.                    *)
LEMMA ScanUnfolds ==
    ASSUME NEW n \in Nat, Len(list) = n, NEW start, NEW won, NEW vk, NEW holds, NEW repeat
    PROVE  \E h : /\ Scans(h, n, start, won, vk, holds, repeat)
                  /\ Scan(start, won, vk, holds, repeat) = h[n]
<1> DEFINE Rule(h, m) ==
      h = [i \in 0 .. m |->
             IF i = 0 THEN start ELSE ScanBinding(h[i - 1], i, won, vk, holds, repeat)]
    Reached == {m \in 0 .. n : \E h : Rule(h, m)}
<1>1. 0 \in Reached
  <2> DEFINE h == [i \in 0 .. 0 |-> start]
  <2>1. Rule(h, 0)
    OBVIOUS
  <2> HIDE DEF Rule, h
  <2> QED BY <2>1
<1>2. ASSUME NEW m \in 1 .. n, m - 1 \in Reached PROVE m \in Reached
  <2>1. PICK g : Rule(g, m - 1)
    BY <1>2
  <2> DEFINE h == [i \in 0 .. m |->
                     IF i = m THEN ScanBinding(g[m - 1], m, won, vk, holds, repeat)
                              ELSE g[i]]
  <2>2. \A i \in 0 .. m :
           h[i] = IF i = 0 THEN start ELSE ScanBinding(h[i - 1], i, won, vk, holds, repeat)
    <3>1. \A i \in 0 .. m - 1 : h[i] = g[i]
      OBVIOUS
    <3>2. \A i \in 0 .. m - 1 :
             g[i] = IF i = 0 THEN start
                    ELSE ScanBinding(g[i - 1], i, won, vk, holds, repeat)
      BY <2>1
    <3>3. h[m] = ScanBinding(g[m - 1], m, won, vk, holds, repeat)
      OBVIOUS
    <3>4. m # 0 /\ \A i \in 0 .. m : i = m \/ i \in 0 .. m - 1
      OBVIOUS
    <3>5. \A i \in 0 .. m : i # 0 => i - 1 \in 0 .. m - 1
      OBVIOUS
    <3> HIDE DEF h
    <3> QED BY <3>1, <3>2, <3>3, <3>4, <3>5
  <2>3. Rule(h, m)
    <3>1. h = [i \in 0 .. m |-> h[i]]
      OBVIOUS
    <3> HIDE DEF h
    <3> QED BY <2>2, <3>1
  <2> HIDE DEF Rule, h
  <2> QED BY <2>3
<1>3. n \in Reached
  <2> HIDE DEF Reached
  <2>1. \A i \in 0 .. n : i \in Reached
    BY <1>1, <1>2, StepByStep
  <2> QED BY <2>1
<1> DEFINE c == CHOOSE h : Rule(h, n)
<1>4. Rule(c, n)
  <2>1. \E h : Rule(h, n)
    BY <1>3
  <2> HIDE DEF Rule
  <2> QED BY <2>1
<1>5. Scan(start, won, vk, holds, repeat) = c[n]
  <2> USE Len(list) = n
  <2> QED BY Zenon DEF Scan
<1>6. /\ c[0] = start
      /\ \A i \in 1 .. n : c[i] = ScanBinding(c[i - 1], i, won, vk, holds, repeat)
  <2> HIDE DEF c
  <2> QED BY <1>4
<1> HIDE DEF c
<1> QED BY <1>5, <1>6 DEF Scans

(* Where the scan is after the first m bindings.                              *)
CombosFired(s) == {n \in DOMAIN s.fire : IsCombo(s.fire[n])}

FiresWinner(s, m, won, repeat) ==
    IF won \in 1 .. m /\ FiresNow(won, repeat)
    THEN \E n \in CombosFired(s) : CombosFired(s) = {n} /\ s.fire[n] = list[won].name
    ELSE CombosFired(s) = {}

Scanned(start, s, m, won, vk, holds, repeat) ==
    /\ ScanInv(s)
    /\ start.swallow => s.swallow
    /\ s.record = start.record \/ s.swallow
    /\ \A i \in 1 .. m : Blocks(i, vk, holds) =>
          s.swallow \/ (list[i].blocker = "mask" /\ (s.mask \/ repeat))
    /\ FiresWinner(s, m, won, repeat)

FiresOneMore(s, t, name) ==
    /\ ~IsCombo(name) => /\ CombosFired(t) = CombosFired(s)
                         /\ \A n \in CombosFired(s) : t.fire[n] = s.fire[n]
    /\ IsCombo(name) => /\ CombosFired(t) = CombosFired(s) \cup {Len(s.fire) + 1}
                        /\ t.fire[Len(s.fire) + 1] = name

(* What fires is appended to what has fired.                                  *)
LEMMA FiresStep ==
    ASSUME NEW s, s.fire \in Seq(STRING), NEW t, NEW name \in STRING,
           t.fire = Append(s.fire, name)
    PROVE  FiresOneMore(s, t, name)
<1>1. /\ DOMAIN t.fire = 1 .. Len(s.fire) + 1 /\ DOMAIN s.fire = 1 .. Len(s.fire)
      /\ Len(s.fire) \in Nat
      /\ \A n \in 1 .. Len(s.fire) : t.fire[n] = s.fire[n]
      /\ t.fire[Len(s.fire) + 1] = name
  OBVIOUS
<1> QED BY <1>1 DEF CombosFired, FiresOneMore

(* One binding more.                                                          *)
LEMMA ScanStep ==
    ASSUME file \in Files, now \in Nat, generation \in 0 .. MaxReset,
           NEW m \in Nat, m > 0, Known(list[m]), NEW start, NEW s, NEW won, NEW vk \in Code,
           NEW holds, NEW repeat \in BOOLEAN,
           Scanned(start, s, m - 1, won, vk, holds, repeat),
           NEW t, t = ScanBinding(s, m, won, vk, holds, repeat)
    PROVE  Scanned(start, t, m, won, vk, holds, repeat)
<1>1. ScanInv(t) /\ StepEffect(s, t, m, won, vk, holds, repeat)
  BY BindingKeeps DEF Scanned
<1>2. \A i \in 1 .. m : i = m \/ i \in 1 .. m - 1
  OBVIOUS
<1>3. s.fire \in Seq(STRING)
  BY DEF Scanned, ScanInv, ScanState
<1>4. FiresWinner(t, m, won, repeat)
  <2>1. CASE m = won /\ FiresNow(m, repeat)
    <3>1. t.fire = Append(s.fire, list[m].name) /\ IsCombo(list[m].name)
          /\ list[m].name \in STRING
      BY <1>1, <2>1, FileKnown DEF StepEffect, Known, FiresNow, ComboBinding
    <3>2. CombosFired(s) = {}
      BY <2>1 DEF Scanned, FiresWinner
    <3>3. FiresOneMore(s, t, list[m].name)
      BY <1>3, <3>1, FiresStep
    <3>4. CombosFired(t) = {Len(s.fire) + 1} /\ t.fire[Len(s.fire) + 1] = list[m].name
      BY <3>1, <3>2, <3>3 DEF FiresOneMore
    <3> QED BY <2>1, <3>4 DEF FiresWinner
  <2>2. CASE ~(m = won /\ FiresNow(m, repeat))
    <3>1. /\ CombosFired(t) = CombosFired(s)
          /\ \A n \in CombosFired(s) : t.fire[n] = s.fire[n]
      <4>1. CASE t.fire = s.fire
        BY <4>1 DEF CombosFired
      <4>2. CASE \E name \in STRING : ~IsCombo(name) /\ t.fire = Append(s.fire, name)
        <5>1. PICK name \in STRING : ~IsCombo(name) /\ t.fire = Append(s.fire, name)
          BY <4>2
        <5>2. FiresOneMore(s, t, name)
          BY <1>3, <5>1, FiresStep
        <5> QED BY <5>1, <5>2 DEF FiresOneMore
      <4> QED BY <1>1, <2>2, <4>1, <4>2 DEF StepEffect
    <3>2. won \in 1 .. m /\ FiresNow(won, repeat)
             <=> won \in 1 .. m - 1 /\ FiresNow(won, repeat)
      BY <1>2, <2>2
    <3> QED BY <3>1, <3>2 DEF Scanned, FiresWinner
  <2> QED BY <2>1, <2>2
<1> QED BY <1>1, <1>2, <1>4 DEF Scanned, StepEffect

(* And the whole list.                                                        *)
LEMMA ScanKeeps ==
    ASSUME now \in Nat, generation \in 0 .. MaxReset, ListInv,
           NEW start, ScanInv(start), start.fire = <<>>, NEW won, NEW vk \in Code,
           NEW holds, NEW repeat \in BOOLEAN
    PROVE  Scanned(start, Scan(start, won, vk, holds, repeat), Len(list),
                   won, vk, holds, repeat)
<1> DEFINE N == Len(list)
<1>1. N \in Nat /\ \A i \in 1 .. N : Known(list[i])
  BY ListKnown
<1>a. Len(list) = N
  OBVIOUS
<1> HIDE DEF N
<1>2. PICK h : /\ Scans(h, N, start, won, vk, holds, repeat)
               /\ Scan(start, won, vk, holds, repeat) = h[N]
  BY <1>1, <1>a, ScanUnfolds
<1>b. /\ h[0] = start
      /\ \A i \in 1 .. N : h[i] = ScanBinding(h[i - 1], i, won, vk, holds, repeat)
  BY <1>2 DEF Scans
<1> DEFINE Good == {m \in 0 .. N : Scanned(start, h[m], m, won, vk, holds, repeat)}
<1>3. 0 \in Good
  <2>1. CombosFired(start) = {}
    BY DEF CombosFired
  <2> QED BY <1>1, <1>b, <2>1 DEF Scanned, FiresWinner
<1>4. ASSUME NEW m \in 1 .. N, m - 1 \in Good PROVE m \in Good
  <2>1. Scanned(start, h[m - 1], m - 1, won, vk, holds, repeat)
    BY <1>4
  <2>2. m \in Nat /\ m > 0 /\ Known(list[m]) /\ m \in 0 .. N
    BY <1>1
  <2>3. h[m] = ScanBinding(h[m - 1], m, won, vk, holds, repeat)
    BY <1>b
  <2> HIDE DEF Good
  <2>4. Scanned(start, h[m], m, won, vk, holds, repeat)
    BY <2>1, <2>2, <2>3, ScanStep DEF ListInv
  <2> QED BY <2>2, <2>4 DEF Good
<1>5. \A m \in 0 .. N : m \in Good
  <2> HIDE DEF Good
  <2> QED BY <1>1, <1>3, <1>4, StepByStep
<1> QED BY <1>1, <1>2, <1>5 DEF N

-----------------------------------------------------------------------------
(* The rivals for a key-down, the first of the best, and its group, over the  *)
(* file alone.                                                                *)
RivalsOf(vk, held, holds) == {i \in DOMAIN file : Candidate(file[i], vk, held, holds)}

BestOf(rivals, j) ==
    /\ j \in rivals
    /\ \A k \in rivals \ {j} : \/ Weight(file[j]) > Weight(file[k])
                               \/ Weight(file[j]) = Weight(file[k]) /\ j < k

GroupOf(rivals, b) == {i \in rivals : /\ file[i].keys = b.keys /\ file[i].when = b.when
                                      /\ {b.trigger, file[i].trigger} \subseteq Deferred}

FirstsOf(group) ==
    {i \in group : \A j \in group : file[j].trigger = file[i].trigger => i <= j}

NamesOf(f, which) == {f[i].name : i \in which}

(* A candidate is a combo, and so has keys, a trigger and a condition.        *)
LEMMA CandidateKnown ==
    ASSUME NEW b, Known(b), NEW vk, NEW held, NEW holds, Candidate(b, vk, held, holds)
    PROVE  /\ b \in ComboBinding /\ KeyCount(b) = Cardinality(b.keys) /\ KeyCount(b) \in Nat
           /\ Weight(b) = 2 * KeyCount(b) + (IF b.when = Always THEN 0 ELSE 1)
  BY DEF Candidate, Known, KeyCount, Weight

(* Where the bindings of the list are in the file.                            *)
Order(at, n) ==
    /\ at \in [1 .. n -> 1 .. n]
    /\ \A i \in 1 .. n : list[i] = file[at[i]]
    /\ \A j \in 1 .. n : \E i \in 1 .. n : at[i] = j
    /\ \A i, j \in 1 .. n : i < j => Before(file, at[i], at[j])

(* One key more weighs more than a condition.                                 *)
LEMMA HeavierKeys ==
    ASSUME NEW m \in Nat, NEW n \in Nat, m > n,
           NEW x \in {0, 1}, NEW y \in {0, 1}
    PROVE  2 * m + x > 2 * n + y
OBVIOUS

(* The election's winner is the best of the rivals in the file.               *)
LEMMA ElectedIsBest ==
    ASSUME ListInv, NEW vk, NEW held, NEW holds, NEW N, N = Len(list),
           NEW at, Order(at, N),
           NEW w, Elected(list, w, N, vk, held, holds)
    PROVE  /\ w = 0 <=> RivalsOf(vk, held, holds) = {}
           /\ w # 0 => BestOf(RivalsOf(vk, held, holds), at[w])
<1> DEFINE R == RivalsOf(vk, held, holds)
<1>   /\ at \in [1 .. N -> 1 .. N]
      /\ \A n \in 1 .. N : list[n] = file[at[n]]
      /\ \A j \in 1 .. N : \E n \in 1 .. N : at[n] = j
      /\ \A m, n \in 1 .. N : m < n => Before(file, at[m], at[n])
  BY DEF Order
<1>1. /\ N \in Nat /\ DOMAIN list = 1 .. N /\ DOMAIN file = 1 .. N
      /\ \A i \in 1 .. N : Known(list[i])
  BY ListKnown, FileKnown DEF ListInv
<1>2. \A i \in 1 .. N : at[i] \in R <=> Candidate(list[i], vk, held, holds)
  BY <1>1 DEF RivalsOf
<1>3. \A j \in R : \E i \in 1 .. N : at[i] = j
  BY <1>1 DEF RivalsOf
<1> HIDE DEF R
<1>4. CASE w = 0
  BY <1>2, <1>3, <1>4 DEF Elected, R
<1>5. CASE w # 0
  <2>1. w \in 1 .. N /\ Candidate(list[w], vk, held, holds) /\ at[w] \in R
    BY <1>1, <1>2, <1>5 DEF Elected
  <2>2. ASSUME NEW k \in R \ {at[w]}
        PROVE  \/ Weight(file[at[w]]) > Weight(file[k])
               \/ Weight(file[at[w]]) = Weight(file[k]) /\ at[w] < k
    <3>1. PICK i \in 1 .. N : at[i] = k
      BY <1>3
    <3> DEFINE b == list[w]
               c == list[i]
    <3>2. /\ Candidate(c, vk, held, holds) /\ i # w
          /\ b = file[at[w]] /\ c = file[k]
      BY <1>2, <2>1, <3>1
    <3>3. /\ KeyCount(b) \in Nat /\ KeyCount(c) \in Nat
          /\ Weight(b) = 2 * KeyCount(b) + (IF b.when = Always THEN 0 ELSE 1)
          /\ Weight(c) = 2 * KeyCount(c) + (IF c.when = Always THEN 0 ELSE 1)
      BY <1>1, <2>1, <3>2, CandidateKnown
    <3>4. CASE i < w
      <4>1. Outranks(b, c)
        BY <1>5, <3>2, <3>4 DEF Elected
      <4>2. Before(file, k, at[w])
        BY <2>1, <3>1, <3>4
      <4>a. \/ KeyCount(file[k]) > KeyCount(file[at[w]])
            \/ KeyCount(file[k]) = KeyCount(file[at[w]])
        BY <4>2 DEF Before
      <4> HIDE DEF b, c
      <4>3. KeyCount(c) >= KeyCount(b)
        BY <3>2, <3>3, <4>a
      <4>4. KeyCount(b) = KeyCount(c) /\ b.when # Always /\ c.when = Always
        BY <3>3, <4>1, <4>3 DEF Outranks
      <4>5. Weight(b) > Weight(c)
        BY <3>3, <4>4
      <4> QED BY <3>2, <4>5
    <3>5. CASE i > w
      <4>1. ~Outranks(c, b)
        BY <1>5, <3>2, <3>5 DEF Elected
      <4>2. Before(file, at[w], k)
        BY <2>1, <3>1, <3>5
      <4>3. KeyCount(b) > KeyCount(c) \/ (KeyCount(b) = KeyCount(c) /\ at[w] < k)
        BY <3>2, <4>2 DEF Before
      <4> HIDE DEF b, c
      <4>4. ~(KeyCount(b) = KeyCount(c) /\ c.when # Always /\ b.when = Always)
        BY <4>1 DEF Outranks
      <4>5. CASE KeyCount(b) > KeyCount(c)
        <5>1. PICK x \in {0, 1} : Weight(b) = 2 * KeyCount(b) + x
          BY <3>3
        <5>2. PICK y \in {0, 1} : Weight(c) = 2 * KeyCount(c) + y
          BY <3>3
        <5>3. 2 * KeyCount(b) + x > 2 * KeyCount(c) + y
          BY <3>3, <4>5, HeavierKeys
        <5>4. Weight(b) > Weight(c)
          BY <5>1, <5>2, <5>3
        <5> QED BY <3>2, <5>4
      <4>6. CASE KeyCount(b) = KeyCount(c) /\ at[w] < k
        <5>1. Weight(b) > Weight(c) \/ Weight(b) = Weight(c)
          BY <3>3, <4>4, <4>6
        <5> QED BY <3>2, <4>6, <5>1
      <4> QED BY <4>3, <4>5, <4>6
    <3>6. i < w \/ i > w
      BY <2>1, <3>2
    <3> QED BY <3>4, <3>5, <3>6
  <2>3. BestOf(R, at[w])
    BY <2>1, <2>2 DEF BestOf
  <2> QED BY <1>5, <2>1, <2>3 DEF R
<1> QED BY <1>4, <1>5

(* The gesture group that is armed is, over the file, the group of the best.  *)
LEMMA GroupIsFirsts ==
    ASSUME ListInv, NEW vk, NEW held, NEW holds, NEW N, N = Len(list),
           NEW at, Order(at, N),
           NEW w, Elected(list, w, N, vk, held, holds), w # 0
    PROVE  NamesOf(list, DeferredGroup(list, w, vk, held)) =
             NamesOf(file, FirstsOf(GroupOf(RivalsOf(vk, held, holds), list[w])))
<1> DEFINE R == RivalsOf(vk, held, holds)
           G == GroupOf(R, list[w])
           D == DeferredGroup(list, w, vk, held)
<1>   /\ at \in [1 .. N -> 1 .. N]
      /\ \A n \in 1 .. N : list[n] = file[at[n]]
      /\ \A j \in 1 .. N : \E n \in 1 .. N : at[n] = j
      /\ \A m, n \in 1 .. N : m < n => Before(file, at[m], at[n])
  BY DEF Order
<1>1. /\ N \in Nat /\ DOMAIN list = 1 .. N /\ DOMAIN file = 1 .. N
      /\ \A i \in 1 .. N : Known(list[i])
  BY ListKnown, FileKnown DEF ListInv
<1>2. w \in 1 .. N /\ Candidate(list[w], vk, held, holds)
  BY <1>1 DEF Elected
<1>a. /\ \A n \in 1 .. N : n \in Nat /\ at[n] \in 1 .. N /\ at[n] \in Nat
      /\ \A i \in w .. N : i \in 1 .. N
  <2>1. at \in [1 .. N -> 1 .. N] /\ N \in Nat /\ w \in 1 .. N
    BY <1>1, <1>2
  <2>2. \A n \in 1 .. N : at[n] \in 1 .. N
    BY <2>1
  <2>3. \A n \in 1 .. N : n \in Nat
    BY <2>1
  <2>4. \A i \in w .. N : i \in 1 .. N
    BY <2>1
  <2> QED BY <2>2, <2>3, <2>4
<1>3. ASSUME NEW i \in 1 .. N, at[i] \in G PROVE i >= w
  <2>1. /\ Candidate(list[i], vk, held, holds)
        /\ list[i].keys = list[w].keys /\ list[i].when = list[w].when
    BY <1>3 DEF GroupOf, RivalsOf
  <2>2. KeyCount(list[i]) = KeyCount(list[w])
    BY <1>2, <2>1 DEF KeyCount, Candidate
  <2>3. KeyCount(list[w]) \in Nat
    BY <1>1, <1>2 DEF Known
  <2>4. ~Outranks(list[w], list[i])
    BY <2>1, <2>2, <2>3 DEF Outranks
  <2>5. ~(i < w)
    BY <2>1, <2>4 DEF Elected
  <2> QED BY <1>2, <2>5
<1>4. ASSUME NEW i \in w .. N, list[w].trigger \in Deferred
      PROVE  Admits(list, w, i, vk, held) <=> at[i] \in G
  <2>1. i \in 1 .. N /\ list[i] = file[at[i]] /\ at[i] \in DOMAIN file
    BY <1>1, <1>a
  <2>2. at[i] \in G <=>
          /\ Candidate(list[i], vk, held, holds)
          /\ list[i].keys = list[w].keys /\ list[i].when = list[w].when
          /\ {list[w].trigger, list[i].trigger} \subseteq Deferred
    BY <2>1 DEF GroupOf, RivalsOf
  <2> HIDE DEF G
  <2>3. list[w].when \in holds
    BY <1>2 DEF Candidate
  <2>4. CASE i = w
    <3>1. Admits(list, w, i, vk, held)
      BY <2>4 DEF Admits
    <3> QED BY <1>2, <1>4, <2>2, <2>4, <3>1
  <2>5. CASE i # w
    <3>1. Admits(list, w, i, vk, held) <=>
            /\ list[i].kind = "combo" /\ list[i].blocker = "no"
            /\ {list[w].trigger, list[i].trigger} \subseteq Deferred
            /\ list[i].keys = list[w].keys /\ list[i].when = list[w].when
            /\ Matches(list[i], vk, held)
      BY <2>5 DEF Admits
    <3>2. list[i].when = list[w].when =>
            (Candidate(list[i], vk, held, holds) <=>
               /\ list[i].kind = "combo" /\ list[i].blocker = "no"
               /\ Matches(list[i], vk, held))
      BY <2>3 DEF Candidate
    <3> QED BY <2>2, <3>1, <3>2
  <2> QED BY <2>4, <2>5
<1>5. ASSUME NEW m \in 1 .. N, NEW n \in 1 .. N, at[m] \in G, at[n] \in G
      PROVE  m <= n <=> at[m] <= at[n]
  <2>1. /\ Candidate(list[m], vk, held, holds) /\ Candidate(list[n], vk, held, holds)
        /\ list[m].keys = list[w].keys /\ list[n].keys = list[w].keys
    BY <1>5 DEF GroupOf, RivalsOf
  <2>2. KeyCount(list[m]) = KeyCount(list[n]) /\ KeyCount(list[m]) \in Nat
    BY <1>1, <2>1 DEF KeyCount, Candidate, Known
  <2>3. KeyCount(file[at[m]]) = KeyCount(file[at[n]]) /\ KeyCount(file[at[m]]) \in Nat
    BY <2>2
  <2> HIDE DEF G
  <2>a. \A x, y \in 1 .. N :
           KeyCount(file[x]) = KeyCount(file[y]) /\ KeyCount(file[x]) \in Nat
           /\ Before(file, x, y) => x < y
    BY DEF Before
  <2>4. m < n => at[m] < at[n]
    BY <1>a, <2>3, <2>a
  <2>5. n < m => at[n] < at[m]
    BY <1>a, <2>3, <2>a
  <2>6. m \in Nat /\ n \in Nat /\ at[m] \in Nat /\ at[n] \in Nat
    BY <1>a
  <2>7. m < n \/ m = n \/ n < m
    BY <2>6
  <2>8. CASE m < n
    BY <2>4, <2>6, <2>8
  <2>9. CASE m = n
    BY <2>6, <2>9
  <2>10. CASE n < m
    BY <2>5, <2>6, <2>10
  <2> QED BY <2>7, <2>8, <2>9, <2>10
<1>6. CASE list[w].trigger \notin Deferred
  <2>1. D = {} /\ G = {}
    BY <1>6 DEF DeferredGroup, GroupOf
  <2> QED BY <2>1 DEF FirstsOf, NamesOf
<1>7. CASE list[w].trigger \in Deferred
  <2>1. D = {i \in w .. N : Claims(list, w, i, vk, held)}
    BY <1>7 DEF DeferredGroup
  <2>2. \A i \in w .. N : i \in 1 .. N /\ \A j \in w .. i - 1 : j \in w .. N /\ j \in 1 .. N
    BY <1>1, <1>2
  <2>3. \A j \in G : \E i \in w .. N : at[i] = j
    <3>1. \A j \in G : j \in 1 .. N
      BY <1>1 DEF GroupOf, RivalsOf
    <3> HIDE DEF G
    <3>2. ASSUME NEW j \in G PROVE \E i \in w .. N : at[i] = j
      <4>1. PICK i \in 1 .. N : at[i] = j
        BY <3>1
      <4>2. i >= w
        BY <1>3, <4>1
      <4>3. i \in w .. N
        BY <1>1, <1>2, <4>2
      <4> QED BY <4>1, <4>3
    <3> QED BY <3>2
  <2> HIDE DEF G, D
  <2>4. ASSUME NEW i \in w .. N PROVE i \in D <=> at[i] \in FirstsOf(G)
    <3>1. i \in D <=> /\ at[i] \in G
                      /\ \A j \in w .. i - 1 :
                            list[j].trigger = list[i].trigger => at[j] \notin G
      BY <1>4, <1>7, <2>1, <2>2 DEF Claims
    <3>2. at[i] \in FirstsOf(G) <=>
            /\ at[i] \in G
            /\ \A j \in w .. N :
                  at[j] \in G /\ list[j].trigger = list[i].trigger => at[i] <= at[j]
      <4>1. at[i] \in FirstsOf(G) <=>
              /\ at[i] \in G
              /\ \A k \in G : file[k].trigger = file[at[i]].trigger => at[i] <= k
        BY DEF FirstsOf
      <4>2. \A j \in w .. N : list[j] = file[at[j]]
        BY <2>2
      <4>3. ASSUME NEW j \in w .. N, at[j] \in G, list[j].trigger = list[i].trigger,
                   at[i] \in FirstsOf(G)
            PROVE  at[i] <= at[j]
        <5>1. file[at[j]].trigger = file[at[i]].trigger
          BY <4>2, <4>3
        <5> QED BY <4>1, <4>3, <5>1
      <4>4. ASSUME NEW k \in G, file[k].trigger = file[at[i]].trigger,
                   \A j \in w .. N :
                      at[j] \in G /\ list[j].trigger = list[i].trigger => at[i] <= at[j]
            PROVE  at[i] <= k
        <5>1. PICK j \in w .. N : at[j] = k
          BY <2>3
        <5>2. list[j].trigger = list[i].trigger
          BY <4>2, <4>4, <5>1
        <5> QED BY <4>4, <5>1, <5>2
      <4> QED BY <4>1, <4>3, <4>4
    <3>3. \A j \in w .. N : at[i] \in G /\ at[j] \in G => (at[i] <= at[j] <=> i <= j)
      BY <1>5, <2>2
    <3>4. \A j \in w .. N : i <= j \/ j \in w .. i - 1
      BY <1>1, <1>2
    <3>5. \A j \in w .. i - 1 : ~(i <= j)
      BY <1>1, <1>2
    <3> QED BY <2>2, <3>1, <3>2, <3>3, <3>4, <3>5
  <2>5. \A i \in D : i \in w .. N
    BY <2>1
  <2>6. \A j \in FirstsOf(G) : j \in G
    BY DEF FirstsOf
  <2>7. ASSUME NEW x \in {list[i].name : i \in D}
        PROVE  x \in {file[i].name : i \in FirstsOf(G)}
    <3>1. PICK i \in D : x = list[i].name
      OBVIOUS
    <3>2. at[i] \in FirstsOf(G) /\ x = file[at[i]].name
      BY <2>2, <2>4, <2>5, <3>1
    <3> QED BY <3>2
  <2>8. ASSUME NEW x \in {file[i].name : i \in FirstsOf(G)}
        PROVE  x \in {list[i].name : i \in D}
    <3>1. PICK j \in FirstsOf(G) : x = file[j].name
      OBVIOUS
    <3>2. PICK i \in w .. N : at[i] = j
      BY <2>3, <2>6
    <3>3. i \in D /\ x = list[i].name
      BY <2>2, <2>4, <3>1, <3>2
    <3> QED BY <3>3
  <2> QED BY <2>7, <2>8 DEF D, G, NamesOf
<1> QED BY <1>6, <1>7

-----------------------------------------------------------------------------
PendingNamed == /\ \A e \in chords : KindName("chord", e.name)
                /\ \A e \in sequences : KindName("sequence", e.name)

BindInv == ListInv /\ TypeOK /\ ExpiryTimed /\ PendingNamed

(* At the start nothing is pending.                                           *)
LEMMA InitBind == Init => BindInv
<1> SUFFICES ASSUME Init PROVE BindInv
  OBVIOUS
<1> USE DEF Init
<1>1. ListInv
  BY DEF ListInv
<1>2. TypeOK
  BY BindingsAssumption DEF TypeOK, LastDown
<1>3. ExpiryTimed /\ PendingNamed
  BY DEF ExpiryTimed, PendingNamed
<1> QED BY <1>1, <1>2, <1>3 DEF BindInv

(* A timer event takes a timer with what it was set for; a reload takes all.  *)
LEMMA TimerBind ==
    ASSUME BindInv, OnTimer
    PROVE  BindInv'
<1> USE DEF BindInv
<1>1. PICK t \in queue :
        /\ queue' = queue \ {t}
        /\ chords' = IF t.slot = "chord" /\ t.generation = generation
                     THEN ExpireOf(chords, t.seq) ELSE chords
        /\ sequences' = IF t.slot = "sequence" /\ t.generation = generation
                        THEN ExpireOf(sequences, t.seq) ELSE sequences
  BY DEF OnTimer
<1>2. /\ StillRefused({}) /\ file' = file /\ list' = list /\ now' = now /\ active' = active
      /\ record' = record /\ seq' = seq /\ generation' = generation
  BY DEF OnTimer
<1>3. chords' \subseteq chords /\ sequences' \subseteq sequences
  BY <1>1 DEF ExpireOf
<1>4. ListInv'
  BY <1>2 DEF ListInv
<1>5. TypeOK'
  <2>1. /\ now' \in 0 .. MaxTime /\ active' \subseteq Code /\ record' \in [Code -> LastDown]
        /\ seq' \in Nat /\ generation' \in 0 .. MaxReset /\ queue' \subseteq Timer
    BY <1>1, <1>2 DEF TypeOK
  <2>2. /\ chords' \subseteq PendingChord
        /\ \A e, f \in chords' : e.keys = f.keys => e = f
    BY <1>3 DEF TypeOK
  <2>3. /\ \A e \in sequences' : e \in PendingSequence /\ e.next \in 1 .. Len(e.steps) - 1
        /\ \A e, f \in sequences' : e.steps = f.steps => e = f
    BY <1>3 DEF TypeOK
  <2> QED BY <2>1, <2>2, <2>3 DEF TypeOK
<1>6. refused' = refused \cap {e.seq : e \in chords' \cup sequences'}
  BY <1>2 DEF StillRefused
<1>7. ASSUME NEW e \in chords' PROVE Expires("chord", e)'
  <2>1. e \in chords /\ Expires("chord", e)
    BY <1>3, <1>7 DEF ExpiryTimed
  <2>2. CASE e.seq \in refused
    <3>1. e.seq \in refused'
      BY <1>6, <1>7, <2>2
    <3> QED BY <3>1 DEF Expires
  <2>3. CASE TimerOf("chord", e) \in queue
    <3>1. TimerOf("chord", e) # t
      <4>1. ASSUME TimerOf("chord", e) = t PROVE FALSE
        <5>1. t.slot = "chord" /\ t.generation = generation /\ t.seq = e.seq
          BY <4>1 DEF TimerOf
        <5> QED BY <1>1, <1>7, <5>1 DEF ExpireOf
      <4> QED BY <4>1
    <3>2. TimerOf("chord", e) \in queue'
      BY <1>1, <2>3, <3>1
    <3> QED BY <1>2, <3>2 DEF Expires, TimerOf
  <2> QED BY <2>1, <2>2, <2>3 DEF Expires, TimerOf
<1>8. ASSUME NEW e \in sequences' PROVE Expires("sequence", e)'
  <2>1. e \in sequences /\ Expires("sequence", e)
    BY <1>3, <1>8 DEF ExpiryTimed
  <2>2. CASE e.seq \in refused
    <3>1. e.seq \in refused'
      BY <1>6, <1>8, <2>2
    <3> QED BY <3>1 DEF Expires
  <2>3. CASE TimerOf("sequence", e) \in queue
    <3>1. TimerOf("sequence", e) # t
      <4>1. ASSUME TimerOf("sequence", e) = t PROVE FALSE
        <5>1. t.slot = "sequence" /\ t.generation = generation /\ t.seq = e.seq
          BY <4>1 DEF TimerOf
        <5> QED BY <1>1, <1>8, <5>1 DEF ExpireOf
      <4> QED BY <4>1
    <3>2. TimerOf("sequence", e) \in queue'
      BY <1>1, <2>3, <3>1
    <3> QED BY <1>2, <3>2 DEF Expires, TimerOf
  <2> QED BY <2>1, <2>2, <2>3 DEF Expires, TimerOf
<1>9. PendingNamed'
  BY <1>2, <1>3 DEF PendingNamed, KindName
<1> QED BY <1>4, <1>5, <1>7, <1>8, <1>9 DEF ExpiryTimed

(* The other steps, but for the key-downs.                                    *)
LEMMA OtherBind ==
    ASSUME BindInv,
           (\E vk \in Code : KeyUp(vk)) \/ Refuse \/ Reset \/ Tick \/ UNCHANGED vars
    PROVE  BindInv'
<1> USE DEF BindInv
<1>1. ASSUME NEW vk \in Code, KeyUp(vk) PROVE BindInv'
  <2>1. ListInv'
    BY <1>1 DEF KeyUp, ListInv
  <2>2. TypeOK'
    BY <1>1 DEF KeyUp, TypeOK, tables, LastDown, PendingChord, PendingSequence, Timer
  <2>3. ExpiryTimed' /\ PendingNamed'
    BY <1>1 DEF KeyUp, ExpiryTimed, Expires, PendingNamed, KindName, tables
  <2> QED BY <2>1, <2>2, <2>3
<1>2. CASE Refuse
  <2>1. ListInv'
    BY <1>2 DEF Refuse, ListInv
  <2>2. TypeOK'
    BY <1>2 DEF Refuse, TypeOK
  <2>3. ExpiryTimed' /\ PendingNamed'
    BY <1>2 DEF Refuse, ExpiryTimed, Expires, PendingNamed, KindName
  <2> QED BY <2>1, <2>2, <2>3
<1>3. CASE Reset
  <2>1. ListInv'
    BY <1>3 DEF Reset, ListInv
  <2>2. generation' \in 0 .. MaxReset
    BY <1>3, BindingsAssumption DEF Reset, TypeOK
  <2>3. TypeOK'
    BY <1>3, <2>2 DEF Reset, TypeOK
  <2>4. ExpiryTimed' /\ PendingNamed'
    BY <1>3 DEF Reset, ExpiryTimed, PendingNamed
  <2> QED BY <2>1, <2>3, <2>4
<1>4. CASE Tick
  <2>1. ListInv'
    BY <1>4 DEF Tick, ListInv
  <2>2. now' \in 0 .. MaxTime
    BY <1>4, BindingsAssumption DEF Tick, TypeOK
  <2>3. TypeOK'
    BY <1>4, <2>2 DEF Tick, TypeOK, tables
  <2>4. ExpiryTimed' /\ PendingNamed'
    BY <1>4 DEF Tick, ExpiryTimed, Expires, PendingNamed, KindName, tables
  <2> QED BY <2>1, <2>3, <2>4
<1>5. CASE UNCHANGED vars
  <2>1. ListInv'
    BY <1>5 DEF vars, ListInv
  <2>2. TypeOK'
    BY <1>5 DEF vars, TypeOK, tables
  <2>3. ExpiryTimed' /\ PendingNamed'
    BY <1>5 DEF vars, ExpiryTimed, Expires, PendingNamed, KindName, tables
  <2> QED BY <2>1, <2>2, <2>3
<1> QED BY <1>1, <1>2, <1>3, <1>4, <1>5

(* What a key-down does, in terms of the scan it makes.                       *)
DownStart(group) ==
    [chords |-> chords, sequences |-> sequences, record |-> record,
     seq |-> seq, timers |-> {}, fire |-> <<>>, mask |-> FALSE,
     swallow |-> \E i \in group : list[i].block]

Does(vk, holds, repeat, won, group, end, lost) ==
    /\ active' = active \cup {vk}
    /\ chords' = end.chords /\ sequences' = end.sequences /\ seq' = end.seq
    /\ record' = [end.record EXCEPT ![vk] = RecordOfDown(repeat, @, end.swallow)]
    /\ lost \in {{}, end.timers}
    /\ queue' = Started(end.timers, lost) /\ StillRefused(lost)
    /\ decision'.vk = vk /\ decision'.holds = holds /\ decision'.first = ~repeat
    /\ decision'.swallow = DownSwallowed(repeat, end.record[vk], end.swallow)
    /\ decision'.mask = end.mask /\ decision'.fire = end.fire
    /\ decision'.arm = {list[i].name : i \in group}
    /\ file' = file /\ list' = list /\ now' = now /\ generation' = generation

GroupAt(repeat, won, vk, held) ==
    IF won = 0 \/ repeat THEN {} ELSE DeferredGroup(list, won, vk, held)

(* The parts of a key-down's step.                                            *)
DownIs(vk, holds, repeat, won, group, start, end, lost) ==
    /\ repeat \in BOOLEAN /\ (repeat <=> vk \in active)
    /\ won = Elect(list, vk, active', holds)
    /\ group = GroupAt(repeat, won, vk, active')
    /\ start = DownStart(group) /\ ScanInv(start)
    /\ end = Scan(start, won, vk, holds, repeat)
    /\ Scanned(start, end, Len(list), won, vk, holds, repeat)
    /\ Does(vk, holds, repeat, won, group, end, lost)
    /\ decision'.fed = (~repeat /\ IsFed(vk, holds))
    /\ log' = IF ~repeat /\ IsFed(vk, holds)
              THEN Append(log, [vk |-> vk, at |-> now, held |-> active',
                                holds |-> holds, era |-> generation])
              ELSE log

(* A key-down is a scan of the whole list, whose end it takes over.           *)
LEMMA DownDoes ==
    ASSUME BindInv, NEW vk \in Code, NEW holds, KeyDown(vk, holds)
    PROVE  \E repeat, won, group, start, end, lost :
              DownIs(vk, holds, repeat, won, group, start, end, lost)
<1> DEFINE repeat == vk \in active
           won    == Elect(list, vk, active', holds)
           group  == GroupAt(repeat, won, vk, active')
           start  == DownStart(group)
           end    == Scan(start, won, vk, holds, repeat)
<1>1. /\ ListInv /\ TypeOK /\ ExpiryTimed /\ PendingNamed
      /\ now \in Nat /\ generation \in 0 .. MaxReset /\ repeat \in BOOLEAN
  BY BindingsAssumption DEF BindInv, TypeOK
<1>2. PICK lost :
        /\ Does(vk, holds, repeat, won, group, end, lost)
        /\ decision'.fed = (~repeat /\ IsFed(vk, holds))
        /\ log' = IF ~repeat /\ IsFed(vk, holds)
                  THEN Append(log, [vk |-> vk, at |-> now, held |-> active',
                                    holds |-> holds, era |-> generation])
                  ELSE log
  <2>1. /\ active' = active \cup {vk}
        /\ file' = file /\ list' = list /\ now' = now /\ generation' = generation
        /\ log' = IF ~(~repeat /\ IsFed(vk, holds)) THEN log
                  ELSE Append(log, [vk |-> vk, at |-> now, held |-> active',
                                    holds |-> holds, era |-> generation])
        /\ \E e \in {end} :
             /\ chords' = e.chords /\ sequences' = e.sequences /\ seq' = e.seq
             /\ record' = [e.record EXCEPT ![vk] = RecordOfDown(repeat, @, e.swallow)]
             /\ \E lost \in {{}, e.timers} :
                   queue' = Started(e.timers, lost) /\ StillRefused(lost)
             /\ decision' =
                  [vk |-> vk, holds |-> holds, first |-> ~repeat,
                   fed |-> ~repeat /\ IsFed(vk, holds),
                   swallow |-> DownSwallowed(repeat, e.record[vk], e.swallow),
                   mask |-> e.mask, fire |-> e.fire, arm |-> {list[i].name : i \in group}]
    BY DEF KeyDown, DownStart, GroupAt
  <2> HIDE DEF end, group, repeat, won
  <2>2. PICK lost \in {{}, end.timers} :
           queue' = Started(end.timers, lost) /\ StillRefused(lost)
    BY <2>1
  <2>3. Does(vk, holds, repeat, won, group, end, lost)
    BY <2>1, <2>2 DEF Does
  <2>4. decision'.fed = (~repeat /\ IsFed(vk, holds))
    BY <2>1
  <2>5. log' = IF ~repeat /\ IsFed(vk, holds)
              THEN Append(log, [vk |-> vk, at |-> now, held |-> active',
                                holds |-> holds, era |-> generation])
              ELSE log
    BY <2>1
  <2> QED BY <2>3, <2>4, <2>5
<1>3. start \in ScanState
  <2>1. (\E i \in group : list[i].block) \in BOOLEAN
    OBVIOUS
  <2>2. sequences \in SUBSET PendingSequence
    BY <1>1 DEF TypeOK
  <2> HIDE DEF group
  <2> QED BY <1>1, <2>1, <2>2 DEF ScanState, DownStart, TypeOK
<1>4. start = DownStart(group) /\ start.fire = <<>>
      /\ start.chords = chords /\ start.sequences = sequences
  BY DEF DownStart
<1>5. repeat <=> vk \in active
  OBVIOUS
<1>6. won = Elect(list, vk, active', holds) /\ group = GroupAt(repeat, won, vk, active')
      /\ end = Scan(start, won, vk, holds, repeat)
  OBVIOUS
<1> HIDE DEF start, group, won, repeat
<1>7. ScanInv(start)
  BY <1>1, <1>3, <1>4
     DEF ScanInv, TablesWhole, TimersAsked, NamesApart, ExpiryTimed, PendingNamed, TypeOK
<1>8. Scanned(start, end, Len(list), won, vk, holds, repeat)
  BY <1>1, <1>4, <1>7, ScanKeeps
<1> HIDE DEF end
<1>9. DownIs(vk, holds, repeat, won, group, start, end, lost)
  BY <1>1, <1>2, <1>4, <1>5, <1>6, <1>7, <1>8 DEF DownIs
<1> QED BY <1>9

(* What the scan keeps, the key-down keeps; stale timers alone are dropped.   *)
LEMMA DownKeeps ==
    ASSUME BindInv, NEW vk \in Code, NEW holds, NEW repeat \in BOOLEAN, NEW won,
           NEW group, NEW end, NEW lost, ScanInv(end),
           Does(vk, holds, repeat, won, group, end, lost)
    PROVE  BindInv'
<1>1. /\ ListInv /\ TypeOK /\ ExpiryTimed /\ PendingNamed
      /\ end \in ScanState /\ TablesWhole(end) /\ TimersAsked(end) /\ NamesApart(end)
  BY DEF BindInv, ScanInv
<1>2. /\ chords' = end.chords /\ sequences' = end.sequences /\ seq' = end.seq
      /\ lost \in {{}, end.timers} /\ queue' = Started(end.timers, lost) /\ StillRefused(lost)
      /\ file' = file /\ list' = list /\ now' = now /\ generation' = generation
      /\ active' = active \cup {vk}
      /\ record' = [end.record EXCEPT ![vk] = RecordOfDown(repeat, @, end.swallow)]
  BY DEF Does
<1>3. ListInv'
  BY <1>1, <1>2 DEF ListInv
<1>4. TypeOK'
  <2>1. now' \in 0 .. MaxTime /\ active' \subseteq Code /\ generation' \in 0 .. MaxReset
    BY <1>1, <1>2 DEF TypeOK
  <2>2. record' \in [Code -> LastDown]
    <3>1. end.record \in [Code -> LastDown]
      BY <1>1 DEF ScanState
    <3>2. RecordOfDown(repeat, end.record[vk], end.swallow) \in LastDown
      BY <3>1 DEF RecordOfDown, LastDown
    <3> QED BY <1>2, <3>1, <3>2
  <2>3. seq' \in Nat /\ chords' \subseteq PendingChord /\ sequences' \subseteq PendingSequence
    BY <1>1, <1>2 DEF ScanState
  <2>4. queue' \subseteq Timer
    BY <1>1, <1>2 DEF ScanState, Started, TypeOK
  <2>5. /\ \A e \in sequences' : e.next \in 1 .. Len(e.steps) - 1
        /\ \A e, f \in chords' : e.keys = f.keys => e = f
        /\ \A e, f \in sequences' : e.steps = f.steps => e = f
    BY <1>1, <1>2 DEF TablesWhole
  <2> QED BY <2>1, <2>2, <2>3, <2>4, <2>5 DEF TypeOK
<1>5. refused' = (refused \cup {t.seq : t \in lost})
                   \cap {e.seq : e \in chords' \cup sequences'}
  BY <1>2 DEF StillRefused
<1>6. \A t : t \in queue' <=>
        IF end.timers = {} THEN t \in queue
        ELSE (t \in queue /\ IsLive(t, chords', sequences')) \/ t \in end.timers \ lost
  BY <1>2 DEF Started
<1>7. ASSUME NEW e \in chords' PROVE Expires("chord", e)'
  <2>1. Expires("chord", e) \/ TimerOf("chord", e) \in end.timers
    BY <1>1, <1>2, <1>7 DEF TimersAsked
  <2>2. e.seq \in refused \/ (\E t \in lost : t.seq = e.seq) => e.seq \in refused'
    BY <1>5, <1>7
  <2>3. IsLive(TimerOf("chord", e), chords', sequences')
    BY <1>7 DEF IsLive, TimerOf
  <2>4. TimerOf("chord", e).seq = e.seq
    BY DEF TimerOf
  <2>5. e.seq \in refused' \/ TimerOf("chord", e) \in queue'
    <3>1. CASE e.seq \in refused
      BY <2>2, <3>1
    <3>2. CASE TimerOf("chord", e) \in queue
      BY <1>6, <2>3, <3>2
    <3>3. CASE TimerOf("chord", e) \in end.timers
      BY <1>2, <1>6, <2>2, <2>4, <3>3
    <3> QED BY <2>1, <3>1, <3>2, <3>3 DEF Expires, TimerOf
  <2> QED BY <1>2, <2>5 DEF Expires, TimerOf
<1>8. ASSUME NEW e \in sequences' PROVE Expires("sequence", e)'
  <2>1. Expires("sequence", e) \/ TimerOf("sequence", e) \in end.timers
    BY <1>1, <1>2, <1>8 DEF TimersAsked
  <2>2. e.seq \in refused \/ (\E t \in lost : t.seq = e.seq) => e.seq \in refused'
    BY <1>5, <1>8
  <2>3. IsLive(TimerOf("sequence", e), chords', sequences')
    BY <1>8 DEF IsLive, TimerOf
  <2>4. TimerOf("sequence", e).seq = e.seq
    BY DEF TimerOf
  <2>5. e.seq \in refused' \/ TimerOf("sequence", e) \in queue'
    <3>1. CASE e.seq \in refused
      BY <2>2, <3>1
    <3>2. CASE TimerOf("sequence", e) \in queue
      BY <1>6, <2>3, <3>2
    <3>3. CASE TimerOf("sequence", e) \in end.timers
      BY <1>2, <1>6, <2>2, <2>4, <3>3
    <3> QED BY <2>1, <3>1, <3>2, <3>3 DEF Expires, TimerOf
  <2> QED BY <1>2, <2>5 DEF Expires, TimerOf
<1>9. PendingNamed'
  BY <1>1, <1>2 DEF PendingNamed, NamesApart, KindName
<1> QED BY <1>3, <1>4, <1>7, <1>8, <1>9 DEF BindInv, ExpiryTimed

(* A blocker that matches acts, since what Windows has down, of the keys held,*)
(* is no more than the hotkey's.                                              *)
LEMMA DownKeepsHotkey ==
    ASSUME BindInv, NEW vk \in Code, NEW holds, NEW repeat \in BOOLEAN, NEW won,
           NEW group, NEW start, start.record = record, NEW end, NEW lost,
           Scanned(start, end, Len(list), won, vk, holds, repeat),
           Does(vk, holds, repeat, won, group, end, lost)
    PROVE  HotkeyKept'
<1> DEFINE down == {c \in active' : record'[c] = "Passed"}
<1>1. SUFFICES ASSUME NEW i \in DOMAIN file, file[i].kind = "combo", file[i].blocker # "no",
                      file[i].when \in holds, ~repeat, ~decision'.swallow,
                      IsTriggerKey(file[i].keys, vk),
                      KeysDown(file[i].keys, down), down \subseteq UNION file[i].keys
               PROVE  file[i].blocker = "mask" /\ decision'.mask
  <2>1. /\ file' = file /\ decision'.vk = vk /\ decision'.holds = holds
        /\ decision'.first = ~repeat
    BY DEF Does
  <2> HIDE DEF down
  <2>2. HotkeyKept' <=>
          \A i \in DOMAIN file :
             /\ file[i].kind = "combo" /\ file[i].blocker # "no" /\ file[i].when \in holds
             /\ ~repeat /\ ~decision'.swallow
             /\ IsTriggerKey(file[i].keys, vk)
             /\ KeysDown(file[i].keys, down) /\ down \subseteq UNION file[i].keys
             => file[i].blocker = "mask" /\ decision'.mask
    BY <2>1 DEF HotkeyKept, down
  <2> QED BY <2>2
<1>2. /\ ListInv /\ TypeOK /\ ScanInv(end) /\ (end.record = record \/ end.swallow)
      /\ \A n \in 1 .. Len(list) : Blocks(n, vk, holds) =>
            end.swallow \/ (list[n].blocker = "mask" /\ (end.mask \/ repeat))
  BY DEF BindInv, Scanned
<1>3. decision'.swallow = end.swallow /\ decision'.mask = end.mask
  BY <1>1 DEF Does, DownSwallowed
<1>4. /\ ~end.swallow /\ end.record = record /\ record \in [Code -> LastDown]
  BY <1>1, <1>2, <1>3 DEF TypeOK
<1>5. /\ active' = active \cup {vk} /\ active \subseteq Code
      /\ record' = [record EXCEPT ![vk] = RecordOfDown(repeat, record[vk], end.swallow)]
  BY <1>2, <1>4 DEF Does, TypeOK
<1>6. (WindowsHas \ {vk}) \subseteq down
  BY <1>4, <1>5 DEF WindowsHas
<1>7. down \subseteq active'
  OBVIOUS
<1> HIDE DEF down
<1>8. BlockerMatches(file[i].keys, vk, active', WindowsHas \ {vk})
  <2>1. KeysDown(file[i].keys, active')
    BY <1>1, <1>7 DEF KeysDown
  <2>2. (active' \ UNION file[i].keys) \cap (WindowsHas \ {vk}) = {}
    BY <1>1, <1>6
  <2> QED BY <1>1, <2>1, <2>2 DEF BlockerMatches
<1>9. PICK n \in 1 .. Len(list) : list[n] = file[i]
  <2>1. DOMAIN file = 1 .. Len(list)
    BY <1>2, ListKnown, FileKnown DEF ListInv
  <2> QED BY <1>1, <1>2, <2>1, ListKnown
<1>10. Blocks(n, vk, holds)
  BY <1>1, <1>8, <1>9 DEF Blocks
<1>11. list[n].blocker = "mask" /\ end.mask
  BY <1>1, <1>2, <1>4, <1>10
<1> QED BY <1>3, <1>9, <1>11

-----------------------------------------------------------------------------
(* There is one best rival.                                                   *)
LEMMA BestIsOne ==
    ASSUME file \in Files, NEW vk, NEW held, NEW holds,
           NEW i, BestOf(RivalsOf(vk, held, holds), i),
           NEW j, BestOf(RivalsOf(vk, held, holds), j)
    PROVE  i = j
<1>1. /\ Len(file) \in Nat /\ DOMAIN file = 1 .. Len(file)
      /\ \A k \in 1 .. Len(file) : Known(file[k])
  BY FileKnown
<1>2. i \in DOMAIN file /\ j \in DOMAIN file
  BY DEF BestOf, RivalsOf
<1>3. /\ Candidate(file[i], vk, held, holds) /\ Known(file[i])
      /\ Candidate(file[j], vk, held, holds) /\ Known(file[j])
  BY <1>1, <1>2 DEF BestOf, RivalsOf
<1>4. Weight(file[i]) \in Nat /\ Weight(file[j]) \in Nat /\ i \in Nat /\ j \in Nat
  <2>1. ASSUME NEW b, Known(b), Candidate(b, vk, held, holds) PROVE Weight(b) \in Nat
    <3>1. /\ KeyCount(b) \in Nat
          /\ Weight(b) = 2 * KeyCount(b) + (IF b.when = Always THEN 0 ELSE 1)
      BY <2>1, CandidateKnown
    <3> QED BY <3>1
  <2> QED BY <1>1, <1>2, <1>3, <2>1
<1>5. CASE i # j
  <2>1. /\ \/ Weight(file[i]) > Weight(file[j])
           \/ Weight(file[i]) = Weight(file[j]) /\ i < j
        /\ \/ Weight(file[j]) > Weight(file[i])
           \/ Weight(file[j]) = Weight(file[i]) /\ j < i
    BY <1>5 DEF BestOf
  <2> QED BY <1>4, <2>1
<1> QED BY <1>5

Armed(f, group, first) ==
    {i \in group : first /\ \A j \in group : f[j].trigger = f[i].trigger => i <= j}

(* The binding `b` with its group is what acts, and nothing else.             *)
ActsAlone(rivals, fired, b, group, d, f) ==
    IF rivals = {} THEN fired = {} /\ d.arm = {}
    ELSE /\ IF b.trigger = "immediate" /\ (d.first \/ b.repeat)
            THEN \E n \in fired : fired = {n} /\ d.fire[n] = b.name
            ELSE fired = {}
         /\ d.arm = NamesOf(f, Armed(f, group, d.first))

(* What OneWinner says of a key-down, in terms of the winner elected.         *)
LEMMA OneWinnerMeans ==
    OneWinner <=>
       (decision.vk # "none" =>
          ActsAlone(Rivals, CombosFired(decision), file[FirstBest],
                    Group(file[FirstBest]), decision, file))
  BY DEF OneWinner, ActsAlone, CombosFired, Armed, NamesOf

(* The winner elected acts alone, with its group.                             *)
LEMMA DownKeepsWinner ==
    ASSUME BindInv, NEW vk \in Code, NEW holds, NEW repeat \in BOOLEAN, NEW won,
           won = Elect(list, vk, active', holds),
           NEW group, group = GroupAt(repeat, won, vk, active'),
           NEW start, NEW end, NEW lost,
           Scanned(start, end, Len(list), won, vk, holds, repeat),
           Does(vk, holds, repeat, won, group, end, lost)
    PROVE  OneWinner'
<1> DEFINE N == Len(list)
           held == active'
           R == RivalsOf(vk, held, holds)
<1>1. /\ ListInv /\ FiresWinner(end, N, won, repeat) /\ file \in Files
  BY DEF BindInv, Scanned, ListInv
<1>2. PICK at : Order(at, N)
  BY <1>1, ListKnown DEF Order
<1>3. Elected(list, won, N, vk, held, holds)
  <2>1. N \in Nat /\ \A i \in 1 .. N : KeyCount(list[i]) \in Nat
    BY <1>1, ListKnown DEF Known
  <2> QED BY <2>1, ElectElects
<1>4. /\ won = 0 <=> R = {}
      /\ won # 0 => BestOf(R, at[won])
  <2>1. ASSUME NEW n, n = Len(list), Order(at, n), NEW h, Elected(list, won, n, vk, h, holds)
        PROVE  /\ won = 0 <=> RivalsOf(vk, h, holds) = {}
               /\ won # 0 => BestOf(RivalsOf(vk, h, holds), at[won])
    BY <1>1, <2>1, ElectedIsBest
  <2> QED BY <1>2, <1>3, <2>1
<1>5. won # 0 => NamesOf(list, DeferredGroup(list, won, vk, held)) =
                   NamesOf(file, FirstsOf(GroupOf(R, list[won])))
  <2>1. ASSUME NEW n, n = Len(list), Order(at, n), NEW h, Elected(list, won, n, vk, h, holds),
               won # 0
        PROVE  NamesOf(list, DeferredGroup(list, won, vk, h)) =
                 NamesOf(file, FirstsOf(GroupOf(RivalsOf(vk, h, holds), list[won])))
    BY <1>1, <2>1, GroupIsFirsts
  <2> QED BY <1>2, <1>3, <2>1
<1>6. /\ file' = file /\ decision'.vk = vk /\ decision'.holds = holds
      /\ decision'.first = ~repeat /\ decision'.fire = end.fire
      /\ decision'.arm = NamesOf(list, group)
  BY DEF Does, NamesOf
<1>7. Rivals' = R
  BY <1>6 DEF Rivals, RivalsOf
<1>8. CombosFired(decision)' = CombosFired(end)
  BY <1>6 DEF CombosFired, IsCombo
<1>a. (OneWinner <=>
         (decision.vk # "none" =>
            ActsAlone(Rivals, CombosFired(decision), file[FirstBest],
                      Group(file[FirstBest]), decision, file)))'
  BY OneWinnerMeans, PTL
<1>b. ActsAlone(Rivals', CombosFired(decision)', (file[FirstBest])',
                Group(file[FirstBest])', decision', file') => OneWinner'
  BY <1>a
<1> HIDE DEF R, N
<1>9. CASE won = 0
  <2>1. CombosFired(end) = {}
    BY <1>1, <1>9 DEF FiresWinner
  <2>2. decision'.arm = {}
    BY <1>6, <1>9 DEF GroupAt, NamesOf
  <2>3. Rivals' = {}
    BY <1>4, <1>7, <1>9
  <2> QED BY <1>8, <1>b, <2>1, <2>2, <2>3 DEF ActsAlone
<1>10. CASE won # 0
  <2>1. won \in 1 .. N /\ list[won] = file[at[won]] /\ Candidate(list[won], vk, held, holds)
        /\ Known(list[won])
    <3>1. won \in 1 .. N
      BY <1>3, <1>10, <1>1, ListKnown DEF Elected, N
    <3> QED BY <1>1, <1>2, <1>3, <1>10, <3>1, ListKnown DEF Elected, Order, N
  <2>2. FirstBest' = at[won]
    <3>1. \A i \in R :
             (\A j \in R \ {i} :
                  \/ Weight(file[i]) > Weight(file[j])
                  \/ Weight(file[i]) = Weight(file[j]) /\ i < j) <=> BestOf(R, i)
      BY DEF BestOf
    <3>2. FirstBest' = CHOOSE i \in R : BestOf(R, i)
      <4>1. FirstBest' = CHOOSE i \in R :
                            \A j \in R \ {i} :
                               \/ Weight(file[i]) > Weight(file[j])
                               \/ Weight(file[i]) = Weight(file[j]) /\ i < j
        BY <1>6, <1>7 DEF FirstBest
      <4> QED BY <3>1, <4>1
    <3>3. at[won] \in R /\ BestOf(R, at[won])
      BY <1>4, <1>10 DEF BestOf
    <3>4. \A i \in R : BestOf(R, i) => i = at[won]
      BY <1>1, <3>3, BestIsOne DEF R
    <3> QED BY <3>2, <3>3, <3>4
  <2> DEFINE best == list[won]
  <2>3. (file[FirstBest])' = best
    BY <1>6, <2>1, <2>2
  <2>4. best.trigger \in Deferred \cup {"immediate"} /\ "immediate" \notin Deferred
    BY <2>1, CandidateKnown DEF ComboBinding, Deferred
  <2>5. FiresNow(won, repeat) <=> best.trigger = "immediate" /\ (~repeat \/ best.repeat)
    BY <2>1 DEF FiresNow, Candidate
  <2>6. IF best.trigger = "immediate" /\ (~repeat \/ best.repeat)
        THEN \E n \in CombosFired(end) : CombosFired(end) = {n} /\ end.fire[n] = best.name
        ELSE CombosFired(end) = {}
    BY <1>1, <2>1, <2>5 DEF FiresWinner, N
  <2>7. NamesOf(list, group) = NamesOf(file, Armed(file, GroupOf(R, best), ~repeat))
    <3>1. CASE repeat
      <4>1. group = {}
        BY <3>1 DEF GroupAt
      <4> QED BY <3>1, <4>1 DEF NamesOf, Armed
    <3>2. CASE ~repeat
      <4>1. group = DeferredGroup(list, won, vk, held)
        BY <1>10, <3>2 DEF GroupAt
      <4>2. FirstsOf(GroupOf(R, best)) = Armed(file, GroupOf(R, best), ~repeat)
        BY <3>2 DEF FirstsOf, Armed
      <4> QED BY <1>5, <1>10, <4>1, <4>2
    <3> QED BY <3>1, <3>2
  <2>8. Group(file[FirstBest])' = GroupOf(R, best)
    <3>1. Group(file[FirstBest])' =
            {i \in Rivals' : /\ file'[i].keys = (file[FirstBest])'.keys
                            /\ file'[i].when = (file[FirstBest])'.when
                            /\ {(file[FirstBest])'.trigger, file'[i].trigger}
                                  \subseteq Deferred}
      BY DEF Group
    <3> QED BY <1>6, <1>7, <2>3, <3>1 DEF GroupOf
  <2>9. R # {}
    BY <1>4, <1>10
  <2> HIDE DEF best
  <2> QED BY <1>6, <1>7, <1>8, <1>b, <2>3, <2>6, <2>7, <2>8, <2>9 DEF ActsAlone
<1> QED BY <1>9, <1>10

-----------------------------------------------------------------------------
(* A step that decides nothing, or changes nothing, leaves nothing to explain.*)
LEMMA NothingDecided ==
    ASSUME decision' = Nothing
    PROVE  OneWinner' /\ HotkeyKept'
<1>1. decision'.vk = "none" /\ decision'.first = FALSE
  BY DEF Nothing
<1> QED BY <1>1 DEF OneWinner, HotkeyKept

ActInv == BindInv /\ OneWinner /\ HotkeyKept

(* At the start nothing has been decided.                                     *)
LEMMA InitAct == Init => ActInv
<1> SUFFICES ASSUME Init PROVE ActInv
  OBVIOUS
<1>1. decision.vk = "none" /\ decision.first = FALSE
  BY DEF Init, Nothing
<1> QED BY <1>1, InitBind DEF ActInv, OneWinner, HotkeyKept

(* A key-down keeps all of it.                                                *)
LEMMA DownAct ==
    ASSUME BindInv, NEW vk \in Code, NEW holds, KeyDown(vk, holds)
    PROVE  ActInv'
<1>1. PICK repeat, won, group, start, end, lost :
        DownIs(vk, holds, repeat, won, group, start, end, lost)
  BY DownDoes
<1>a. /\ repeat \in BOOLEAN /\ won = Elect(list, vk, active', holds)
      /\ group = GroupAt(repeat, won, vk, active') /\ start.record = record
      /\ Scanned(start, end, Len(list), won, vk, holds, repeat)
      /\ Does(vk, holds, repeat, won, group, end, lost)
  BY <1>1 DEF DownIs, DownStart
<1>2. ScanInv(end)
  BY <1>a DEF Scanned
<1>3. BindInv'
  BY <1>a, <1>2, DownKeeps
<1>4. OneWinner'
  BY <1>a, DownKeepsWinner
<1>5. HotkeyKept'
  BY <1>a, DownKeepsHotkey
<1> QED BY <1>3, <1>4, <1>5 DEF ActInv

(* And so does every step.                                                    *)
LEMMA NextAct == ActInv /\ [Next]_vars => ActInv'
<1> SUFFICES ASSUME ActInv, [Next]_vars PROVE ActInv'
  OBVIOUS
<1>1. BindInv /\ OneWinner /\ HotkeyKept /\ file \in Files
  BY DEF ActInv, BindInv, ListInv
<1>2. \A vk \in Sent[file] : vk \in Code
  BY <1>1, BindingsAssumption
<1>3. ASSUME NEW vk \in Sent[file], KeyUp(vk) PROVE ActInv'
  <2>1. decision' = Nothing
    BY <1>3 DEF KeyUp
  <2>2. BindInv'
    BY <1>1, <1>2, <1>3, OtherBind
  <2> QED BY <2>1, <2>2, NothingDecided DEF ActInv
<1>4. ASSUME NEW vk \in Sent[file], NEW holds \in Views, KeyDown(vk, holds) PROVE ActInv'
  BY <1>1, <1>2, <1>4, DownAct
<1>5. CASE Refuse \/ Reset \/ Tick
  <2>1. decision' = Nothing
    BY <1>5 DEF Refuse, Reset, Tick
  <2>2. BindInv'
    BY <1>1, <1>5, OtherBind
  <2> QED BY <2>1, <2>2, NothingDecided DEF ActInv
<1>6. CASE OnTimer
  <2>1. decision' = Nothing
    BY <1>6 DEF OnTimer
  <2>2. BindInv'
    BY <1>1, <1>6, TimerBind
  <2> QED BY <2>1, <2>2, NothingDecided DEF ActInv
<1>7. CASE UNCHANGED vars
  <2>1. BindInv'
    BY <1>1, <1>7, OtherBind
  <2>2. OneWinner'
    <3>1. decision' = decision /\ file' = file
      BY <1>7 DEF vars
    <3>2. Rivals' = Rivals
      BY <1>7 DEF vars, Rivals
    <3>a. FirstBest' = FirstBest
      BY <3>1, <3>2 DEF FirstBest
    <3>3. \A b : Group(b)' = Group(b)
      BY <3>1, <3>2 DEF Group
    <3> QED BY <1>1, <3>1, <3>2, <3>a, <3>3 DEF OneWinner, IsCombo
  <2>3. HotkeyKept'
    BY <1>1, <1>7 DEF vars, HotkeyKept
  <2> QED BY <2>1, <2>2, <2>3 DEF ActInv
<1> QED BY <1>3, <1>4, <1>5, <1>6, <1>7 DEF Next

(* Hence it always holds.                                                     *)
LEMMA ActAlways == Spec => []ActInv
  BY InitAct, NextAct, PTL DEF Spec

(* The pending chords and sequences keep their types, one for a set of keys   *)
(* or for steps, and each has a timer queued that ends it, or Windows refused *)
(* one (chords.rs, sequences.rs, GestureTimers).                              *)
THEOREM TablesAreKept == Spec => []TablesKept
<1>1. ActInv => TablesKept
  BY DEF ActInv, BindInv, TablesKept
<1> QED BY <1>1, ActAlways, PTL

(* On each key-down one `keys` binding acts, with its group: the best of      *)
(* those that match, whatever the order of the list and the length of the     *)
(* file (Engine::on_key_down).                                                *)
THEOREM OneActs == Spec => []OneWinner
<1>1. ActInv => OneWinner
  BY DEF ActInv
<1> QED BY <1>1, ActAlways, PTL

(* No key-down that completes a blocked hotkey reaches Windows without the    *)
(* mask (Engine::on_key_down, blocker_matches).                               *)
THEOREM HotkeysAreKept == Spec => []HotkeyKept
<1>1. ActInv => HotkeyKept
  BY DEF ActInv
<1> QED BY <1>1, ActAlways, PTL
-----------------------------------------------------------------------------
(* The key-downs of the log are in the order of their times, none of them     *)
(* after now or of a reload to come.                                          *)
LogEntry == [vk : Code, at : Nat, held : SUBSET Code, holds : Views, era : Nat]

LogInv ==
    /\ log \in Seq(LogEntry)
    /\ \A i \in 1 .. Len(log) : log[i].at <= now /\ log[i].era <= generation
    /\ \A i, j \in 1 .. Len(log) : i <= j => log[i].at <= log[j].at

(* A path goes from one key-down of the log to the next.                      *)
PathWalk ==
    \A steps : \E h : /\ h[0] = NoPath
                      /\ \A i \in 1 .. Len(log) : h[i] = PathStep(steps, h[i - 1], i)
                      /\ Path(steps) = h[Len(log)]

(* A path is what one step after another makes of it.                         *)
LEMMA PathWalks == Len(log) \in Nat => PathWalk
<1> SUFFICES ASSUME Len(log) \in Nat, NEW steps
             PROVE  \E h : /\ h[0] = NoPath
                           /\ \A i \in 1 .. Len(log) : h[i] = PathStep(steps, h[i - 1], i)
                           /\ Path(steps) = h[Len(log)]
  BY DEF PathWalk
<1> DEFINE n == Len(log)
    Rule(h, m) ==
      h = [i \in 0 .. m |-> IF i = 0 THEN NoPath ELSE PathStep(steps, h[i - 1], i)]
    Reached == {m \in 0 .. n : \E h : Rule(h, m)}
<1>a. Len(log) = n /\ n \in Nat
  OBVIOUS
<1> HIDE DEF n
<1>1. 0 \in Reached
  <2> DEFINE h == [i \in 0 .. 0 |-> NoPath]
  <2>1. Rule(h, 0)
    OBVIOUS
  <2> HIDE DEF Rule, h
  <2> QED BY <1>a, <2>1
<1>2. ASSUME NEW m \in 1 .. n, m - 1 \in Reached PROVE m \in Reached
  <2>1. PICK g : Rule(g, m - 1)
    BY <1>2
  <2> DEFINE h == [i \in 0 .. m |-> IF i = m THEN PathStep(steps, g[m - 1], m) ELSE g[i]]
  <2>2. \A i \in 0 .. m : h[i] = IF i = 0 THEN NoPath ELSE PathStep(steps, h[i - 1], i)
    <3>1. \A i \in 0 .. m - 1 : h[i] = g[i]
      BY <1>a
    <3>2. \A i \in 0 .. m - 1 : g[i] = IF i = 0 THEN NoPath ELSE PathStep(steps, g[i - 1], i)
      BY <2>1
    <3>3. h[m] = PathStep(steps, g[m - 1], m)
      BY <1>a
    <3>4. m # 0 /\ \A i \in 0 .. m : i = m \/ i \in 0 .. m - 1
      BY <1>a
    <3>5. \A i \in 0 .. m : i # 0 => i - 1 \in 0 .. m - 1
      BY <1>a
    <3> HIDE DEF h
    <3> QED BY <3>1, <3>2, <3>3, <3>4, <3>5
  <2>3. Rule(h, m)
    <3>1. h = [i \in 0 .. m |-> h[i]]
      OBVIOUS
    <3> HIDE DEF h
    <3> QED BY <2>2, <3>1
  <2> HIDE DEF Rule, h
  <2> QED BY <1>a, <2>3
<1>3. n \in Reached
  <2> HIDE DEF Reached
  <2>1. \A i \in 0 .. n : i \in Reached
    BY <1>1, <1>2, <1>a, StepByStep
  <2> QED BY <1>a, <2>1
<1> DEFINE c == CHOOSE h : Rule(h, n)
<1>4. Rule(c, n)
  <2>1. \E h : Rule(h, n)
    BY <1>3
  <2> HIDE DEF Rule
  <2> QED BY <2>1
<1>5. Path(steps) = c[n]
  <2> USE <1>a
  <2> QED BY Zenon DEF Path
<1>6. /\ c[0] = NoPath
      /\ \A i \in 1 .. n : c[i] = PathStep(steps, c[i - 1], i)
  <2> HIDE DEF c
  <2> QED BY <1>4, <1>a
<1> HIDE DEF c
<1> QED BY <1>5, <1>6, <1>a

(* A key-down in the log takes every path one step on.                        *)
LEMMA PathGrows ==
    ASSUME NEW n \in Nat, Len(log) = n, Len(log') \in n .. n + 1,
           file' = file, generation' = generation,
           \A i \in 1 .. n : log'[i] = log[i], NEW steps, NEW p, p = Path(steps)
    PROVE  /\ Len(log') = n => Path(steps)' = p
           /\ Len(log') = n + 1 => Path(steps)' = PathStep(steps, p, n + 1)'
<1>1. ASSUME NEW i \in 1 .. n, NEW q PROVE PathStep(steps, q, i)' = PathStep(steps, q, i)
  <2>1. log'[i] = log[i]
    OBVIOUS
  <2>2. For("sequence", steps, i)' = For("sequence", steps, i)
    BY <2>1 DEF For
  <2>3. BindingOf("sequence", steps, i)' = BindingOf("sequence", steps, i)
    BY <2>2 DEF BindingOf
  <2> QED BY <2>1, <2>2, <2>3, Zenon DEF PathStep
<1>2. PICK h : /\ h[0] = NoPath
               /\ \A i \in 1 .. n : h[i] = PathStep(steps, h[i - 1], i)
               /\ p = h[n]
  BY PathWalks DEF PathWalk
<1>3. PICK k : /\ k[0] = NoPath
               /\ \A i \in 1 .. Len(log') : k[i] = PathStep(steps, k[i - 1], i)'
               /\ Path(steps)' = k[Len(log')]
  <2>1. (Len(log) \in Nat => PathWalk)'
    BY PathWalks, PTL
  <2>2. PathWalk'
    BY <2>1
  <2>3. \E k : /\ k[0] = NoPath'
               /\ \A i \in 1 .. Len(log') : k[i] = PathStep(steps, k[i - 1], i)'
               /\ Path(steps)' = k[Len(log')]
    BY <2>2 DEF PathWalk
  <2>4. NoPath' = NoPath
    BY DEF NoPath
  <2> QED BY <2>3, <2>4
<1>4. \A i \in 1 .. n : k[i] = PathStep(steps, k[i - 1], i)
  BY <1>1, <1>3
<1> DEFINE Same == {i \in 0 .. n : k[i] = h[i]}
<1>5. 0 \in Same
  BY <1>2, <1>3
<1>6. ASSUME NEW m \in 1 .. n, m - 1 \in Same PROVE m \in Same
  BY <1>2, <1>4, <1>6
<1>7. k[n] = h[n]
  <2> HIDE DEF Same
  <2>1. \A i \in 0 .. n : i \in Same
    BY <1>5, <1>6, StepByStep
  <2>2. n \in Same
    BY <2>1
  <2> QED BY <2>2 DEF Same
<1>8. ASSUME Len(log') = n + 1 PROVE Path(steps)' = PathStep(steps, p, n + 1)'
  <2>1. k[n + 1] = PathStep(steps, k[n], n + 1)'
    <3>1. ASSUME NEW j, j = n + 1 PROVE k[j] = PathStep(steps, k[j - 1], j)'
      BY <1>3, <1>8, <3>1
    <3>2. \A j : j = n + 1 => k[j] = PathStep(steps, k[j - 1], j)'
      BY <3>1
    <3> QED BY <3>2
  <2> QED BY <1>2, <1>3, <1>7, <1>8, <2>1
<1>9. ASSUME Len(log') = n PROVE Path(steps)' = p
  BY <1>2, <1>3, <1>7, <1>9
<1> QED BY <1>8, <1>9

-----------------------------------------------------------------------------
(* What a sequence's feed makes of the table, of what fires and of the timers.*)
Goes(e, b) == e.steps = b.steps /\ KeysDown(b.steps[e.next + 1], active')

Renewed(a, b, s, next, name) ==
    /\ a.steps = b.steps /\ a.next = next /\ a.name = name
    /\ a.due = now + b.term /\ a.seq = s.seq

SequenceFed(s, b, t) ==
    LET live == Unexpired(s.sequences)
        rest == {e \in live : e.steps # b.steps}
    IN  /\ t.chords = s.chords /\ t.seq = s.seq
        /\ \/ /\ \E e \in live : /\ Goes(e, b) /\ e.next + 1 = Len(b.steps)
                                 /\ t.fire = Append(s.fire, e.name)
              /\ t.sequences = rest /\ t.timers = s.timers
           \/ \E a : /\ \/ \E e \in live : /\ Goes(e, b) /\ e.next + 1 # Len(b.steps)
                                           /\ Renewed(a, b, s, e.next + 1, e.name)
                        \/ /\ \A e \in live : ~Goes(e, b)
                           /\ KeysDown(b.steps[1], active') /\ Renewed(a, b, s, 1, b.name)
                     /\ t.sequences = rest \cup {a} /\ t.fire = s.fire
                     /\ t.timers = s.timers \cup {TimerOf("sequence", a)}
           \/ /\ \A e \in live : ~Goes(e, b)
              /\ ~KeysDown(b.steps[1], active')
              /\ t.sequences = rest /\ t.fire = s.fire /\ t.timers = s.timers

(* That is what a feed of a sequence is.                                      *)
LEMMA SequenceFeeds ==
    ASSUME NEW s, ScanInv(s), NEW b \in SequenceBinding, NEW t, t = FeedSequence(s, b)
    PROVE  SequenceFed(s, b, t)
<1> DEFINE live  == Unexpired(s.sequences)
           entry == CHOOSE e \in live : e.steps = b.steps
           rest  == {e \in live : e.steps # b.steps}
           after == Advanced(entry, now + b.term, s.seq)
           fresh == [steps |-> b.steps, next |-> 1, name |-> b.name,
                     due |-> now + b.term, seq |-> s.seq]
<1>1. s \in ScanState /\ TablesWhole(s)
  BY DEF ScanInv
<1>2. live \subseteq s.sequences
  BY DEF Unexpired
<1>3. /\ rest # live => entry \in live /\ entry.steps = b.steps
      /\ rest = live => \A e \in live : e.steps # b.steps
  <2>1. rest # live => \E e \in live : e.steps = b.steps
    OBVIOUS
  <2>2. rest = live => \A e \in live : e.steps # b.steps
    OBVIOUS
  <2> HIDE DEF live, rest
  <2> QED BY <2>1, <2>2
<1>4. \A e \in live : rest # live /\ e.steps = b.steps => e = entry
  <2> HIDE DEF live, entry, rest
  <2> QED BY <1>1, <1>2, <1>3 DEF TablesWhole
<1>5. \A e \in live : Goes(e, b) <=>
         rest # live /\ e = entry /\ KeysDown(b.steps[entry.next + 1], active')
  <2> HIDE DEF live, entry, rest
  <2> QED BY <1>3, <1>4 DEF Goes
<1>6. CASE rest # live /\ KeysDown(b.steps[entry.next + 1], active') /\ AtEnd(after)
  <2>1. t = Complete([s EXCEPT !.sequences = rest], entry.name, LastStepKeys(b.steps))
    BY <1>6 DEF FeedSequence
  <2>2. entry \in PendingSequence
    <3> HIDE DEF entry, live, rest
    <3> QED BY <1>1, <1>2, <1>3, <1>6 DEF ScanState
  <2>3. after.next = entry.next + 1 /\ after.steps = entry.steps
    <3> HIDE DEF entry
    <3> QED BY <2>2 DEF Advanced, PendingSequence
  <2> HIDE DEF entry, live, rest, after
  <2>4. /\ t.sequences = rest /\ t.chords = s.chords /\ t.seq = s.seq
        /\ t.fire = Append(s.fire, entry.name) /\ t.timers = s.timers
    BY <1>1, <2>1 DEF Complete, ScanState
  <2>5. entry.next + 1 = Len(b.steps) /\ entry \in live /\ Goes(entry, b)
    BY <1>3, <1>5, <1>6, <2>3 DEF AtEnd
  <2> QED BY <2>4, <2>5 DEF SequenceFed, live, rest
<1>7. ASSUME NEW a, t = Ask([s EXCEPT !.sequences = rest \cup {a}], "sequence", a.due),
             a.seq = s.seq
      PROVE  /\ t.sequences = rest \cup {a} /\ t.chords = s.chords /\ t.seq = s.seq
             /\ t.fire = s.fire /\ t.timers = s.timers \cup {TimerOf("sequence", a)}
  <2> HIDE DEF rest
  <2> QED BY <1>1, <1>7 DEF Ask, ScanState, TimerOf
<1>8. CASE rest # live /\ KeysDown(b.steps[entry.next + 1], active') /\ ~AtEnd(after)
  <2>1. t = Ask([s EXCEPT !.sequences = rest \cup {after}], "sequence", after.due)
    BY <1>8 DEF FeedSequence
  <2>2. entry \in PendingSequence
    <3> HIDE DEF entry, live, rest
    <3> QED BY <1>1, <1>2, <1>3, <1>8 DEF ScanState
  <2>3. /\ after.next = entry.next + 1 /\ after.steps = entry.steps
        /\ after.name = entry.name /\ after.due = now + b.term /\ after.seq = s.seq
    <3> HIDE DEF entry
    <3> QED BY <2>2 DEF Advanced, PendingSequence
  <2> HIDE DEF entry, live, rest, after
  <2>4. /\ t.sequences = rest \cup {after} /\ t.chords = s.chords /\ t.seq = s.seq
        /\ t.fire = s.fire /\ t.timers = s.timers \cup {TimerOf("sequence", after)}
    BY <1>7, <2>1, <2>3
  <2>5. entry.next + 1 # Len(b.steps) /\ entry \in live /\ Goes(entry, b)
        /\ Renewed(after, b, s, entry.next + 1, entry.name)
    BY <1>3, <1>5, <1>8, <2>3 DEF AtEnd, Renewed
  <2> QED BY <2>4, <2>5 DEF SequenceFed, live, rest
<1>9. CASE ~(rest # live /\ KeysDown(b.steps[entry.next + 1], active'))
  <2>1. \A e \in live : ~Goes(e, b)
    BY <1>5, <1>9
  <2>2. CASE KeysDown(b.steps[1], active')
    <3>1. t = Ask([s EXCEPT !.sequences = rest \cup {fresh}], "sequence", fresh.due)
      BY <1>9, <2>2 DEF FeedSequence
    <3>2. Renewed(fresh, b, s, 1, b.name) /\ fresh.seq = s.seq
      BY DEF Renewed
    <3> HIDE DEF entry, live, rest, fresh
    <3>3. /\ t.sequences = rest \cup {fresh} /\ t.chords = s.chords /\ t.seq = s.seq
          /\ t.fire = s.fire /\ t.timers = s.timers \cup {TimerOf("sequence", fresh)}
      BY <1>7, <3>1, <3>2
    <3> QED BY <2>1, <2>2, <3>2, <3>3 DEF SequenceFed, live, rest
  <2>3. CASE ~KeysDown(b.steps[1], active')
    <3>1. t = [s EXCEPT !.sequences = rest]
      BY <1>9, <2>3 DEF FeedSequence
    <3> HIDE DEF entry, live, rest
    <3>2. /\ t.sequences = rest /\ t.chords = s.chords /\ t.seq = s.seq
          /\ t.fire = s.fire /\ t.timers = s.timers
      BY <1>1, <3>1 DEF ScanState
    <3> QED BY <2>1, <2>3, <3>2 DEF SequenceFed, live, rest
  <2> QED BY <2>2, <2>3
<1> QED BY <1>6, <1>8, <1>9

(* The pending attempts and the paths tell the same story: what has not       *)
(* expired in the table is on its path, and the other way round.              *)
IsPath(p) == /\ p = [done |-> p.done, name |-> p.name, until |-> p.until]
             /\ p.done \in Nat /\ p.until \in Nat

OnPath(steps, p) == 0 < p.done /\ p.done < Len(steps) /\ now < p.until

OfPath(e, steps, p) == e.steps = steps /\ e.next = p.done /\ e.name = p.name /\ e.due = p.until

SequenceMatch(entries, steps, p) ==
    /\ IsPath(p)
    /\ \A e \in Unexpired(entries) : e.steps = steps => OnPath(steps, p) /\ OfPath(e, steps, p)
    /\ OnPath(steps, p) => \E e \in entries : OfPath(e, steps, p)

(* The step of a path at a key-down of now.                                   *)
Onward(b, p) ==
    LET next == IF OnPath(b.steps, p) THEN p.done + 1 ELSE 1
    IN  IF OnPath(b.steps, p) /\ KeysDown(b.steps[next], active')
        THEN [p EXCEPT !.done = next, !.until = now + b.term]
        ELSE IF KeysDown(b.steps[1], active')
        THEN [done |-> 1, name |-> b.name, until |-> now + b.term]
        ELSE NoPath

(* A feed takes the attempt for its steps along the path, fires at the end of *)
(* it, and leaves the other attempts where they are.                          *)
LEMMA SequenceFedMatches ==
    ASSUME now \in Nat, NEW s, ScanInv(s), NEW b \in SequenceBinding, Len(b.steps) > 1,
           NEW p, SequenceMatch(s.sequences, b.steps, p), NEW t, SequenceFed(s, b, t),
           NEW q, q = Onward(b, p)
    PROVE  /\ SequenceMatch(t.sequences, b.steps, q)
           /\ t.fire = IF q.done = Len(b.steps) THEN Append(s.fire, q.name) ELSE s.fire
<1> DEFINE live == Unexpired(s.sequences)
           rest == {e \in live : e.steps # b.steps}
           N == Len(b.steps)
<1>1. /\ s.sequences \subseteq PendingSequence /\ N \in Nat /\ b.term \in Nat
      /\ b.name \in STRING /\ p.done \in Nat /\ p.until \in Nat
      /\ p = [done |-> p.done, name |-> p.name, until |-> p.until]
      /\ \A e, f \in s.sequences : e.steps = f.steps => e = f
  BY DEF ScanInv, ScanState, SequenceBinding, SequenceMatch, IsPath, TablesWhole
<1>0. N \in Nat /\ N # 1 /\ N # 0
  <2>1. N \in Nat /\ N > 1
    BY <1>1
  <2> HIDE DEF N
  <2> QED BY <2>1
<1>2. \A e \in live : e.steps = b.steps => OnPath(b.steps, p) /\ OfPath(e, b.steps, p)
  BY DEF SequenceMatch
<1>3. OnPath(b.steps, p) => \E e \in live : OfPath(e, b.steps, p)
  BY DEF SequenceMatch, OfPath, OnPath, Unexpired
<1>4. \A e \in Unexpired(rest) : e.steps # b.steps
  BY DEF Unexpired
<1>5. CASE OnPath(b.steps, p) /\ KeysDown(b.steps[p.done + 1], active')
  <2>1. q = [done |-> p.done + 1, name |-> p.name, until |-> now + b.term]
    BY <1>1, <1>5 DEF Onward
  <2>2. PICK e \in live : OfPath(e, b.steps, p)
    BY <1>3, <1>5
  <2>3. Goes(e, b) /\ ~(\A f \in live : ~Goes(f, b))
    BY <1>5, <2>2 DEF Goes, OfPath
  <2>4. \A f \in live : Goes(f, b) => OfPath(f, b.steps, p)
    BY <1>2 DEF Goes
  <2>5. CASE p.done + 1 = N
    <3>1. t.sequences = rest /\ t.fire = Append(s.fire, p.name)
      BY <2>3, <2>4, <2>5 DEF SequenceFed, OfPath
    <3>2. ~OnPath(b.steps, q) /\ IsPath(q) /\ q.done = N
      BY <1>1, <2>1, <2>5 DEF OnPath, IsPath
    <3> HIDE DEF live, rest
    <3> QED BY <1>4, <2>1, <3>1, <3>2 DEF SequenceMatch
  <2>6. CASE p.done + 1 # N
    <3>1. PICK a : /\ \E f \in live : Goes(f, b) /\ Renewed(a, b, s, f.next + 1, f.name)
                   /\ t.sequences = rest \cup {a} /\ t.fire = s.fire
      BY <2>3, <2>4, <2>6 DEF SequenceFed, OfPath
    <3>2. a.steps = b.steps /\ a.next = p.done + 1 /\ a.name = p.name /\ a.due = now + b.term
      BY <2>4, <3>1 DEF OfPath, Renewed
    <3>3. OfPath(a, b.steps, q) /\ IsPath(q) /\ q.done # N
      BY <1>1, <2>1, <2>6, <3>2 DEF OfPath, IsPath
    <3>4. a.due > now => OnPath(b.steps, q)
      BY <1>1, <1>5, <2>1, <2>6, <3>2 DEF OnPath
    <3>5. \A f \in Unexpired(t.sequences) : f.steps = b.steps => f = a /\ a.due > now
      BY <1>4, <3>1 DEF Unexpired
    <3> HIDE DEF live, rest
    <3> QED BY <3>1, <3>3, <3>4, <3>5 DEF SequenceMatch
  <2> QED BY <2>5, <2>6
<1>6. CASE ~(OnPath(b.steps, p) /\ KeysDown(b.steps[p.done + 1], active'))
  <2>1. \A f \in live : ~Goes(f, b)
    BY <1>2, <1>6 DEF Goes, OfPath
  <2>2. CASE KeysDown(b.steps[1], active')
    <3>1. q = [done |-> 1, name |-> b.name, until |-> now + b.term]
      BY <1>6, <2>2 DEF Onward
    <3>2. PICK a : /\ Renewed(a, b, s, 1, b.name)
                   /\ t.sequences = rest \cup {a} /\ t.fire = s.fire
      BY <2>1, <2>2 DEF SequenceFed
    <3>a. q.done = 1 /\ q.name = b.name /\ q.until = now + b.term
      BY <3>1
    <3>b. q.done # N
      BY <1>0, <3>a
    <3>3. OfPath(a, b.steps, q) /\ IsPath(q)
      <4>1. OfPath(a, b.steps, q)
        BY <3>2, <3>a DEF OfPath, Renewed
      <4>2. now + b.term \in Nat
        BY <1>1
      <4> QED BY <1>1, <3>1, <3>a, <4>1, <4>2 DEF IsPath
    <3>4. a.due > now => OnPath(b.steps, q)
      BY <1>1, <3>1, <3>2 DEF OnPath, Renewed
    <3>5. \A f \in Unexpired(t.sequences) : f.steps = b.steps => f = a /\ a.due > now
      BY <1>4, <3>2 DEF Unexpired
    <3> HIDE DEF live, rest
    <3> QED BY <3>2, <3>3, <3>4, <3>5, <3>b DEF SequenceMatch
  <2>3. CASE ~KeysDown(b.steps[1], active')
    <3>1. q = NoPath
      BY <1>6, <2>3 DEF Onward
    <3>2. t.sequences = rest /\ t.fire = s.fire
      BY <2>1, <2>3 DEF SequenceFed
    <3>a. q = [done |-> 0, name |-> "none", until |-> 0]
      BY <3>1 DEF NoPath
    <3>b. q.done = 0 /\ q.done # N
      BY <1>0, <3>a
    <3>3. ~OnPath(b.steps, q) /\ IsPath(q) /\ q.done # N
      <4>2. IsPath(q)
        BY <3>a DEF IsPath
      <4> QED BY <3>b, <4>2 DEF OnPath
    <3> HIDE DEF live, rest
    <3> QED BY <1>4, <3>2, <3>3 DEF SequenceMatch
  <2> QED BY <2>2, <2>3
<1> QED BY <1>5, <1>6

(* The attempts for other steps stay on their paths.                          *)
LEMMA SequenceFedKeepsOthers ==
    ASSUME now \in Nat, NEW s, ScanInv(s), NEW b, NEW t, SequenceFed(s, b, t),
           NEW steps, steps # b.steps, NEW p, SequenceMatch(s.sequences, steps, p)
    PROVE  SequenceMatch(t.sequences, steps, p)
<1> DEFINE live == Unexpired(s.sequences)
           rest == {e \in live : e.steps # b.steps}
<1>1. \A e \in t.sequences : e.steps = steps => e \in live
  BY DEF SequenceFed, Renewed
<1>2. \A e \in live : e.steps = steps => e \in t.sequences
  BY DEF SequenceFed
<1>3. live = {e \in s.sequences : e.due > now}
  BY DEF Unexpired
<1>4. s.sequences \subseteq PendingSequence /\ p.until \in Nat
  BY DEF ScanInv, ScanState, SequenceMatch, IsPath
<1> HIDE DEF live
<1>5. \A e \in Unexpired(t.sequences) : e.steps = steps => e \in Unexpired(s.sequences)
  BY <1>1 DEF Unexpired, live
<1>6. ASSUME OnPath(steps, p) PROVE \E e \in t.sequences : OfPath(e, steps, p)
  <2>1. PICK e \in s.sequences : OfPath(e, steps, p)
    BY <1>6 DEF SequenceMatch
  <2>2. e \in live /\ e.steps = steps
    BY <1>3, <1>4, <1>6, <2>1 DEF OfPath, OnPath
  <2> QED BY <1>2, <2>1, <2>2
<1> QED BY <1>5, <1>6 DEF SequenceMatch

-----------------------------------------------------------------------------
(* What a chord's feed makes of the table, of what fires and of the timers.   *)
More(e, m, vk) ==
    /\ m.keys = e.keys /\ m.seen = e.seen \cup {vk} /\ m.name = e.name
    /\ m.due = e.due /\ m.seq = e.seq

ChordFed(s, b, vk, t) ==
    LET live == Unexpired(s.chords)
        rest == {e \in live : e.keys # b.keys}
    IN  /\ t.sequences = s.sequences /\ t.seq = s.seq
        /\ \/ /\ \A e \in live : e.keys # b.keys
              /\ \E a : /\ a.keys = b.keys /\ a.seen = {vk} /\ a.name = b.name
                        /\ a.due = now + b.term /\ a.seq = s.seq
                        /\ t.chords = rest \cup {a} /\ t.fire = s.fire
                        /\ t.timers = s.timers \cup {TimerOf("chord", a)}
           \/ \E e \in live :
                 /\ e.keys = b.keys /\ AllSeen(b.keys, e.seen \cup {vk})
                 /\ t.fire = Append(s.fire, e.name)
                 /\ t.chords = rest /\ t.timers = s.timers
           \/ \E e \in live : \E m :
                 /\ e.keys = b.keys /\ ~AllSeen(b.keys, e.seen \cup {vk}) /\ More(e, m, vk)
                 /\ t.chords = rest \cup {m} /\ t.fire = s.fire /\ t.timers = s.timers

(* That is what a feed of a chord is.                                         *)
LEMMA ChordFeeds ==
    ASSUME NEW s, ScanInv(s), NEW b \in ChordBinding, NEW vk, vk \in UNION b.keys,
           NEW t, t = FeedChord(s, b, vk)
    PROVE  ChordFed(s, b, vk, t)
<1> DEFINE live  == Unexpired(s.chords)
           rest  == {e \in live : e.keys # b.keys}
           entry == CHOOSE e \in live : e.keys = b.keys
           more  == [entry EXCEPT !.seen = @ \cup {vk}]
           fresh == [keys |-> b.keys, seen |-> {vk}, name |-> b.name,
                     due |-> now + b.term, seq |-> s.seq]
<1>1. s \in ScanState /\ TablesWhole(s)
  BY DEF ScanInv
<1>2. live \subseteq s.chords
  BY DEF Unexpired
<1>3. CASE \A e \in live : e.keys # b.keys
  <2>1. t = Ask([s EXCEPT !.chords = live \cup {fresh}], "chord", fresh.due)
    BY <1>3 DEF FeedChord
  <2>2. /\ fresh.keys = b.keys /\ fresh.seen = {vk} /\ fresh.name = b.name
        /\ fresh.due = now + b.term /\ fresh.seq = s.seq
    OBVIOUS
  <2>3. rest = live
    BY <1>3
  <2> HIDE DEF fresh, live, rest
  <2>4. /\ t.chords = live \cup {fresh} /\ t.sequences = s.sequences /\ t.seq = s.seq
        /\ t.fire = s.fire /\ t.timers = s.timers \cup {TimerOf("chord", fresh)}
    BY <1>1, <2>1, <2>2 DEF Ask, ScanState, TimerOf
  <2> QED BY <1>3, <2>2, <2>3, <2>4 DEF ChordFed, live, rest
<1>4. CASE ~(\A e \in live : e.keys # b.keys)
  <2>1. entry \in live /\ entry.keys = b.keys
    <3>1. \E e \in live : e.keys = b.keys
      BY <1>4
    <3> HIDE DEF live
    <3> QED BY <3>1
  <2>2. entry \in PendingChord /\ rest = live \ {entry}
    <3>1. \A e \in live : e.keys = b.keys => e = entry
      <4> HIDE DEF entry, live
      <4> QED BY <1>1, <1>2, <2>1 DEF TablesWhole
    <3>2. entry \in PendingChord
      <4> HIDE DEF entry, live
      <4> QED BY <1>1, <1>2, <2>1 DEF ScanState
    <3> HIDE DEF entry, live
    <3> QED BY <2>1, <3>1, <3>2
  <2>3. More(entry, more, vk) /\ more.seen = entry.seen \cup {vk}
    <3> HIDE DEF entry
    <3> QED BY <2>2 DEF PendingChord, More
  <2>4. CASE AllSeen(b.keys, more.seen)
    <3>1. t = Complete([s EXCEPT !.chords = live \ {entry}], entry.name, more.seen)
      BY <1>4, <2>4 DEF FeedChord
    <3> HIDE DEF entry, live, more, rest
    <3>2. /\ t.chords = rest /\ t.sequences = s.sequences /\ t.seq = s.seq
          /\ t.fire = Append(s.fire, entry.name) /\ t.timers = s.timers
      BY <1>1, <2>2, <3>1 DEF Complete, ScanState
    <3> QED BY <2>1, <2>3, <2>4, <3>2 DEF ChordFed, live, rest
  <2>5. CASE ~AllSeen(b.keys, more.seen)
    <3>1. t = [s EXCEPT !.chords = (live \ {entry}) \cup {more}, !.swallow = TRUE]
      BY <1>4, <2>5 DEF FeedChord
    <3> HIDE DEF entry, live, more, rest
    <3>2. /\ t.chords = rest \cup {more} /\ t.sequences = s.sequences /\ t.seq = s.seq
          /\ t.fire = s.fire /\ t.timers = s.timers
      BY <1>1, <2>2, <3>1 DEF ScanState
    <3> QED BY <2>1, <2>3, <2>5, <3>2 DEF ChordFed, live, rest
  <2> QED BY <2>4, <2>5
<1> QED BY <1>3, <1>4

(* The attempts for a set of keys that have not expired, and what they become *)
(* and fire at a key-down of now that is for the chord.                       *)
Attempt(e) == [seen |-> e.seen, due |-> e.due, name |-> e.name]

AttemptsIn(entries, keys) == {Attempt(e) : e \in {e \in Unexpired(entries) : e.keys = keys}}

Still(b, attempts, vk) ==
    IF attempts = {}
    THEN {a \in {[seen |-> {vk}, due |-> now + b.term, name |-> b.name]} : a.due > now}
    ELSE {[seen |-> a.seen \cup {vk}, due |-> a.due, name |-> a.name] : a \in
             {a \in attempts : ~AllSeen(b.keys, a.seen \cup {vk})}}

Finished(b, attempts, vk) ==
    {a.name : a \in {a \in attempts : AllSeen(b.keys, a.seen \cup {vk})}}

Adds(s, t, names) ==
    \/ names = {} /\ t.fire = s.fire
    \/ \E name : names = {name} /\ t.fire = Append(s.fire, name)

(* A feed adds the key-down to the attempt for its keys, or opens one, and    *)
(* fires with the last key.                                                   *)
LEMMA ChordFedMatches ==
    ASSUME NEW s, ScanInv(s), NEW b \in ChordBinding, NEW vk, NEW t, ChordFed(s, b, vk, t),
           NEW A, A = AttemptsIn(s.chords, b.keys)
    PROVE  /\ AttemptsIn(t.chords, b.keys) = Still(b, A, vk)
           /\ Adds(s, t, Finished(b, A, vk))
<1> DEFINE live  == Unexpired(s.chords)
           rest  == {e \in live : e.keys # b.keys}
<1>1. \A e, f \in live : e.keys = f.keys => e = f
  BY DEF Unexpired, ScanInv, TablesWhole
<1>2. A = {Attempt(e) : e \in {e \in live : e.keys = b.keys}}
  BY DEF AttemptsIn
<1>3. ASSUME NEW a, t.chords = rest \cup {a}, a.keys = b.keys
      PROVE  AttemptsIn(t.chords, b.keys) = {Attempt(e) : e \in {e \in {a} : e.due > now}}
  BY <1>3 DEF AttemptsIn, Unexpired
<1>4. t.chords = rest => AttemptsIn(t.chords, b.keys) = {}
  BY DEF AttemptsIn, Unexpired
<1> HIDE DEF live, rest
<1>5. CASE \A e \in live : e.keys # b.keys
  <2>1. A = {}
    BY <1>2, <1>5
  <2>2. PICK a : /\ a.keys = b.keys /\ a.seen = {vk} /\ a.name = b.name
                 /\ a.due = now + b.term /\ t.chords = rest \cup {a} /\ t.fire = s.fire
    BY <1>5 DEF ChordFed, live, rest
  <2>3. AttemptsIn(t.chords, b.keys) = {Attempt(e) : e \in {e \in {a} : e.due > now}}
    BY <1>3, <2>2
  <2>4. Still(b, A, vk) = {c \in {Attempt(a)} : c.due > now}
    BY <2>1, <2>2 DEF Still, Attempt
  <2>5. Attempt(a).due = a.due
    BY DEF Attempt
  <2>6. Finished(b, A, vk) = {}
    BY <2>1 DEF Finished
  <2> QED BY <2>2, <2>3, <2>4, <2>5, <2>6 DEF Adds
<1>6. ASSUME NEW e \in live, e.keys = b.keys
      PROVE  /\ A = {Attempt(e)}
             /\ AllSeen(b.keys, e.seen \cup {vk}) =>
                   Still(b, A, vk) = {} /\ Finished(b, A, vk) = {e.name}
             /\ ~AllSeen(b.keys, e.seen \cup {vk}) =>
                   /\ Still(b, A, vk) = {[seen |-> e.seen \cup {vk}, due |-> e.due,
                                          name |-> e.name]}
                   /\ Finished(b, A, vk) = {}
  <2>1. A = {Attempt(e)}
    BY <1>1, <1>2, <1>6
  <2>2. Attempt(e).seen = e.seen /\ Attempt(e).due = e.due /\ Attempt(e).name = e.name
    BY DEF Attempt
  <2>3. A # {}
    BY <2>1
  <2>4. AllSeen(b.keys, e.seen \cup {vk}) =>
                   Still(b, A, vk) = {} /\ Finished(b, A, vk) = {e.name}
    BY <2>1, <2>2, <2>3 DEF Still, Finished
  <2>5. ~AllSeen(b.keys, e.seen \cup {vk}) =>
                   /\ Still(b, A, vk) = {[seen |-> e.seen \cup {vk}, due |-> e.due,
                                          name |-> e.name]}
                   /\ Finished(b, A, vk) = {}
    BY <2>1, <2>2, <2>3 DEF Still, Finished
  <2> QED BY <2>1, <2>4, <2>5
<1>7. CASE \E e \in live : /\ e.keys = b.keys /\ AllSeen(b.keys, e.seen \cup {vk})
                           /\ t.fire = Append(s.fire, e.name) /\ t.chords = rest
  BY <1>4, <1>6, <1>7 DEF Adds
<1>8. CASE \E e \in live : \E m :
              /\ e.keys = b.keys /\ ~AllSeen(b.keys, e.seen \cup {vk}) /\ More(e, m, vk)
              /\ t.chords = rest \cup {m} /\ t.fire = s.fire
  <2>a. PICK e \in live : \E m :
              /\ e.keys = b.keys /\ ~AllSeen(b.keys, e.seen \cup {vk}) /\ More(e, m, vk)
              /\ t.chords = rest \cup {m} /\ t.fire = s.fire
    BY <1>8
  <2>1. PICK m : /\ e.keys = b.keys /\ ~AllSeen(b.keys, e.seen \cup {vk}) /\ More(e, m, vk)
                 /\ t.chords = rest \cup {m} /\ t.fire = s.fire
    BY <2>a
  <2>2. AttemptsIn(t.chords, b.keys) = {Attempt(f) : f \in {f \in {m} : f.due > now}}
    BY <1>3, <2>1 DEF More
  <2>3. m.due > now
    BY <2>1 DEF More, live, Unexpired
  <2>4. Attempt(m) = [seen |-> e.seen \cup {vk}, due |-> e.due, name |-> e.name]
    BY <2>1 DEF Attempt, More
  <2>5. AttemptsIn(t.chords, b.keys) = {Attempt(m)}
    BY <2>2, <2>3
  <2> QED BY <1>6, <2>1, <2>4, <2>5 DEF Adds
<1> QED BY <1>5, <1>7, <1>8 DEF ChordFed, live, rest

(* It leaves the attempts for other keys alone.                               *)
LEMMA ChordFedKeepsOthers ==
    ASSUME NEW s, NEW b, NEW vk, NEW t, ChordFed(s, b, vk, t), NEW keys, keys # b.keys
    PROVE  AttemptsIn(t.chords, keys) = AttemptsIn(s.chords, keys)
<1>1. {e \in Unexpired(t.chords) : e.keys = keys} = {e \in Unexpired(s.chords) : e.keys = keys}
  BY DEF ChordFed, Unexpired, More
<1> QED BY <1>1 DEF AttemptsIn

-----------------------------------------------------------------------------
(* A key-down opens an attempt where no earlier one is still open.            *)
Opening(keys, i) ==
    /\ For("chord", keys, i) # {}
    /\ \A r \in 1 .. i - 1 :
          \/ r \notin Opens(keys)
          \/ log[i].at >= log[r].at + BindingOf("chord", keys, r).term
          \/ Covered(keys, r, i - 1)

OpensRule ==
    \A keys : /\ Opens(keys) \subseteq 1 .. Len(log)
              /\ \A i \in 1 .. Len(log) : i \in Opens(keys) <=> Opening(keys, i)

(* The openings of the log are those, each by the ones before it.             *)
LEMMA OpensByRule == Len(log) \in Nat => OpensRule
<1> SUFFICES ASSUME Len(log) \in Nat, NEW keys
             PROVE  /\ Opens(keys) \subseteq 1 .. Len(log)
                    /\ \A i \in 1 .. Len(log) :
                          i \in Opens(keys) <=> Opening(keys, i)
  BY DEF OpensRule
<1> DEFINE n == Len(log)
    Rule(h, m) == h = [i \in 1 .. m |-> OpensAt(keys, h, i)]
    Reached == {m \in 0 .. n : \E h : Rule(h, m)}
<1>a. Len(log) = n /\ n \in Nat
  OBVIOUS
<1> HIDE DEF n
<1>b. ASSUME NEW g, NEW h, NEW i, \A r \in 1 .. i - 1 : h[r] = g[r]
      PROVE  OpensAt(keys, h, i) = OpensAt(keys, g, i)
  <2>1. OpensAt(keys, h, i) <=> OpensAt(keys, g, i)
    BY <1>b DEF OpensAt
  <2>2. OpensAt(keys, h, i) \in BOOLEAN /\ OpensAt(keys, g, i) \in BOOLEAN
    BY DEF OpensAt
  <2> QED BY <2>1, <2>2
<1>1. 0 \in Reached
  <2> DEFINE h == [i \in 1 .. 0 |-> TRUE]
  <2>1. Rule(h, 0)
    OBVIOUS
  <2> HIDE DEF Rule, h
  <2> QED BY <1>a, <2>1
<1>2. ASSUME NEW m \in 1 .. n, m - 1 \in Reached PROVE m \in Reached
  <2>1. PICK g : Rule(g, m - 1)
    BY <1>2
  <2> DEFINE h == [i \in 1 .. m |-> IF i = m THEN OpensAt(keys, g, m) ELSE g[i]]
  <2>2. \A i \in 1 .. m - 1 : h[i] = g[i]
    BY <1>a
  <2>3. \A i \in 1 .. m - 1 : g[i] = OpensAt(keys, g, i)
    BY <2>1
  <2>4. h[m] = OpensAt(keys, g, m)
    BY <1>a
  <2>5. h = [i \in 1 .. m |-> h[i]]
    OBVIOUS
  <2> HIDE DEF h
  <2>6. ASSUME NEW i \in 1 .. m PROVE h[i] = OpensAt(keys, h, i)
    <3>1. \A r \in 1 .. i - 1 : h[r] = g[r]
      BY <1>a, <2>2
    <3>2. OpensAt(keys, h, i) = OpensAt(keys, g, i)
      BY <1>b, <3>1
    <3>3. h[i] = OpensAt(keys, g, i)
      <4>1. CASE i = m
        BY <2>4, <4>1
      <4>2. CASE i # m
        <5>1. i \in 1 .. m - 1
          BY <1>a, <4>2
        <5> QED BY <2>2, <2>3, <5>1
      <4> QED BY <4>1, <4>2
    <3> QED BY <3>2, <3>3
  <2>7. Rule(h, m)
    BY <2>5, <2>6
  <2> HIDE DEF Rule
  <2> QED BY <1>a, <2>7
<1>3. n \in Reached
  <2> HIDE DEF Reached
  <2>1. \A i \in 0 .. n : i \in Reached
    BY <1>1, <1>2, <1>a, StepByStep
  <2> QED BY <1>a, <2>1
<1> DEFINE c == CHOOSE h : Rule(h, n)
<1>4. Rule(c, n)
  <2>1. \E h : Rule(h, n)
    BY <1>3
  <2> HIDE DEF Rule
  <2> QED BY <2>1
<1>5. Opens(keys) = {i \in 1 .. n : c[i]}
  <2> USE <1>a
  <2> QED BY Zenon DEF Opens
<1>6. \A i \in 1 .. n : c[i] = OpensAt(keys, c, i)
  <2> HIDE DEF c
  <2> QED BY <1>4, <1>a
<1> HIDE DEF c
<1>7. Opens(keys) \subseteq 1 .. n
  BY <1>5
<1>8. ASSUME NEW i \in 1 .. n
      PROVE  i \in Opens(keys) <=> Opening(keys, i)
  <2>1. \A r \in 1 .. i - 1 : r \in Opens(keys) <=> c[r]
    <3>1. \A r \in 1 .. i - 1 : r \in 1 .. n
      BY <1>a
    <3> QED BY <1>5, <3>1
  <2>2. OpensAt(keys, c, i) <=> Opening(keys, i)
    BY <2>1 DEF OpensAt, Opening
  <2> QED BY <1>5, <1>6, <2>2
<1> QED BY <1>7, <1>8, <1>a

(* The attempts that the log says are running: opened, not yet whole, and not *)
(* expired.                                                                   *)
Seen(keys, r) == {log[i].vk : i \in {i \in r .. Len(log) : For("chord", keys, i) # {}}}

Ends(keys, r) == log[r].at + BindingOf("chord", keys, r).term

AttemptAt(keys, r) ==
    [seen |-> Seen(keys, r), due |-> Ends(keys, r), name |-> BindingOf("chord", keys, r).name]

Open(keys) ==
    {r \in Opens(keys) : ~Covered(keys, r, Len(log)) /\ Ends(keys, r) > now}

Running(keys) == {AttemptAt(keys, r) : r \in Open(keys)}

SeenRule == \A keys, r : Covered(keys, r, Len(log)) <=> AllSeen(keys, Seen(keys, r))

(* The log covers the keys when the key-downs seen cover them.                *)
LEMMA CoveredIsSeen == SeenRule
  BY DEF SeenRule, Covered, AllSeen, Seen

OpeningMeans ==
    \A keys, i : Opening(keys, i) <=>
        /\ For("chord", keys, i) # {}
        /\ \A r \in 1 .. i - 1 : \/ r \notin Opens(keys) \/ log[i].at >= Ends(keys, r)
                                 \/ Covered(keys, r, i - 1)

(* An opening, by the ends of those before it.                                *)
LEMMA OpeningByEnds == OpeningMeans
  BY DEF OpeningMeans, Opening, Ends

(* What the log says of its first n key-downs is not changed by another one.  *)
Longer(n) ==
    /\ n \in Nat /\ Len(log) = n /\ Len(log') \in n .. n + 1
    /\ \A i \in 1 .. n : log'[i] = log[i]
    /\ file' = file /\ generation' = generation

(* A longer log says the same of its past.                                    *)
LEMMA PastStays ==
    ASSUME NEW n, Longer(n), NEW keys
    PROVE  /\ \A i \in 1 .. n :
                 /\ For("chord", keys, i)' = For("chord", keys, i)
                 /\ BindingOf("chord", keys, i)' = BindingOf("chord", keys, i)
                 /\ Ends(keys, i)' = Ends(keys, i)
           /\ \A r \in 1 .. n : \A to \in 0 .. n :
                 Covered(keys, r, to)' <=> Covered(keys, r, to)
           /\ \A r \in 1 .. n : r \in Opens(keys)' <=> r \in Opens(keys)
           /\ Opens(keys) \subseteq 1 .. n
           /\ Opens(keys)' \subseteq 1 .. Len(log')
           /\ \A i \in 1 .. Len(log') : i \in Opens(keys)' <=> Opening(keys, i)'
<1>1. ASSUME NEW i \in 1 .. n
      PROVE  /\ log'[i] = log[i]
             /\ For("chord", keys, i)' = For("chord", keys, i)
             /\ BindingOf("chord", keys, i)' = BindingOf("chord", keys, i)
             /\ Ends(keys, i)' = Ends(keys, i)
  <2>1. log'[i] = log[i] /\ file' = file /\ generation' = generation
    BY DEF Longer
  <2>2. For("chord", keys, i)' = For("chord", keys, i)
    BY <2>1 DEF For
  <2>3. BindingOf("chord", keys, i)' = BindingOf("chord", keys, i)
    BY <2>1, <2>2 DEF BindingOf
  <2> QED BY <2>1, <2>2, <2>3 DEF Ends
<1>2. ASSUME NEW r \in 1 .. n, NEW to \in 0 .. n
      PROVE  Covered(keys, r, to)' <=> Covered(keys, r, to)
  <2>1. \A i \in r .. to : i \in 1 .. n
    BY DEF Longer
  <2> QED BY <1>1, <2>1 DEF Covered
<1>3. /\ Opens(keys) \subseteq 1 .. n
      /\ \A i \in 1 .. n : i \in Opens(keys) <=> Opening(keys, i)
  BY OpensByRule DEF OpensRule, Longer
<1>4. /\ Opens(keys)' \subseteq 1 .. Len(log')
      /\ \A i \in 1 .. Len(log') : i \in Opens(keys)' <=> Opening(keys, i)'
  <2>1. (Len(log) \in Nat => OpensRule)'
    BY OpensByRule, PTL
  <2>2. Len(log') \in Nat
    BY DEF Longer
  <2> QED BY <2>1, <2>2 DEF OpensRule
<1> DEFINE Same == {m \in 0 .. n : \A i \in 1 .. m : i \in Opens(keys)' <=> i \in Opens(keys)}
<1>a. n \in Nat
  BY DEF Longer
<1>5. 0 \in Same
  BY <1>a
<1>6. ASSUME NEW m \in 1 .. n, m - 1 \in Same PROVE m \in Same
  <2>1. \A i \in 1 .. m - 1 : i \in Opens(keys)' <=> i \in Opens(keys)
    BY <1>6
  <2>2. \A r \in 1 .. m - 1 : r \in 1 .. n /\ m - 1 \in 0 .. n
    BY <1>a
  <2>3. m \in 1 .. Len(log')
    BY <1>a DEF Longer
  <2>4. Opening(keys, m)' <=> Opening(keys, m)
    <3>1. ASSUME NEW r \in 1 .. m - 1
          PROVE  /\ r \in Opens(keys)' <=> r \in Opens(keys)
                 /\ log'[r] = log[r]
                 /\ BindingOf("chord", keys, r)' = BindingOf("chord", keys, r)
                 /\ Covered(keys, r, m - 1)' <=> Covered(keys, r, m - 1)
      BY <1>1, <1>2, <2>1, <2>2
    <3>2. For("chord", keys, m)' = For("chord", keys, m) /\ log'[m] = log[m]
      BY <1>1
    <3> QED BY <3>1, <3>2 DEF Opening
  <2>5. m \in Opens(keys)' <=> m \in Opens(keys)
    BY <1>3, <1>4, <2>3, <2>4
  <2>6. \A i \in 1 .. m : i = m \/ i \in 1 .. m - 1
    BY <1>a
  <2>7. m \in 0 .. n
    BY <1>a
  <2> QED BY <2>1, <2>5, <2>6, <2>7
<1>7. \A i \in 1 .. n : i \in Opens(keys)' <=> i \in Opens(keys)
  <2> HIDE DEF Same
  <2>1. \A i \in 0 .. n : i \in Same
    BY <1>5, <1>6, <1>a, StepByStep
  <2>2. n \in Same
    BY <1>a, <2>1
  <2> QED BY <2>2 DEF Same
<1> QED BY <1>1, <1>2, <1>3, <1>4, <1>7

(* Without another key-down the running attempts stay, until they expire.     *)
LEMMA RunningStays ==
    ASSUME NEW n, Longer(n), Len(log') = n, now \in Nat, now' \in Nat, now <= now', NEW keys,
           \A r \in Opens(keys) : Ends(keys, r) \in Nat
    PROVE  Running(keys)' = {a \in Running(keys) : a.due > now'}
<1>a. n \in Nat /\ Len(log) = n
  BY DEF Longer
<1>1. \A r \in Opens(keys) :
         r \in 1 .. n /\ AttemptAt(keys, r)' = AttemptAt(keys, r)
  <2> TAKE r \in Opens(keys)
  <2>1. r \in 1 .. n
    BY PastStays
  <2>2. Seen(keys, r)' = Seen(keys, r)
    <3>1. {i \in r .. Len(log') : For("chord", keys, i)' # {}}
             = {i \in r .. Len(log) : For("chord", keys, i) # {}}
      <4>1. \A i \in r .. n : i \in 1 .. n
        BY <1>a, <2>1
      <4> QED BY <1>a, <4>1, PastStays
    <3>2. \A i \in {i \in r .. Len(log) : For("chord", keys, i) # {}} : log'[i] = log[i]
      BY <1>a, <2>1 DEF Longer
    <3> QED BY <3>1, <3>2 DEF Seen
  <2> QED BY <2>1, <2>2, PastStays DEF AttemptAt
<1>2. Opens(keys)' = Opens(keys)
  BY <1>a, PastStays
<1>3. \A r \in Opens(keys) :
         (Covered(keys, r, Len(log))' <=> Covered(keys, r, Len(log)))
         /\ Ends(keys, r)' = Ends(keys, r) /\ Ends(keys, r) \in Nat
  <2> TAKE r \in Opens(keys)
  <2>1. r \in 1 .. n /\ n \in 0 .. n
    BY <1>1, <1>a
  <2>2. Covered(keys, r, n)' <=> Covered(keys, r, n)
    BY <2>1, PastStays
  <2>3. Covered(keys, r, Len(log))' <=> Covered(keys, r, n)'
    BY <1>a DEF Covered
  <2> QED BY <1>a, <2>1, <2>2, <2>3, PastStays
<1>4. Open(keys)' = {r \in Open(keys) : Ends(keys, r) > now'}
  BY <1>2, <1>3 DEF Open
<1>5. \A r \in Open(keys) : AttemptAt(keys, r).due = Ends(keys, r) /\ r \in Opens(keys)
  BY DEF AttemptAt, Open
<1>6. Running(keys)' = {AttemptAt(keys, r) : r \in Open(keys)'}
  <2>1. Running(keys)' = {AttemptAt(keys, r)' : r \in Open(keys)'}
    BY DEF Running
  <2> QED BY <1>1, <1>4, <1>5, <2>1
<1> QED BY <1>4, <1>5, <1>6 DEF Running

(* The attempts that the key-down after the first `n` completes.              *)
ClosedBy(keys, n) ==
    {r \in 1 .. n : /\ r \in Opens(keys) /\ log[n + 1].at < Ends(keys, r)
                    /\ Covered(keys, r, n + 1) /\ ~Covered(keys, r, n)}

(* When the latest key-down opens an attempt.                                 *)
LEMMA NextOpening ==
    ASSUME NEW n \in Nat, NEW keys
    PROVE  Opening(keys, n + 1)' <=>
              /\ For("chord", keys, n + 1)' # {}
              /\ \A r \in 1 .. n + 1 - 1 : \/ r \notin Opens(keys)'
                                          \/ log'[n + 1].at >= Ends(keys, r)'
                                          \/ Covered(keys, r, n + 1 - 1)'
<1>1. OpeningMeans'
  BY OpeningByEnds, PTL
<1>2. \A i : Opening(keys, i)' <=>
        /\ For("chord", keys, i)' # {}
        /\ \A r \in 1 .. i - 1 : \/ r \notin Opens(keys)' \/ log'[i].at >= Ends(keys, r)'
                                 \/ Covered(keys, r, i - 1)'
  BY <1>1 DEF OpeningMeans
<1> QED BY <1>2

(* And another key-down does to the running attempts what it does to the      *)
(* table: it is the one that a feed sees.                                     *)
LEMMA RunningGrows ==
    ASSUME NEW n, Longer(n), Len(log') = n + 1, now \in Nat, now' = now,
           NEW vk, log'[n + 1].vk = vk, log'[n + 1].at = now, NEW keys,
           \A r \in Opens(keys) : Ends(keys, r) \in Nat,
           NEW b, b = BindingOf("chord", keys, n + 1)', NEW A, A = Running(keys)
    PROVE  /\ For("chord", keys, n + 1)' = {} => Running(keys)' = A /\ ClosedBy(keys, n)' = {}
           /\ /\ For("chord", keys, n + 1)' # {} /\ b.keys = keys /\ b.term \in Nat
              /\ \E spec \in keys : vk \notin spec
              => /\ Running(keys)' = Still(b, A, vk)
                 /\ {AttemptAt(keys, r)'.name : r \in ClosedBy(keys, n)'} = Finished(b, A, vk)
<1> DEFINE fed == For("chord", keys, n + 1)' # {}
<1>a. n \in Nat /\ Len(log) = n
  BY DEF Longer
<1>1. /\ \A r \in 1 .. n : Covered(keys, r, n)' <=> AllSeen(keys, Seen(keys, r))
      /\ \A r \in 1 .. n + 1 : Covered(keys, r, n + 1)' <=> AllSeen(keys, Seen(keys, r)')
  <2>1. SeenRule'
    BY CoveredIsSeen, PTL
  <2>2. \A r : Covered(keys, r, Len(log))' <=> AllSeen(keys, Seen(keys, r)')
    BY <2>1 DEF SeenRule, AllSeen
  <2>3. \A r : Covered(keys, r, Len(log))' <=> Covered(keys, r, n + 1)'
    BY DEF Covered
  <2>4. \A r \in 1 .. n : Covered(keys, r, n)' <=> Covered(keys, r, n)
    <3>1. n \in 0 .. n
      BY <1>a
    <3>2. \A r \in 1 .. n : \A to \in 0 .. n : Covered(keys, r, to)' <=> Covered(keys, r, to)
      BY PastStays
    <3> QED BY <3>1, <3>2
  <2> QED BY <1>a, <2>2, <2>3, <2>4, CoveredIsSeen DEF SeenRule
<1>2. \A r \in 1 .. n + 1 :
         Seen(keys, r)' = (IF r \in 1 .. n THEN Seen(keys, r) ELSE {})
                             \cup (IF fed THEN {vk} ELSE {})
  <2> SUFFICES ASSUME NEW r \in 1 .. n + 1
               PROVE  \A c : c \in Seen(keys, r)' <=>
                         (r \in 1 .. n /\ c \in Seen(keys, r)) \/ (fed /\ c = vk)
    OBVIOUS
  <2> TAKE c
  <2>1. c \in Seen(keys, r)' <=>
           \E i \in r .. n + 1 : For("chord", keys, i)' # {} /\ c = log'[i].vk
    BY DEF Seen
  <2>2. c \in Seen(keys, r) <=> \E i \in r .. n : For("chord", keys, i) # {} /\ c = log[i].vk
    BY <1>a DEF Seen
  <2>3. \A i \in r .. n + 1 : i = n + 1 \/ (i \in r .. n /\ i \in 1 .. n)
    BY <1>a
  <2>4. \A i \in 1 .. n :
           For("chord", keys, i)' = For("chord", keys, i) /\ log'[i] = log[i]
    BY PastStays DEF Longer
  <2>5. /\ n + 1 \in r .. n + 1
        /\ \A i \in r .. n : i \in r .. n + 1 /\ i \in 1 .. n /\ r \in 1 .. n
    BY <1>a
  <2> HIDE DEF fed
  <2>6. ASSUME c \in Seen(keys, r)'
        PROVE  (r \in 1 .. n /\ c \in Seen(keys, r)) \/ (fed /\ c = vk)
    <3>1. PICK i \in r .. n + 1 : For("chord", keys, i)' # {} /\ c = log'[i].vk
      BY <2>1, <2>6
    <3>2. CASE i = n + 1
      BY <3>1, <3>2 DEF fed
    <3>3. CASE i \in r .. n /\ i \in 1 .. n
      BY <2>2, <2>4, <2>5, <3>1, <3>3
    <3> QED BY <2>3, <3>2, <3>3
  <2>7. ASSUME (r \in 1 .. n /\ c \in Seen(keys, r)) \/ (fed /\ c = vk)
        PROVE  c \in Seen(keys, r)'
    <3>1. CASE fed /\ c = vk
      BY <2>1, <2>5, <3>1 DEF fed
    <3>2. CASE c \in Seen(keys, r)
      <4>1. PICK i \in r .. n : For("chord", keys, i) # {} /\ c = log[i].vk
        BY <2>2, <3>2
      <4> QED BY <2>1, <2>4, <2>5, <4>1
    <3> QED BY <2>7, <3>1, <3>2
  <2> QED BY <2>6, <2>7
<1>3. \A r \in Open(keys) :
         r \in 1 .. n /\ r \in Opens(keys) /\ Ends(keys, r) > now /\ Ends(keys, r) \in Nat
         /\ ~AllSeen(keys, Seen(keys, r))
  <2> TAKE r \in Open(keys)
  <2>1. r \in Opens(keys) /\ ~Covered(keys, r, n) /\ Ends(keys, r) > now
    BY <1>a DEF Open
  <2>2. r \in 1 .. n
    BY <2>1, PastStays
  <2> QED BY <1>a, <2>1, <2>2, CoveredIsSeen DEF SeenRule
<1>4. \A r \in 1 .. n : r \in Open(keys) <=>
         r \in Opens(keys) /\ Ends(keys, r) > now /\ ~AllSeen(keys, Seen(keys, r))
  BY <1>a, CoveredIsSeen DEF Open, SeenRule
<1>5. \A r \in 1 .. n :
         r \in Open(keys)' <=> r \in Open(keys) /\ ~AllSeen(keys, Seen(keys, r)')
  <2> TAKE r \in 1 .. n
  <2>1. r \in Open(keys)' <=>
           r \in Opens(keys)' /\ ~Covered(keys, r, n + 1)' /\ Ends(keys, r)' > now
    <3>1. Covered(keys, r, Len(log))' <=> Covered(keys, r, n + 1)'
      BY DEF Covered
    <3> QED BY <3>1 DEF Open
  <2>2. (r \in Opens(keys)' <=> r \in Opens(keys)) /\ Ends(keys, r)' = Ends(keys, r)
    BY PastStays
  <2>3. AllSeen(keys, Seen(keys, r)) => AllSeen(keys, Seen(keys, r)')
    <3>1. Seen(keys, r) \subseteq Seen(keys, r)'
      BY <1>a, <1>2
    <3> QED BY <3>1 DEF AllSeen
  <2>4. r \in 1 .. n + 1
    BY <1>a
  <2> QED BY <1>1, <1>4, <2>1, <2>2, <2>3, <2>4
<1>6. n + 1 \in Opens(keys)' <=> fed /\ Open(keys) = {}
  <2>1. n + 1 \in Opens(keys)' <=> Opening(keys, n + 1)'
    BY <1>a, PastStays
  <2>2. Opening(keys, n + 1)' <=>
           fed /\ \A r \in 1 .. n : \/ r \notin Opens(keys)'
                                    \/ log'[n + 1].at >= Ends(keys, r)'
                                    \/ Covered(keys, r, n)'
    <3>1. n + 1 - 1 = n
      BY <1>a
    <3>2. \A r : Covered(keys, r, n + 1 - 1)' <=> Covered(keys, r, n)'
      BY <3>1 DEF Covered
    <3>3. Opening(keys, n + 1)' <=>
             fed /\ \A r \in 1 .. n + 1 - 1 : \/ r \notin Opens(keys)'
                                              \/ log'[n + 1].at >= Ends(keys, r)'
                                              \/ Covered(keys, r, n + 1 - 1)'
      BY <1>a, NextOpening
    <3> HIDE DEF fed
    <3> QED BY <3>1, <3>2, <3>3
  <2>3. \A r \in 1 .. n :
           (\/ r \notin Opens(keys)'
            \/ log'[n + 1].at >= Ends(keys, r)'
            \/ Covered(keys, r, n)') <=> r \notin Open(keys)
    <3> TAKE r \in 1 .. n
    <3>1. (r \in Opens(keys)' <=> r \in Opens(keys)) /\ Ends(keys, r)' = Ends(keys, r)
      BY PastStays
    <3>2. (r \in Opens(keys) => Ends(keys, r) \in Nat) /\ log'[n + 1].at = now
      OBVIOUS
    <3> QED BY <1>1, <1>4, <3>1, <3>2
  <2>4. (\A r \in 1 .. n : r \notin Open(keys)) <=> Open(keys) = {}
    BY <1>3
  <2> QED BY <2>1, <2>2, <2>3, <2>4
<1>7. \A r \in Open(keys)' : r \in 1 .. n \/ r = n + 1
  <2>1. Open(keys)' \subseteq Opens(keys)'
    BY DEF Open
  <2>2. Opens(keys)' \subseteq 1 .. n + 1
    BY PastStays
  <2> QED BY <1>a, <2>1, <2>2
<1>8. \A r \in 1 .. n :
         AttemptAt(keys, r)' = [seen |-> Seen(keys, r)', due |-> Ends(keys, r),
                                name |-> BindingOf("chord", keys, r).name]
  BY PastStays DEF AttemptAt
<1>9. \A r : /\ AttemptAt(keys, r).seen = Seen(keys, r)
             /\ AttemptAt(keys, r).due = Ends(keys, r)
             /\ AttemptAt(keys, r).name = BindingOf("chord", keys, r).name
             /\ AttemptAt(keys, r) = [seen |-> Seen(keys, r), due |-> Ends(keys, r),
                                      name |-> BindingOf("chord", keys, r).name]
  BY DEF AttemptAt
<1>10. \A r : r \in ClosedBy(keys, n)' <=>
          r \in Open(keys) /\ AllSeen(keys, Seen(keys, r)')
  <2> TAKE r
  <2>1. r \in ClosedBy(keys, n)' <=>
          /\ r \in 1 .. n /\ r \in Opens(keys)' /\ log'[n + 1].at < Ends(keys, r)'
          /\ Covered(keys, r, n + 1)' /\ ~Covered(keys, r, n)'
    BY DEF ClosedBy
  <2>2. r \in 1 .. n =>
           (r \in Opens(keys)' <=> r \in Opens(keys)) /\ Ends(keys, r)' = Ends(keys, r)
           /\ (r \in Opens(keys) => Ends(keys, r) \in Nat) /\ r \in 1 .. n + 1
    BY <1>a, PastStays
  <2> QED BY <1>1, <1>3, <1>4, <2>1, <2>2
<1>11. A = {AttemptAt(keys, r) : r \in Open(keys)}
  BY DEF Running
<1>12. Running(keys)' = {AttemptAt(keys, r)' : r \in Open(keys)'}
  BY DEF Running
<1>13. ASSUME ~fed PROVE Running(keys)' = A /\ ClosedBy(keys, n)' = {}
  <2>1. \A r \in 1 .. n : Seen(keys, r)' = Seen(keys, r)
    <3>1. \A r \in 1 .. n : r \in 1 .. n + 1
      BY <1>a
    <3>2. \A r \in 1 .. n : Seen(keys, r)' = Seen(keys, r) \cup {}
      BY <1>2, <1>13, <3>1
    <3> QED BY <3>2
  <2>2. \A r : r \in Open(keys)' <=> r \in Open(keys)
    <3>1. n + 1 \notin Open(keys)'
      BY <1>6, <1>13 DEF Open
    <3> QED BY <1>3, <1>5, <1>7, <2>1, <3>1
  <2>3. \A r \in Open(keys) : AttemptAt(keys, r)' = AttemptAt(keys, r)
    BY <1>3, <1>8, <1>9, <2>1
  <2>4. \A r : r \notin ClosedBy(keys, n)'
    BY <1>3, <1>10, <2>1
  <2>5. Open(keys)' = Open(keys)
    <3>1. \A X, Y : (\A r : r \in X <=> r \in Y) => X = Y
      OBVIOUS
    <3> QED BY <2>2, <3>1
  <2> QED BY <1>11, <1>12, <2>3, <2>4, <2>5
<1>14. ASSUME fed, b.keys = keys, b.term \in Nat, NEW spec \in keys, vk \notin spec
       PROVE  /\ Running(keys)' = Still(b, A, vk)
              /\ {AttemptAt(keys, r)'.name : r \in ClosedBy(keys, n)'} = Finished(b, A, vk)
  <2>1. \A r \in 1 .. n : Seen(keys, r)' = Seen(keys, r) \cup {vk}
    BY <1>a, <1>2, <1>14
  <2>2. \A r \in 1 .. n :
           AttemptAt(keys, r)' = [seen |-> AttemptAt(keys, r).seen \cup {vk},
                                  due |-> AttemptAt(keys, r).due,
                                  name |-> AttemptAt(keys, r).name]
    BY <1>8, <1>9, <2>1
  <2>3. CASE Open(keys) = {}
    <3>1. A = {}
      BY <1>11, <2>3
    <3>2. Finished(b, A, vk) = {} /\ ClosedBy(keys, n)' = {}
      BY <1>10, <2>3, <3>1 DEF Finished
    <3>3. AttemptAt(keys, n + 1)' = [seen |-> {vk}, due |-> now + b.term, name |-> b.name]
      <4>1. Seen(keys, n + 1)' = {vk}
        BY <1>a, <1>2, <1>14
      <4>2. Ends(keys, n + 1)' = now + b.term
        BY DEF Ends
      <4> QED BY <4>1, <4>2 DEF AttemptAt
    <3>4. ~AllSeen(keys, {vk})
      BY <1>14 DEF AllSeen
    <3>5. n + 1 \in Open(keys)' <=> now + b.term > now
      <4>1. n + 1 \in Open(keys)' <=>
              n + 1 \in Opens(keys)' /\ ~Covered(keys, n + 1, n + 1)'
              /\ Ends(keys, n + 1)' > now
        <5>1. Covered(keys, n + 1, Len(log))' <=> Covered(keys, n + 1, n + 1)'
          BY DEF Covered
        <5> QED BY <5>1 DEF Open
      <4>2. Seen(keys, n + 1)' = {vk} /\ n + 1 \in 1 .. n + 1
        BY <1>a, <1>2, <1>14
      <4>3. Ends(keys, n + 1)' = now + b.term
        BY DEF Ends
      <4> QED BY <1>1, <1>6, <1>14, <2>3, <3>4, <4>1, <4>2, <4>3
    <3>6. \A r : r \in Open(keys)' <=> r = n + 1 /\ now + b.term > now
      BY <1>5, <1>7, <2>3, <3>5
    <3>7. Running(keys)' = {c \in {AttemptAt(keys, n + 1)'} : c.due > now}
      BY <1>12, <3>3, <3>6
    <3>8. Still(b, A, vk) = {c \in {AttemptAt(keys, n + 1)'} : c.due > now}
      BY <3>1, <3>3 DEF Still
    <3> QED BY <3>2, <3>7, <3>8
  <2>4. CASE Open(keys) # {}
    <3>1. A # {}
      BY <1>11, <2>4
    <3>2. n + 1 \notin Open(keys)'
      BY <1>6, <2>4 DEF Open
    <3>3. \A r : r \in Open(keys)' <=>
             r \in Open(keys) /\ ~AllSeen(keys, AttemptAt(keys, r).seen \cup {vk})
      <4>1. \A r \in Open(keys) :
               Seen(keys, r)' = AttemptAt(keys, r).seen \cup {vk} /\ r \in 1 .. n
        BY <1>3, <1>9, <2>1
      <4>2. ASSUME NEW r PROVE r \in Open(keys)' <=>
               r \in Open(keys) /\ ~AllSeen(keys, Seen(keys, r)')
        <5>1. r \in Open(keys)' => r \in 1 .. n
          BY <1>7, <3>2
        <5>2. r \in Open(keys) => r \in 1 .. n
          BY <4>1
        <5> QED BY <1>5, <5>1, <5>2
      <4> QED BY <4>1, <4>2
    <3>4. Still(b, A, vk) =
            {[seen |-> c.seen \cup {vk}, due |-> c.due, name |-> c.name] : c \in
                {c \in A : ~AllSeen(keys, c.seen \cup {vk})}}
      BY <1>14, <3>1 DEF Still
    <3>5. Running(keys)' = Still(b, A, vk)
      <4>1. ASSUME NEW c \in Running(keys)' PROVE c \in Still(b, A, vk)
        <5>1. PICK r \in Open(keys)' : c = AttemptAt(keys, r)'
          BY <1>12, <4>1
        <5>2. r \in Open(keys) /\ ~AllSeen(keys, AttemptAt(keys, r).seen \cup {vk})
              /\ r \in 1 .. n
          BY <1>3, <3>3, <5>1
        <5> QED BY <1>11, <2>2, <3>4, <5>1, <5>2
      <4>2. ASSUME NEW c \in Still(b, A, vk) PROVE c \in Running(keys)'
        <5>1. PICK d \in A : /\ ~AllSeen(keys, d.seen \cup {vk})
                             /\ c = [seen |-> d.seen \cup {vk}, due |-> d.due,
                                     name |-> d.name]
          BY <3>4, <4>2
        <5>2. PICK r \in Open(keys) : d = AttemptAt(keys, r)
          BY <1>11, <5>1
        <5>3. r \in Open(keys)' /\ r \in 1 .. n
          BY <1>3, <3>3, <5>1, <5>2
        <5> QED BY <1>12, <2>2, <5>1, <5>2, <5>3
      <4> QED BY <4>1, <4>2
    <3>6. {AttemptAt(keys, r)'.name : r \in ClosedBy(keys, n)'} = Finished(b, A, vk)
      <4>1. \A r : r \in ClosedBy(keys, n)' <=>
               r \in Open(keys) /\ AllSeen(keys, AttemptAt(keys, r).seen \cup {vk})
        <5>1. \A r \in Open(keys) : Seen(keys, r)' = AttemptAt(keys, r).seen \cup {vk}
          BY <1>3, <1>9, <2>1
        <5> QED BY <1>10, <5>1
      <4>2. \A r \in Open(keys) : AttemptAt(keys, r)'.name = AttemptAt(keys, r).name
        BY <1>3, <2>2
      <4>3. Finished(b, A, vk) =
              {c.name : c \in {c \in A : AllSeen(keys, c.seen \cup {vk})}}
        BY <1>14 DEF Finished
      <4>4. ASSUME NEW r \in ClosedBy(keys, n)'
            PROVE  AttemptAt(keys, r)'.name \in Finished(b, A, vk)
        <5>1. r \in Open(keys) /\ AllSeen(keys, AttemptAt(keys, r).seen \cup {vk})
          BY <4>1
        <5>2. AttemptAt(keys, r) \in A
          BY <1>11, <5>1
        <5> QED BY <4>2, <4>3, <5>1, <5>2
      <4>5. ASSUME NEW c \in A, AllSeen(keys, c.seen \cup {vk})
            PROVE  \E r \in ClosedBy(keys, n)' : c.name = AttemptAt(keys, r)'.name
        <5>1. PICK r \in Open(keys) : c = AttemptAt(keys, r)
          BY <1>11
        <5> QED BY <4>1, <4>2, <4>5, <5>1
      <4>6. Finished(b, A, vk) \subseteq {AttemptAt(keys, r)'.name : r \in ClosedBy(keys, n)'}
        <5>1. ASSUME NEW x \in Finished(b, A, vk)
              PROVE  \E r \in ClosedBy(keys, n)' : x = AttemptAt(keys, r)'.name
          BY ONLY <4>3, <4>5, <5>1
        <5> QED BY ONLY <5>1
      <4>7. {AttemptAt(keys, r)'.name : r \in ClosedBy(keys, n)'} \subseteq Finished(b, A, vk)
        BY ONLY <4>4
      <4> QED BY ONLY <4>6, <4>7
    <3> QED BY <3>5, <3>6
  <2> QED BY <2>3, <2>4
<1>15. (\E spec \in keys : vk \notin spec) => \E spec \in keys : vk \notin spec
  OBVIOUS
<1>16. /\ fed /\ b.keys = keys /\ b.term \in Nat /\ \E spec \in keys : vk \notin spec
       => /\ Running(keys)' = Still(b, A, vk)
          /\ {AttemptAt(keys, r)'.name : r \in ClosedBy(keys, n)'} = Finished(b, A, vk)
  BY <1>14
<1> QED BY <1>13, <1>16

-----------------------------------------------------------------------------
(* No number is given twice: what waits, and its timer, have numbers given so *)
(* far, and a timer of this generation ends no attempt before its deadline.   *)
Numbers(s) ==
    /\ s.seq \in Nat
    /\ \A e \in s.chords \cup s.sequences : e.seq <= s.seq
    /\ \A t \in queue \cup s.timers : t.seq <= s.seq /\ t.generation <= generation
    /\ \A t \in queue \cup s.timers : t.generation = generation =>
          /\ t.slot = "chord" => \A e \in s.chords : e.seq = t.seq => e.due = t.due
          /\ t.slot = "sequence" => \A e \in s.sequences : e.seq = t.seq => e.due = t.due

(* A feed gives its number to one attempt and to its timer.                   *)
NewEntry(old, new, n) ==
    \A e \in new : \/ e.seq = n
                   \/ \E f \in old : e.seq = f.seq /\ e.due = f.due

(* The numbers stay right when what is new has the next one, and its timer    *)
(* with it.                                                                   *)
LEMMA FeedNumbers ==
    ASSUME NEW s, Numbers(s), generation \in Nat, NEW n, n = s.seq + 1,
           \A e \in s.chords \cup s.sequences : e.seq \in Nat,
           \A u \in queue \cup s.timers : u.seq \in Nat,
           NEW t, t.seq = n, NEW slot \in {"chord", "sequence"},
           slot = "chord" => /\ t.sequences = s.sequences
                             /\ NewEntry(s.chords, t.chords, n),
           slot = "sequence" => /\ t.chords = s.chords
                                /\ NewEntry(s.sequences, t.sequences, n),
           \/ /\ t.timers = s.timers
              /\ \A e \in t.chords \cup t.sequences : e.seq # n
           \/ \E a : /\ a.seq = n /\ t.timers = s.timers \cup {TimerOf(slot, a)}
                     /\ \A e \in (IF slot = "chord" THEN t.chords ELSE t.sequences) :
                           e.seq = n => e.due = a.due
    PROVE  Numbers(t)
<1>1. s.seq \in Nat /\ n \in Nat /\ n # s.seq /\ s.seq <= n
  BY DEF Numbers
<1>2. \A e \in t.chords \cup t.sequences : e.seq <= n
  BY <1>1 DEF Numbers, NewEntry
<1>3. ASSUME NEW u \in queue \cup s.timers
      PROVE  /\ u.seq <= n /\ u.generation <= generation
             /\ u.generation = generation =>
                   /\ u.slot = "chord" => \A e \in t.chords : e.seq = u.seq => e.due = u.due
                   /\ u.slot = "sequence" =>
                         \A e \in t.sequences : e.seq = u.seq => e.due = u.due
  <2>1. u.seq <= s.seq /\ u.seq \in Nat /\ u.seq # n
    BY <1>1 DEF Numbers
  <2>2. u.generation = generation /\ u.slot = "chord" =>
           \A e \in t.chords : e.seq = u.seq => e.due = u.due
    BY <2>1 DEF Numbers, NewEntry
  <2>3. u.generation = generation /\ u.slot = "sequence" =>
           \A e \in t.sequences : e.seq = u.seq => e.due = u.due
    BY <2>1 DEF Numbers, NewEntry
  <2> QED BY <1>1, <2>1, <2>2, <2>3 DEF Numbers
<1>4. ASSUME NEW a, a.seq = n, NEW u, u = TimerOf(slot, a),
             \A e \in (IF slot = "chord" THEN t.chords ELSE t.sequences) :
                e.seq = n => e.due = a.due
      PROVE  /\ u.seq <= n /\ u.generation <= generation
             /\ u.slot = "chord" => \A e \in t.chords : e.seq = u.seq => e.due = u.due
             /\ u.slot = "sequence" => \A e \in t.sequences : e.seq = u.seq => e.due = u.due
  BY <1>1, <1>4 DEF TimerOf
<1>5. \A u \in queue \cup t.timers :
         /\ u.seq <= n /\ u.generation <= generation
         /\ u.generation = generation =>
               /\ u.slot = "chord" => \A e \in t.chords : e.seq = u.seq => e.due = u.due
               /\ u.slot = "sequence" => \A e \in t.sequences : e.seq = u.seq => e.due = u.due
  BY <1>3, <1>4
<1> QED BY <1>1, <1>2, <1>5 DEF Numbers

(* The scan keeps it.                                                         *)
LEMMA BindingNumbers ==
    ASSUME file \in Files, now \in Nat, generation \in 0 .. MaxReset, queue \subseteq Timer,
           NEW s, ScanInv(s), Numbers(s),
           NEW i, Known(list[i]), NEW won, NEW vk \in Code, NEW holds,
           NEW repeat \in BOOLEAN,
           NEW t, t = ScanBinding(s, i, won, vk, holds, repeat)
    PROVE  Numbers(t)
<1> DEFINE b == list[i]
           n == [s EXCEPT !.seq = @ + 1]
<1>1. /\ s \in ScanState /\ generation \in Nat
      /\ \A e \in s.chords \cup s.sequences : e.seq \in Nat
      /\ \A u \in queue \cup s.timers : u.seq \in Nat
  <2>1. s \in ScanState /\ MaxReset \in Nat
    BY BindingsAssumption DEF ScanInv
  <2> QED BY <2>1 DEF ScanState, PendingChord, PendingSequence, Timer
<1>2. CASE b.kind = "combo"
  <2>1. t = ScanCombo(s, i, won, vk, holds, repeat)
    BY <1>2 DEF ScanBinding
  <2>2. t.chords = s.chords /\ t.sequences = s.sequences /\ t.seq = s.seq
        /\ t.timers = s.timers
    <3>1. b.blocker = "no" \/ b.blocker # "no"
      OBVIOUS
    <3> HIDE DEF b
    <3> QED BY <1>1, <2>1, <3>1 DEF ScanCombo, ScanState
  <2> QED BY <2>2 DEF Numbers
<1>3. CASE b.kind # "combo" /\ (repeat \/ b.when \notin holds)
  <2>1. t = s
    BY <1>3 DEF ScanBinding
  <2> QED BY <2>1
<1>4. /\ n.seq = s.seq + 1 /\ n.chords = s.chords /\ n.sequences = s.sequences
      /\ n.timers = s.timers /\ ScanInv(n)
  <2>1. n.seq = s.seq + 1 /\ n.chords = s.chords /\ n.sequences = s.sequences
        /\ n.timers = s.timers
    BY <1>1 DEF ScanState
  <2> QED BY <2>1, NumberKeeps
<1>5. \A e \in s.chords \cup s.sequences : e.seq # s.seq + 1
  BY <1>1 DEF Numbers
<1> HIDE DEF n
<1>6. CASE b.kind = "chord" /\ ~(repeat \/ b.when \notin holds)
  <2>1. t = FeedChord(n, b, vk) /\ b \in ChordBinding
    BY <1>6 DEF ScanBinding, Known, n
  <2>2. CASE vk \notin UNION b.keys
    <3>1. t = n
      BY <2>1, <2>2 DEF FeedChord
    <3>2. NewEntry(s.chords, t.chords, s.seq + 1)
      BY <1>4, <3>1 DEF NewEntry
    <3> QED BY <1>1, <1>4, <1>5, <3>1, <3>2, FeedNumbers
  <2>3. CASE vk \in UNION b.keys
    <3>1. ChordFed(n, b, vk, t)
      BY <1>4, <2>1, <2>3, ChordFeeds
    <3>2. t.sequences = s.sequences /\ t.seq = s.seq + 1
      BY <1>4, <3>1 DEF ChordFed
    <3>3. NewEntry(s.chords, t.chords, s.seq + 1)
      BY <1>4, <3>1 DEF ChordFed, NewEntry, Unexpired, More
    <3>4. \/ /\ t.timers = s.timers
             /\ \A e \in t.chords \cup t.sequences : e.seq # s.seq + 1
          \/ \E a : /\ a.seq = s.seq + 1 /\ t.timers = s.timers \cup {TimerOf("chord", a)}
                    /\ \A e \in t.chords : e.seq = s.seq + 1 => e.due = a.due
      <4> DEFINE rest == {e \in Unexpired(n.chords) : e.keys # b.keys}
      <4>1. \A e \in Unexpired(n.chords) : e.seq # s.seq + 1
        BY <1>4, <1>5 DEF Unexpired
      <4>2. \A e \in t.sequences : e.seq # s.seq + 1
        BY <1>5, <3>2
      <4>3. CASE \E a : /\ a.seq = n.seq /\ t.chords = rest \cup {a}
                        /\ t.timers = n.timers \cup {TimerOf("chord", a)}
        <5>1. PICK a : /\ a.seq = n.seq /\ t.chords = rest \cup {a}
                       /\ t.timers = n.timers \cup {TimerOf("chord", a)}
          BY <4>3
        <5>2. \A e \in t.chords : e.seq = s.seq + 1 => e.due = a.due
          BY <4>1, <5>1
        <5> QED BY <1>4, <5>1, <5>2
      <4>4. CASE t.chords = rest /\ t.timers = n.timers
        BY <1>4, <4>1, <4>2, <4>4
      <4>5. CASE \E e \in Unexpired(n.chords) : \E m :
                    More(e, m, vk) /\ t.chords = rest \cup {m} /\ t.timers = n.timers
        BY <1>4, <4>1, <4>2, <4>5 DEF More
      <4> QED BY <3>1, <4>3, <4>4, <4>5 DEF ChordFed
    <3> QED BY <1>1, <3>2, <3>3, <3>4, FeedNumbers
  <2> QED BY <2>2, <2>3
<1>7. CASE b.kind \notin {"combo", "chord"} /\ ~(repeat \/ b.when \notin holds)
  <2>1. t = FeedSequence(n, b) /\ b \in SequenceBinding
    BY <1>7 DEF ScanBinding, Known, n
  <2>2. SequenceFed(n, b, t)
    BY <1>4, <2>1, SequenceFeeds
  <2>3. t.chords = s.chords /\ t.seq = s.seq + 1
    BY <1>4, <2>2 DEF SequenceFed
  <2>4. NewEntry(s.sequences, t.sequences, s.seq + 1)
    BY <1>4, <2>2 DEF SequenceFed, NewEntry, Unexpired, Renewed
  <2>5. \/ /\ t.timers = s.timers
           /\ \A e \in t.chords \cup t.sequences : e.seq # s.seq + 1
        \/ \E a : /\ a.seq = s.seq + 1 /\ t.timers = s.timers \cup {TimerOf("sequence", a)}
                  /\ \A e \in t.sequences : e.seq = s.seq + 1 => e.due = a.due
    BY <1>4, <1>5, <2>2, <2>3 DEF SequenceFed, Unexpired, Renewed
  <2> QED BY <1>1, <2>3, <2>4, <2>5, FeedNumbers
<1> QED BY <1>2, <1>3, <1>6, <1>7

-----------------------------------------------------------------------------
(* The binding at `i` of the list takes a key-down for these keys or steps.   *)
IsTaker(kind, keys, i, vk, holds) ==
    /\ list[i].kind = kind /\ list[i].when \in holds
    /\ IF kind = "chord" THEN list[i].keys = keys /\ vk \in UNION keys
                         ELSE list[i].steps = keys

Takers(kind, keys, vk, holds) == {i \in 1 .. Len(list) : IsTaker(kind, keys, i, vk, holds)}

(* So at most one binding takes a key-down for these keys or steps.           *)
LEMMA OneTaker ==
    ASSUME ListInv, NoneShared, NEW holds \in Views, NEW vk,
           NEW kind \in {"chord", "sequence"}, NEW keys,
           NEW i \in Takers(kind, keys, vk, holds), NEW j \in Takers(kind, keys, vk, holds)
    PROVE  i = j
<1>1. /\ Len(list) \in Nat /\ Len(list) = Len(file) /\ file \in Files
      /\ DOMAIN file = 1 .. Len(file)
  BY ListKnown, FileKnown DEF ListInv
<1>2. PICK at : Order(at, Len(list))
  BY ListKnown DEF Order
<1>3. i \in 1 .. Len(list) /\ j \in 1 .. Len(list)
      /\ IsTaker(kind, keys, i, vk, holds) /\ IsTaker(kind, keys, j, vk, holds)
  BY DEF Takers
<1>4. /\ at[i] \in DOMAIN file /\ at[j] \in DOMAIN file
      /\ list[i] = file[at[i]] /\ list[j] = file[at[j]]
  BY <1>1, <1>2, <1>3 DEF Order
<1>5. at[i] = at[j]
  BY <1>1, <1>3, <1>4 DEF IsTaker, NoneShared
<1>6. ~Before(file, at[i], at[i])
  <2>1. \A k \in 1 .. Len(file) : KeyCount(file[k]) \in Nat
    BY <1>1, FileKnown DEF Known
  <2> QED BY <1>1, <1>4, <2>1, BeforeOrders
<1>7. i < j => Before(file, at[i], at[j])
  BY <1>2, <1>3 DEF Order
<1>8. j < i => Before(file, at[j], at[i])
  BY <1>2, <1>3 DEF Order
<1> QED BY <1>3, <1>5, <1>6, <1>7, <1>8

(* The key-down just logged is for the bindings that take it.                 *)
LEMMA ForTells ==
    ASSUME ListInv, NoneShared, NEW holds \in Views, NEW vk,
           NEW n \in Nat, file' = file, generation' = generation,
           log'[n + 1].vk = vk, log'[n + 1].holds = holds, log'[n + 1].era = generation,
           NEW kind \in {"chord", "sequence"}, NEW keys
    PROVE  /\ For(kind, keys, n + 1)' = {} <=> Takers(kind, keys, vk, holds) = {}
           /\ \A i \in Takers(kind, keys, vk, holds) :
                 BindingOf(kind, keys, n + 1)' = list[i]
<1>1. /\ Len(list) \in Nat /\ Len(list) = Len(file) /\ file \in Files
      /\ DOMAIN file = 1 .. Len(file)
  BY ListKnown, FileKnown DEF ListInv
<1>2. PICK at : Order(at, Len(list))
  BY ListKnown DEF Order
<1>3. For(kind, keys, n + 1)' =
        {j \in DOMAIN file :
            /\ file[j].kind = kind /\ file[j].when \in holds
            /\ IF kind = "chord" THEN file[j].keys = keys /\ vk \in UNION keys
                                 ELSE file[j].steps = keys}
  BY DEF For
<1>4. \A i \in 1 .. Len(list) : /\ at[i] \in DOMAIN file /\ list[i] = file[at[i]]
                                /\ (i \in Takers(kind, keys, vk, holds)
                                       <=> at[i] \in For(kind, keys, n + 1)')
  <2>1. \A i \in 1 .. Len(list) : at[i] \in DOMAIN file /\ list[i] = file[at[i]]
    BY <1>1, <1>2 DEF Order
  <2> QED BY <1>3, <2>1 DEF Takers, IsTaker
<1>5. \A j \in For(kind, keys, n + 1)' : \E i \in Takers(kind, keys, vk, holds) : at[i] = j
  <2>1. \A j \in DOMAIN file : \E i \in 1 .. Len(list) : at[i] = j
    BY <1>1, <1>2 DEF Order
  <2> QED BY <1>3, <1>4, <2>1
<1>6. Takers(kind, keys, vk, holds) \subseteq 1 .. Len(list)
  BY DEF Takers
<1>7. ASSUME NEW i \in Takers(kind, keys, vk, holds)
      PROVE  BindingOf(kind, keys, n + 1)' = list[i]
  <2>1. \A j \in For(kind, keys, n + 1)' : j = at[i]
    BY <1>5, <1>7, OneTaker
  <2>2. at[i] \in For(kind, keys, n + 1)'
    BY <1>4, <1>6
  <2>3. (CHOOSE j \in For(kind, keys, n + 1)' : TRUE) = at[i]
    BY <2>1, <2>2
  <2>4. BindingOf(kind, keys, n + 1)' = file[CHOOSE j \in For(kind, keys, n + 1)' : TRUE]
    BY DEF BindingOf
  <2> QED BY <1>4, <1>6, <2>3, <2>4
<1> QED BY <1>4, <1>5, <1>6, <1>7

(* What has fired, of one kind.                                               *)
FiredOf(s, kind) == {name \in ToSet(s.fire) : KindName(kind, name)}

(* What fires counts for its own kind.                                        *)
LEMMA FiredStep ==
    ASSUME NEW s, s.fire \in Seq(STRING), NEW t, NEW name \in STRING,
           t.fire = Append(s.fire, name), NEW kind
    PROVE  /\ KindName(kind, name) => FiredOf(t, kind) = FiredOf(s, kind) \cup {name}
           /\ ~KindName(kind, name) => FiredOf(t, kind) = FiredOf(s, kind)
<1>1. ToSet(t.fire) = ToSet(s.fire) \cup {name}
  BY DEF ToSet
<1> QED BY <1>1 DEF FiredOf

(* A binding that does not take the key-down for its kind leaves the kind's   *)
(* attempts and what has fired of it as they are.                             *)
LEMMA NotFed ==
    ASSUME file \in Files, now \in Nat, generation \in 0 .. MaxReset,
           NEW s, ScanInv(s), NEW i, Known(list[i]), NEW won, NEW vk \in Code,
           NEW holds, NEW repeat \in BOOLEAN,
           NEW t, t = ScanBinding(s, i, won, vk, holds, repeat),
           NEW kind \in {"chord", "sequence"},
           kind = "chord" => repeat \/ ~IsTaker("chord", list[i].keys, i, vk, holds),
           kind = "sequence" => repeat \/ ~IsTaker("sequence", list[i].steps, i, vk, holds)
    PROVE  /\ kind = "chord" => t.chords = s.chords
           /\ kind = "sequence" => t.sequences = s.sequences
           /\ FiredOf(t, kind) = FiredOf(s, kind)
<1> DEFINE b == list[i]
           n == [s EXCEPT !.seq = @ + 1]
<1>1. /\ s \in ScanState /\ s.fire \in Seq(STRING) /\ b.name \in STRING
      /\ KindName(b.kind, b.name)
      /\ b.kind = "combo" => b \in ComboBinding
      /\ b.kind = "chord" => b \in ChordBinding
      /\ b.kind \notin {"combo", "chord"} => b \in SequenceBinding /\ Len(b.steps) > 1
                                             /\ b.kind = "sequence"
  BY DEF ScanInv, ScanState, Known, Binding, ComboBinding, ChordBinding, SequenceBinding
<1>2. \A name, k, l : KindName(k, name) /\ KindName(l, name) => k = l
  BY FileKnown
<1>a. ASSUME NEW name \in STRING, t.fire = Append(s.fire, name), ~KindName(kind, name)
      PROVE  FiredOf(t, kind) = FiredOf(s, kind)
  <2>1. s.fire \in Seq(STRING)
    BY <1>1
  <2> QED BY ONLY <1>a, <2>1, FiredStep
<1>3. CASE b.kind = "combo"
  <2>1. t = ScanCombo(s, i, won, vk, holds, repeat)
    BY <1>3 DEF ScanBinding
  <2>2. /\ t.chords = s.chords /\ t.sequences = s.sequences
        /\ t.fire = s.fire \/ t.fire = Append(s.fire, b.name)
    <3>1. b.blocker = "no" \/ b.blocker # "no"
      OBVIOUS
    <3> HIDE DEF b
    <3> QED BY <1>1, <2>1, <3>1 DEF ScanCombo, ScanState, b
  <2>3. ~KindName(kind, b.name)
    BY <1>1, <1>2, <1>3
  <2>4. FiredOf(t, kind) = FiredOf(s, kind)
    <3>1. CASE t.fire = s.fire
      BY <3>1 DEF FiredOf
    <3>2. CASE t.fire = Append(s.fire, b.name)
      BY <1>1, <1>a, <2>3, <3>2
    <3> QED BY <2>2, <3>1, <3>2
  <2> QED BY <2>2, <2>4
<1>4. CASE b.kind # "combo" /\ (repeat \/ b.when \notin holds)
  <2>1. t = s
    BY <1>4 DEF ScanBinding
  <2> QED BY <2>1
<1>5. n.fire = s.fire /\ n.chords = s.chords /\ n.sequences = s.sequences /\ ScanInv(n)
  <2>1. n.fire = s.fire /\ n.chords = s.chords /\ n.sequences = s.sequences
    BY <1>1 DEF ScanState
  <2> QED BY <2>1, NumberKeeps
<1> HIDE DEF n
<1>6. ASSUME NEW k, k # kind, Feeds(n, t, k) PROVE FiredOf(t, kind) = FiredOf(s, kind)
  <2>1. CASE t.fire = s.fire
    BY <2>1 DEF FiredOf
  <2>2. CASE \E name \in STRING : KindName(k, name) /\ t.fire = Append(n.fire, name)
    <3>1. PICK name \in STRING : KindName(k, name) /\ t.fire = Append(s.fire, name)
      BY <1>5, <2>2
    <3>2. ~KindName(kind, name)
      BY <1>2, <1>6, <3>1
    <3> QED BY <1>a, <3>1, <3>2
  <2> QED BY <1>5, <1>6, <2>1, <2>2 DEF Feeds
<1>7. CASE b.kind = "chord" /\ ~(repeat \/ b.when \notin holds)
  <2>1. t = FeedChord(n, b, vk) /\ b \in ChordBinding
    BY <1>1, <1>7 DEF ScanBinding, n
  <2>2. CASE vk \notin UNION b.keys
    <3>1. t = n
      BY <2>1, <2>2 DEF FeedChord
    <3> QED BY <1>5, <3>1 DEF FiredOf
  <2>3. CASE vk \in UNION b.keys
    <3>1. kind = "sequence"
      BY <1>7, <2>3 DEF IsTaker
    <3>2. t.sequences = s.sequences
      <4>1. ChordFed(n, b, vk, t)
        BY <1>5, <2>1, <2>3, ChordFeeds
      <4> QED BY <1>5, <4>1 DEF ChordFed
    <3>3. Feeds(n, t, "chord")
      BY <1>1, <1>5, <1>7, <2>1, FeedChordKeeps
    <3> QED BY <1>6, <3>1, <3>2, <3>3
  <2> QED BY <2>2, <2>3
<1>8. CASE b.kind \notin {"combo", "chord"} /\ ~(repeat \/ b.when \notin holds)
  <2>1. t = FeedSequence(n, b) /\ b \in SequenceBinding /\ Len(b.steps) > 1
        /\ b.kind = "sequence"
    BY <1>1, <1>8 DEF ScanBinding, n
  <2>2. kind = "chord"
    BY <1>8, <2>1 DEF IsTaker
  <2>3. t.chords = s.chords
    <3>1. SequenceFed(n, b, t)
      BY <1>5, <2>1, SequenceFeeds
    <3> QED BY <1>5, <3>1 DEF SequenceFed
  <2>4. Feeds(n, t, "sequence")
    BY <1>1, <1>5, <2>1, FeedSequenceKeeps
  <2> QED BY <1>6, <2>2, <2>3, <2>4
<1> QED BY <1>3, <1>4, <1>7, <1>8

(* How far the scan has come with the sequences: those taken so far are one   *)
(* step on, and what ended has fired.                                         *)
HasSteps(steps) ==
    \E k \in 1 .. Len(list) : list[k].kind = "sequence" /\ list[k].steps = steps

Moved(i) == Onward(list[i], Path(list[i].steps))

Arrives(i) == Moved(i).done = Len(list[i].steps)

TakenSequences(m, holds) ==
    {i \in 1 .. m : list[i].kind = "sequence" /\ list[i].when \in holds}

SequencesTold(s, m, holds) ==
    /\ \A steps :
          HasSteps(steps) /\ (\A i \in TakenSequences(m, holds) : list[i].steps # steps)
          => SequenceMatch(s.sequences, steps, Path(steps))
    /\ \A i \in TakenSequences(m, holds) :
          SequenceMatch(s.sequences, list[i].steps, Moved(i))
    /\ FiredOf(s, "sequence") =
          {Moved(j).name : j \in {i \in TakenSequences(m, holds) : Arrives(i)}}

(* What has fired is known by the name appended.                              *)
LEMMA AppendTells ==
    ASSUME NEW f \in Seq(STRING), NEW x, NEW y
    PROVE  Append(f, x) # f /\ (Append(f, x) = Append(f, y) => x = y)
<1>1. /\ Len(Append(f, x)) = Len(f) + 1 /\ Len(f) \in Nat
      /\ Append(f, x)[Len(f) + 1] = x /\ Append(f, y)[Len(f) + 1] = y
  OBVIOUS
<1> QED BY <1>1

(* The next binding of the list goes on with it.                              *)
LEMMA SequenceStep ==
    ASSUME ListInv, NoneShared, now \in Nat, generation \in 0 .. MaxReset,
           NEW m \in 1 .. Len(list), NEW holds \in Views, NEW vk \in Code, NEW won,
           NEW s, ScanInv(s), SequencesTold(s, m - 1, holds),
           NEW repeat \in BOOLEAN, ~repeat,
           NEW t, t = ScanBinding(s, m, won, vk, holds, repeat)
    PROVE  SequencesTold(t, m, holds)
<1> DEFINE b == list[m]
           n == [s EXCEPT !.seq = @ + 1]
<1>1. /\ file \in Files /\ Len(list) \in Nat /\ Known(b) /\ m \in Nat /\ m - 1 \in Nat
  BY ListKnown DEF ListInv
<1>2. \A i : i \in TakenSequences(m, holds) <=>
         \/ i \in TakenSequences(m - 1, holds)
         \/ i = m /\ b.kind = "sequence" /\ b.when \in holds
  BY <1>1 DEF TakenSequences
<1>3. CASE ~(b.kind = "sequence" /\ b.when \in holds)
  <2>1. t.sequences = s.sequences /\ FiredOf(t, "sequence") = FiredOf(s, "sequence")
    <3>1. ~IsTaker("sequence", b.steps, m, vk, holds)
      BY <1>3 DEF IsTaker
    <3> QED BY <1>1, <3>1, NotFed
  <2>2. TakenSequences(m, holds) = TakenSequences(m - 1, holds)
    BY <1>2, <1>3
  <2> QED BY <2>1, <2>2 DEF SequencesTold
<1>4. CASE b.kind = "sequence" /\ b.when \in holds
  <2>1. b \in SequenceBinding /\ Len(b.steps) > 1 /\ KindName("sequence", b.name)
    BY <1>1, <1>4 DEF Known
  <2>2. /\ n.fire = s.fire /\ n.chords = s.chords /\ n.sequences = s.sequences /\ ScanInv(n)
    <3>1. n.fire = s.fire /\ n.chords = s.chords /\ n.sequences = s.sequences
      BY DEF ScanInv, ScanState
    <3> QED BY <3>1, NumberKeeps
  <2>3. t = FeedSequence(n, b)
    BY <1>4 DEF ScanBinding
  <2> HIDE DEF n
  <2>4. SequenceFed(n, b, t) /\ Feeds(n, t, "sequence")
    BY <2>1, <2>2, <2>3, SequenceFeeds, FeedSequenceKeeps
  <2>5. ASSUME NEW i \in TakenSequences(m - 1, holds) PROVE list[i].steps # b.steps
    <3>1. i \in 1 .. Len(list) /\ i # m /\ list[i].kind = "sequence" /\ list[i].when \in holds
      BY <1>1 DEF TakenSequences
    <3>2. CASE list[i].steps = b.steps
      <4>1. /\ i \in Takers("sequence", b.steps, vk, holds)
            /\ m \in Takers("sequence", b.steps, vk, holds)
        BY <1>1, <1>4, <3>1, <3>2 DEF Takers, IsTaker
      <4> QED BY <3>1, <4>1, OneTaker
    <3> QED BY <3>2
  <2>6. HasSteps(b.steps)
    BY <1>4 DEF HasSteps
  <2>7. SequenceMatch(n.sequences, b.steps, Path(b.steps))
    BY <2>2, <2>5, <2>6 DEF SequencesTold
  <2>8. /\ SequenceMatch(t.sequences, b.steps, Moved(m))
        /\ t.fire = IF Arrives(m) THEN Append(s.fire, Moved(m).name) ELSE s.fire
    <3>1. PICK p, q : p = Path(b.steps) /\ q = Onward(b, p)
      OBVIOUS
    <3>2. /\ SequenceMatch(t.sequences, b.steps, q)
          /\ t.fire = IF q.done = Len(b.steps) THEN Append(n.fire, q.name) ELSE n.fire
      <4>1. /\ now \in Nat /\ ScanInv(n) /\ b \in SequenceBinding /\ Len(b.steps) > 1
            /\ SequenceMatch(n.sequences, b.steps, p) /\ SequenceFed(n, b, t)
            /\ q = Onward(b, p)
        BY <2>1, <2>2, <2>4, <2>7, <3>1
      <4> HIDE DEF b
      <4> QED BY ONLY <4>1, SequenceFedMatches
    <3>3. q = Moved(m) /\ (Arrives(m) <=> q.done = Len(b.steps))
      BY <3>1 DEF Moved, Arrives
    <3> QED BY <2>2, <3>2, <3>3
  <2>9. ASSUME NEW steps, HasSteps(steps),
               \A i \in TakenSequences(m, holds) : list[i].steps # steps
        PROVE  SequenceMatch(t.sequences, steps, Path(steps))
    <3>1. steps # b.steps /\ SequenceMatch(n.sequences, steps, Path(steps))
      BY <1>2, <1>4, <2>2, <2>9 DEF SequencesTold
    <3> QED BY <2>2, <2>4, <3>1, SequenceFedKeepsOthers
  <2>10. ASSUME NEW i \in TakenSequences(m, holds)
         PROVE  SequenceMatch(t.sequences, list[i].steps, Moved(i))
    <3>1. CASE i = m
      BY <2>8, <3>1
    <3>2. CASE i \in TakenSequences(m - 1, holds)
      <4>1. SequenceMatch(n.sequences, list[i].steps, Moved(i)) /\ list[i].steps # b.steps
        BY <2>2, <2>5, <3>2 DEF SequencesTold
      <4>2. now \in Nat /\ ScanInv(n) /\ SequenceFed(n, b, t)
        BY <2>2, <2>4
      <4> QED BY <4>1, <4>2, SequenceFedKeepsOthers
    <3> QED BY <1>2, <3>1, <3>2
  <2>11. FiredOf(t, "sequence") =
           {Moved(j).name : j \in {i \in TakenSequences(m, holds) : Arrives(i)}}
    <3>1. FiredOf(s, "sequence") =
            {Moved(j).name : j \in {i \in TakenSequences(m - 1, holds) : Arrives(i)}}
      BY DEF SequencesTold
    <3>2. CASE ~Arrives(m)
      <4>1. FiredOf(t, "sequence") = FiredOf(s, "sequence")
        BY <2>8, <3>2 DEF FiredOf
      <4>2. {i \in TakenSequences(m, holds) : Arrives(i)} =
               {i \in TakenSequences(m - 1, holds) : Arrives(i)}
        BY <1>2, <3>2
      <4> QED BY <3>1, <4>1, <4>2
    <3>3. CASE Arrives(m)
      <4>1. t.fire = Append(s.fire, Moved(m).name) /\ s.fire \in Seq(STRING)
        BY <2>8, <3>3 DEF ScanInv, ScanState
      <4>2. PICK name \in STRING : KindName("sequence", name) /\ t.fire = Append(s.fire, name)
        <5>1. t.fire # s.fire
          BY <4>1, AppendTells
        <5> QED BY <2>2, <2>4, <5>1 DEF Feeds
      <4>3. name = Moved(m).name
        BY <4>1, <4>2, AppendTells
      <4>4. FiredOf(t, "sequence") = FiredOf(s, "sequence") \cup {Moved(m).name}
        <5>1. FiredOf(t, "sequence") = FiredOf(s, "sequence") \cup {name}
          <6>1. s.fire \in Seq(STRING) /\ name \in STRING /\ KindName("sequence", name)
                /\ t.fire = Append(s.fire, name)
            BY <4>1, <4>2
          <6> QED BY ONLY <6>1, FiredStep
        <5> QED BY <4>3, <5>1
      <4>5. {i \in TakenSequences(m, holds) : Arrives(i)} =
               {i \in TakenSequences(m - 1, holds) : Arrives(i)} \cup {m}
        BY <1>2, <1>4, <3>3
      <4> QED BY <3>1, <4>4, <4>5
    <3> QED BY <3>2, <3>3
  <2> QED BY <2>9, <2>10, <2>11 DEF SequencesTold
<1> QED BY <1>3, <1>4

(* And how far it has come with the chords.                                   *)
HasKeys(keys) == \E k \in 1 .. Len(list) : list[k].kind = "chord" /\ list[k].keys = keys

TakenChords(m, vk, holds) ==
    {i \in 1 .. m : /\ list[i].kind = "chord" /\ list[i].when \in holds
                    /\ vk \in UNION list[i].keys}

ChordsTold(s, m, vk, holds) ==
    /\ \A keys : HasKeys(keys) /\ (\A i \in TakenChords(m, vk, holds) : list[i].keys # keys)
          => AttemptsIn(s.chords, keys) = Running(keys)
    /\ \A i \in TakenChords(m, vk, holds) :
          AttemptsIn(s.chords, list[i].keys) = Still(list[i], Running(list[i].keys), vk)
    /\ FiredOf(s, "chord") =
         UNION {Finished(list[i], Running(list[i].keys), vk) : i \in TakenChords(m, vk, holds)}

(* The next binding of the list goes on with it.                              *)
LEMMA ChordStep ==
    ASSUME ListInv, NoneShared, now \in Nat, generation \in 0 .. MaxReset,
           NEW m \in 1 .. Len(list), NEW holds \in Views, NEW vk \in Code, NEW won,
           NEW s, ScanInv(s), ChordsTold(s, m - 1, vk, holds),
           NEW repeat \in BOOLEAN, ~repeat,
           NEW t, t = ScanBinding(s, m, won, vk, holds, repeat)
    PROVE  ChordsTold(t, m, vk, holds)
<1> DEFINE b == list[m]
           n == [s EXCEPT !.seq = @ + 1]
           taken == b.kind = "chord" /\ b.when \in holds /\ vk \in UNION b.keys
<1>1. /\ file \in Files /\ Len(list) \in Nat /\ Known(b) /\ m \in Nat /\ m - 1 \in Nat
  BY ListKnown DEF ListInv
<1>2. \A i : i \in TakenChords(m, vk, holds) <=>
         i \in TakenChords(m - 1, vk, holds) \/ (i = m /\ taken)
  BY <1>1 DEF TakenChords
<1>3. CASE ~taken
  <2>1. t.chords = s.chords /\ FiredOf(t, "chord") = FiredOf(s, "chord")
    <3>1. ~IsTaker("chord", b.keys, m, vk, holds)
      BY <1>3 DEF IsTaker
    <3> QED BY <1>1, <3>1, NotFed
  <2>2. TakenChords(m, vk, holds) = TakenChords(m - 1, vk, holds)
    BY <1>2, <1>3
  <2> QED BY <2>1, <2>2 DEF ChordsTold
<1>4. CASE taken
  <2>1. b \in ChordBinding /\ KindName("chord", b.name) /\ vk \in UNION b.keys
    BY <1>1, <1>4 DEF Known
  <2>2. /\ n.fire = s.fire /\ n.chords = s.chords /\ ScanInv(n)
    <3>1. n.fire = s.fire /\ n.chords = s.chords
      BY DEF ScanInv, ScanState
    <3> QED BY <3>1, NumberKeeps
  <2>3. t = FeedChord(n, b, vk)
    BY <1>4 DEF ScanBinding
  <2> HIDE DEF n
  <2>4. ChordFed(n, b, vk, t) /\ Feeds(n, t, "chord")
    BY <2>1, <2>2, <2>3, ChordFeeds, FeedChordKeeps
  <2>5. ASSUME NEW i \in TakenChords(m - 1, vk, holds) PROVE list[i].keys # b.keys
    <3>1. /\ i \in 1 .. Len(list) /\ i # m /\ list[i].kind = "chord" /\ list[i].when \in holds
          /\ vk \in UNION list[i].keys
      BY <1>1 DEF TakenChords
    <3>2. CASE list[i].keys = b.keys
      <4>1. /\ i \in Takers("chord", b.keys, vk, holds)
            /\ m \in Takers("chord", b.keys, vk, holds)
        BY <1>1, <1>4, <3>1, <3>2 DEF Takers, IsTaker
      <4> QED BY <3>1, <4>1, OneTaker
    <3> QED BY <3>2
  <2>6. HasKeys(b.keys)
    BY <1>4 DEF HasKeys
  <2>7. AttemptsIn(n.chords, b.keys) = Running(b.keys)
    BY <2>2, <2>5, <2>6 DEF ChordsTold
  <2>8. PICK A : A = Running(b.keys)
    OBVIOUS
  <2>9. /\ AttemptsIn(t.chords, b.keys) = Still(b, A, vk)
        /\ Adds(n, t, Finished(b, A, vk))
    <3>1. /\ ScanInv(n) /\ b \in ChordBinding /\ ChordFed(n, b, vk, t)
          /\ A = AttemptsIn(n.chords, b.keys)
      BY <2>1, <2>2, <2>4, <2>7, <2>8
    <3> HIDE DEF b
    <3> QED BY ONLY <3>1, ChordFedMatches
  <2>10. ASSUME NEW keys, HasKeys(keys),
                \A i \in TakenChords(m, vk, holds) : list[i].keys # keys
         PROVE  AttemptsIn(t.chords, keys) = Running(keys)
    <3>1. keys # b.keys /\ AttemptsIn(n.chords, keys) = Running(keys)
      BY <1>2, <1>4, <2>2, <2>10 DEF ChordsTold
    <3> QED BY <2>4, <3>1, ChordFedKeepsOthers
  <2>11. ASSUME NEW i \in TakenChords(m, vk, holds)
         PROVE  AttemptsIn(t.chords, list[i].keys) = Still(list[i], Running(list[i].keys), vk)
    <3>1. CASE i = m
      <4>1. AttemptsIn(t.chords, b.keys) = Still(b, Running(b.keys), vk)
        BY <2>8, <2>9
      <4> QED BY <3>1, <4>1
    <3>2. CASE i \in TakenChords(m - 1, vk, holds)
      <4>1. /\ AttemptsIn(n.chords, list[i].keys) = Still(list[i], Running(list[i].keys), vk)
            /\ list[i].keys # b.keys
        BY <2>2, <2>5, <3>2 DEF ChordsTold
      <4>2. PICK keys : keys = list[i].keys
        OBVIOUS
      <4>3. AttemptsIn(t.chords, keys) = AttemptsIn(n.chords, keys)
        <5>1. ChordFed(n, b, vk, t) /\ keys # b.keys
          BY <2>4, <4>1, <4>2
        <5> QED BY ONLY <5>1, ChordFedKeepsOthers
      <4> QED BY <4>1, <4>2, <4>3
    <3> QED BY <1>2, <3>1, <3>2
  <2>12. FiredOf(t, "chord") = FiredOf(s, "chord") \cup Finished(b, A, vk)
    <3>1. CASE Finished(b, A, vk) = {} /\ t.fire = s.fire
      BY <3>1 DEF FiredOf
    <3>2. CASE \E name : Finished(b, A, vk) = {name} /\ t.fire = Append(s.fire, name)
      <4>1. PICK x : Finished(b, A, vk) = {x} /\ t.fire = Append(s.fire, x)
        BY <3>2
      <4>2. s.fire \in Seq(STRING)
        BY DEF ScanInv, ScanState
      <4>3. PICK name \in STRING : KindName("chord", name) /\ t.fire = Append(s.fire, name)
        BY <2>2, <2>4, <4>1, <4>2, AppendTells DEF Feeds
      <4>4. name = x
        BY <4>1, <4>2, <4>3, AppendTells
      <4>5. FiredOf(t, "chord") = FiredOf(s, "chord") \cup {name}
        <5>1. s.fire \in Seq(STRING) /\ name \in STRING /\ KindName("chord", name)
              /\ t.fire = Append(s.fire, name)
          BY <4>2, <4>3
        <5> QED BY ONLY <5>1, FiredStep
      <4> QED BY <4>1, <4>4, <4>5
    <3> QED BY <2>2, <2>9, <3>1, <3>2 DEF Adds
  <2>13. FiredOf(t, "chord") =
           UNION {Finished(list[i], Running(list[i].keys), vk) :
                    i \in TakenChords(m, vk, holds)}
    <3>1. TakenChords(m, vk, holds) = TakenChords(m - 1, vk, holds) \cup {m}
      BY <1>2, <1>4
    <3>2. FiredOf(s, "chord") =
            UNION {Finished(list[i], Running(list[i].keys), vk) :
                      i \in TakenChords(m - 1, vk, holds)}
      BY DEF ChordsTold
    <3>3. Finished(b, A, vk) = Finished(list[m], Running(list[m].keys), vk)
      BY <2>8
    <3> QED BY <2>12, <3>1, <3>2, <3>3
  <2> QED BY <2>10, <2>11, <2>13 DEF ChordsTold
<1> QED BY <1>3, <1>4

(* What a scan has made of the attempts after `m` bindings.                   *)
Told(start, s, m, vk, holds, repeat) ==
    /\ ScanInv(s) /\ Numbers(s)
    /\ IF repeat
       THEN /\ s.chords = start.chords /\ s.sequences = start.sequences
            /\ FiredOf(s, "chord") = {} /\ FiredOf(s, "sequence") = {}
       ELSE SequencesTold(s, m, holds) /\ ChordsTold(s, m, vk, holds)

AttemptsKept ==
    /\ \A steps : HasSteps(steps) => SequenceMatch(sequences, steps, Path(steps))
    /\ \A keys : HasKeys(keys) => AttemptsIn(chords, keys) = Running(keys)

(* At the end of the list the scan has fed all that the key-down is for.      *)
LEMMA ScanTells ==
    ASSUME ListInv, NoneShared, now \in Nat, generation \in 0 .. MaxReset,
           queue \subseteq Timer, AttemptsKept, NEW vk \in Code, NEW holds \in Views,
           NEW repeat \in BOOLEAN, NEW won, NEW start, ScanInv(start), Numbers(start),
           start.chords = chords, start.sequences = sequences, start.fire = <<>>,
           NEW end, end = Scan(start, won, vk, holds, repeat)
    PROVE  Told(start, end, Len(list), vk, holds, repeat)
<1>1. /\ file \in Files /\ Len(list) \in Nat
      /\ \A i \in 1 .. Len(list) : Known(list[i])
  BY ListKnown DEF ListInv
<1>2. PICK N : N = Len(list)
  OBVIOUS
<1>a. N \in Nat /\ Len(list) = N
  BY <1>1, <1>2
<1>3. PICK h : /\ Scans(h, N, start, won, vk, holds, repeat)
               /\ Scan(start, won, vk, holds, repeat) = h[N]
  BY <1>a, ScanUnfolds
<1> DEFINE Good == {m \in 0 .. N : Told(start, h[m], m, vk, holds, repeat)}
<1>4. 0 \in Good
  <2>1. h[0] = start
    BY <1>3 DEF Scans
  <2>2. TakenSequences(0, holds) = {} /\ TakenChords(0, vk, holds) = {}
    BY DEF TakenSequences, TakenChords
  <2>3. \A kind : FiredOf(start, kind) = {}
    BY DEF FiredOf, ToSet
  <2>4. SequencesTold(start, 0, holds)
    BY <2>2, <2>3 DEF SequencesTold, AttemptsKept
  <2>5. ChordsTold(start, 0, vk, holds)
    BY <2>2, <2>3 DEF ChordsTold, AttemptsKept
  <2>6. Told(start, start, 0, vk, holds, repeat)
    BY <2>3, <2>4, <2>5 DEF Told
  <2> QED BY <1>a, <2>1, <2>6
<1>5. ASSUME NEW m \in 1 .. N, m - 1 \in Good PROVE m \in Good
  <2>1. PICK s, t : s = h[m - 1] /\ t = h[m]
    OBVIOUS
  <2>2. Told(start, s, m - 1, vk, holds, repeat)
    BY <1>5, <2>1
  <2>3. t = ScanBinding(s, m, won, vk, holds, repeat)
    BY <1>3, <2>1 DEF Scans
  <2>4. m \in 1 .. Len(list) /\ Known(list[m]) /\ ScanInv(s) /\ Numbers(s)
    BY <1>1, <1>a, <2>2 DEF Told
  <2>5. ScanInv(t)
    BY <1>1, <2>3, <2>4, BindingKeeps
  <2>6. Numbers(t)
    BY <1>1, <2>3, <2>4, BindingNumbers
  <2>7. CASE repeat
    <3>1. ASSUME NEW kind \in {"chord", "sequence"}
          PROVE  /\ kind = "chord" => t.chords = s.chords
                 /\ kind = "sequence" => t.sequences = s.sequences
                 /\ FiredOf(t, kind) = FiredOf(s, kind)
      <4>1. /\ file \in Files /\ now \in Nat /\ generation \in 0 .. MaxReset
            /\ ScanInv(s) /\ Known(list[m]) /\ vk \in Code /\ repeat \in BOOLEAN
            /\ t = ScanBinding(s, m, won, vk, holds, repeat)
            /\ (kind = "chord" => repeat \/ ~IsTaker("chord", list[m].keys, m, vk, holds))
            /\ (kind = "sequence" =>
                  repeat \/ ~IsTaker("sequence", list[m].steps, m, vk, holds))
        BY <1>1, <2>3, <2>4, <2>7
      <4> QED BY ONLY <3>1, <4>1, NotFed
    <3>2. /\ t.chords = s.chords /\ t.sequences = s.sequences
          /\ FiredOf(t, "chord") = FiredOf(s, "chord")
          /\ FiredOf(t, "sequence") = FiredOf(s, "sequence")
      BY <3>1
    <3>3. Told(start, t, m, vk, holds, repeat)
      BY <2>2, <2>5, <2>6, <2>7, <3>1, <3>2 DEF Told
    <3> QED BY <1>a, <2>1, <3>3
  <2>8. CASE ~repeat
    <3>1. SequencesTold(s, m - 1, holds) /\ ChordsTold(s, m - 1, vk, holds)
      BY <2>2, <2>8 DEF Told
    <3>2. SequencesTold(t, m, holds)
      BY <2>3, <2>4, <2>8, <3>1, SequenceStep
    <3>3. ChordsTold(t, m, vk, holds)
      BY <2>3, <2>4, <2>8, <3>1, ChordStep
    <3>4. Told(start, t, m, vk, holds, repeat)
      BY <2>5, <2>6, <2>8, <3>2, <3>3 DEF Told
    <3> QED BY <1>a, <2>1, <3>4
  <2> QED BY <2>7, <2>8
<1>6. N \in Good
  <2> HIDE DEF Good
  <2>1. \A i \in 0 .. N : i \in Good
    BY <1>4, <1>5, <1>a, StepByStep
  <2> QED BY <1>a, <2>1
<1> QED BY <1>2, <1>3, <1>6

-----------------------------------------------------------------------------
(* What a key-down of now makes of a path.                                    *)
LEMMA PathStepTells ==
    ASSUME NEW n \in Nat, NEW steps, NEW p, NEW b,
           BindingOf("sequence", steps, n + 1)' = b, b.steps = steps,
           log'[n + 1].at = now, log'[n + 1].held = active'
    PROVE  For("sequence", steps, n + 1)' # {} => PathStep(steps, p, n + 1)' = Onward(b, p)
<1>1. PathStep(steps, p, n + 1)' =
        IF For("sequence", steps, n + 1)' = {}
        THEN IF p.done = Len(steps) THEN [p EXCEPT !.done = 0] ELSE p
        ELSE IF OnPath(steps, p) /\
                KeysDown(steps[IF OnPath(steps, p) THEN p.done + 1 ELSE 1], active')
        THEN [p EXCEPT !.done = IF OnPath(steps, p) THEN p.done + 1 ELSE 1,
                       !.until = now + b.term]
        ELSE IF KeysDown(steps[1], active')
        THEN [done |-> 1, name |-> b.name, until |-> now + b.term]
        ELSE NoPath
  BY DEF PathStep, OnPath, KeysDown, NoPath
<1> QED BY <1>1 DEF Onward

(* And of a path that the key-down is not for.                                *)
LEMMA PathStepKeeps ==
    ASSUME NEW n \in Nat, NEW steps, NEW p
    PROVE  For("sequence", steps, n + 1)' = {} =>
             PathStep(steps, p, n + 1)' =
               IF p.done = Len(steps) THEN [p EXCEPT !.done = 0] ELSE p
  BY DEF PathStep

(* A path that has come to its end is as one that has not begun.              *)
LEMMA PathRests ==
    ASSUME NEW entries, NEW steps, Len(steps) \in Nat, Len(steps) # 0, NEW p,
           SequenceMatch(entries, steps, p),
           NEW q, q = IF p.done = Len(steps) THEN [p EXCEPT !.done = 0] ELSE p
    PROVE  SequenceMatch(entries, steps, q) /\ q.done # Len(steps)
<1>1. IsPath(p) /\ \A e \in Unexpired(entries) : e.steps = steps => OnPath(steps, p)
  BY DEF SequenceMatch
<1>2. CASE p.done = Len(steps)
  <2>1. q = [done |-> 0, name |-> p.name, until |-> p.until]
    BY <1>1, <1>2 DEF IsPath
  <2>2. IsPath(q) /\ q.done = 0
    BY <1>1, <2>1 DEF IsPath
  <2>3. ~OnPath(steps, p)
    BY <1>2 DEF OnPath
  <2>4. ~OnPath(steps, q)
    BY <2>2 DEF OnPath
  <2> QED BY <1>1, <2>2, <2>3, <2>4 DEF SequenceMatch
<1>3. CASE p.done # Len(steps)
  BY <1>3
<1> QED BY <1>2, <1>3

(* The key-down of now is in the log.                                         *)
Logged(n, vk, holds) ==
    /\ Longer(n) /\ Len(log') = n + 1 /\ now' = now /\ list' = list
    /\ log'[n + 1].vk = vk /\ log'[n + 1].at = now /\ log'[n + 1].held = active'
    /\ log'[n + 1].holds = holds /\ log'[n + 1].era = generation

(* The paths of the longer log are where the scan has taken the attempts.     *)
LEMMA SequencesGo ==
    ASSUME ListInv, NoneShared, NEW n, NEW vk, NEW holds \in Views, Logged(n, vk, holds),
           NEW end, SequencesTold(end, Len(list), holds)
    PROVE  \A steps : HasSteps(steps) =>
              \E q : /\ q = Path(steps)'
                     /\ SequenceMatch(end.sequences, steps, q)
                     /\ IF \E i \in TakenSequences(Len(list), holds) : list[i].steps = steps
                        THEN \E i \in TakenSequences(Len(list), holds) :
                                list[i].steps = steps /\ q = Moved(i)
                        ELSE q.done # Len(steps)
<1> SUFFICES ASSUME NEW steps, HasSteps(steps)
             PROVE  \E q : /\ q = Path(steps)'
                     /\ SequenceMatch(end.sequences, steps, q)
                     /\ IF \E i \in TakenSequences(Len(list), holds) : list[i].steps = steps
                        THEN \E i \in TakenSequences(Len(list), holds) :
                                list[i].steps = steps /\ q = Moved(i)
                        ELSE q.done # Len(steps)
  OBVIOUS
<1>1. /\ n \in Nat /\ Longer(n) /\ file' = file /\ generation' = generation
      /\ log'[n + 1].vk = vk /\ log'[n + 1].at = now /\ log'[n + 1].held = active'
      /\ log'[n + 1].holds = holds /\ log'[n + 1].era = generation
  BY DEF Logged, Longer
<1>2. PICK p : p = Path(steps)
  OBVIOUS
<1>3. PICK q : q = Path(steps)'
  OBVIOUS
<1>4. q = PathStep(steps, p, n + 1)'
  <2>1. /\ n \in Nat /\ Len(log) = n /\ Len(log') \in n .. n + 1 /\ Len(log') = n + 1
        /\ file' = file /\ generation' = generation
        /\ \A i \in 1 .. n : log'[i] = log[i]
    BY DEF Logged, Longer
  <2> QED BY <1>2, <1>3, <2>1, PathGrows
<1>5. \A i : i \in TakenSequences(Len(list), holds) /\ list[i].steps = steps
         <=> i \in Takers("sequence", steps, vk, holds)
  BY DEF TakenSequences, Takers, IsTaker
<1>6. /\ For("sequence", steps, n + 1)' = {} <=> Takers("sequence", steps, vk, holds) = {}
      /\ \A i \in Takers("sequence", steps, vk, holds) :
            BindingOf("sequence", steps, n + 1)' = list[i]
  BY <1>1, ForTells
<1>7. CASE \E i \in TakenSequences(Len(list), holds) : list[i].steps = steps
  <2>1. PICK i \in TakenSequences(Len(list), holds) : list[i].steps = steps
    BY <1>7
  <2>2. For("sequence", steps, n + 1)' # {} /\ BindingOf("sequence", steps, n + 1)' = list[i]
    BY <1>5, <1>6, <2>1
  <2>3. PICK b : b = list[i]
    OBVIOUS
  <2>4. q = Onward(b, p)
    <3>1. PathStep(steps, p, n + 1)' = Onward(b, p)
      BY <1>1, <2>1, <2>2, <2>3, PathStepTells
    <3> QED BY <1>4, <3>1
  <2>5. q = Moved(i)
    BY <1>2, <2>1, <2>3, <2>4 DEF Moved
  <2>6. SequenceMatch(end.sequences, steps, q)
    BY <2>1, <2>5 DEF SequencesTold
  <2> QED BY <1>3, <1>7, <2>1, <2>5, <2>6
<1>8. CASE ~ \E i \in TakenSequences(Len(list), holds) : list[i].steps = steps
  <2>1. For("sequence", steps, n + 1)' = {}
    BY <1>5, <1>6, <1>8
  <2>2. q = IF p.done = Len(steps) THEN [p EXCEPT !.done = 0] ELSE p
    <3>1. PathStep(steps, p, n + 1)' =
            IF p.done = Len(steps) THEN [p EXCEPT !.done = 0] ELSE p
      BY <1>1, <2>1, PathStepKeeps
    <3> QED BY <1>4, <3>1
  <2>3. SequenceMatch(end.sequences, steps, p)
    BY <1>2, <1>8 DEF SequencesTold
  <2>4. Len(steps) \in Nat /\ Len(steps) # 0
    <3>1. PICK k \in 1 .. Len(list) : list[k].kind = "sequence" /\ list[k].steps = steps
      BY DEF HasSteps
    <3>2. list[k] \in SequenceBinding /\ Len(list[k].steps) > 1
      BY <3>1, ListKnown DEF Known
    <3>3. steps \in Seq(SUBSET KeySpec) /\ Len(steps) > 1
      BY <3>1, <3>2 DEF SequenceBinding
    <3> QED BY <3>3
  <2>5. SequenceMatch(end.sequences, steps, q) /\ q.done # Len(steps)
    BY <2>2, <2>3, <2>4, PathRests
  <2> QED BY <1>3, <1>8, <2>5
<1> QED BY <1>7, <1>8

(* What the log holds due, attempt by attempt.                                *)
FileKeys == {file[j].keys : j \in {j \in DOMAIN file : file[j].kind = "chord"}}

DueRule ==
    \A m : m \in Nat => \A x : x \in ChordsDue(m + 1) <=>
        \E keys \in FileKeys : \E r \in ClosedBy(keys, m) :
            For("chord", keys, m + 1) # {} /\ x = AttemptAt(keys, r).name

(* The attempts that the last key-down closed are those that are due.         *)
LEMMA DueByAttempts == DueRule
<1> SUFFICES ASSUME NEW m \in Nat, NEW x
             PROVE  x \in ChordsDue(m + 1) <=>
                      \E keys \in FileKeys : \E r \in ClosedBy(keys, m) :
                         For("chord", keys, m + 1) # {} /\ x = AttemptAt(keys, r).name
  BY DEF DueRule
<1> DEFINE Closes(keys, r) ==
             /\ r \in Opens(keys) /\ For("chord", keys, m + 1) # {}
             /\ log[m + 1].at < log[r].at + BindingOf("chord", keys, r).term
             /\ Covered(keys, r, m + 1) /\ ~Covered(keys, r, m)
<1>1. m + 1 - 1 = m
  OBVIOUS
<1>2. ChordsDue(m + 1) =
        {BindingOf("chord", p[1], p[2]).name : p \in
           {q \in FileKeys \X (1 .. m) : Closes(q[1], q[2])}}
  BY <1>1 DEF ChordsDue, FileKeys
<1>3. \A keys, r : AttemptAt(keys, r).name = BindingOf("chord", keys, r).name
  BY DEF AttemptAt
<1>4. \A keys, r : r \in ClosedBy(keys, m) /\ For("chord", keys, m + 1) # {}
                   <=> r \in 1 .. m /\ Closes(keys, r)
  BY DEF ClosedBy, Ends
<1> HIDE DEF Closes
<1>5. ASSUME x \in ChordsDue(m + 1)
      PROVE  \E keys \in FileKeys : \E r \in ClosedBy(keys, m) :
                 For("chord", keys, m + 1) # {} /\ x = AttemptAt(keys, r).name
  <2>1. PICK p \in FileKeys \X (1 .. m) :
           Closes(p[1], p[2]) /\ x = BindingOf("chord", p[1], p[2]).name
    BY <1>2, <1>5
  <2>2. p[1] \in FileKeys /\ p[2] \in 1 .. m
    OBVIOUS
  <2> QED BY <1>3, <1>4, <2>1, <2>2
<1>6. ASSUME NEW keys \in FileKeys, NEW r \in ClosedBy(keys, m),
             For("chord", keys, m + 1) # {}, x = AttemptAt(keys, r).name
      PROVE  x \in ChordsDue(m + 1)
  <2>1. r \in 1 .. m /\ Closes(keys, r)
    BY <1>4, <1>6
  <2>2. PICK p : p = <<keys, r>>
    OBVIOUS
  <2>3. p \in FileKeys \X (1 .. m) /\ p[1] = keys /\ p[2] = r
    BY <2>1, <2>2
  <2> QED BY <1>2, <1>3, <1>6, <2>1, <2>3
<1> QED BY <1>5, <1>6

(* An attempt ends at a number.                                               *)
LEMMA EndsKnown ==
    ASSUME ListInv, LogInv, NEW keys
    PROVE  \A r \in Opens(keys) : Ends(keys, r) \in Nat
<1> TAKE r \in Opens(keys)
<1>1. Len(log) \in Nat /\ \A i \in 1 .. Len(log) : log[i].at \in Nat
  <2>1. log \in Seq(LogEntry)
    BY DEF LogInv
  <2>2. Len(log) \in Nat /\ \A i \in 1 .. Len(log) : log[i] \in LogEntry
    BY <2>1
  <2> QED BY <2>2 DEF LogEntry
<1>2. r \in 1 .. Len(log) /\ Opening(keys, r)
  BY <1>1, OpensByRule DEF OpensRule
<1>3. PICK j : j \in For("chord", keys, r) /\ BindingOf("chord", keys, r) = file[j]
  BY <1>2 DEF Opening, BindingOf
<1>4. file[j] \in ChordBinding
  BY <1>3, FileKnown DEF For, ListInv, Known
<1>5. BindingOf("chord", keys, r).term \in Nat
  BY <1>3, <1>4 DEF ChordBinding
<1> QED BY <1>1, <1>2, <1>5 DEF Ends

(* What the log tells of the chord of these keys, once the key-down is logged.*)
ChordGone(end, n, vk, holds, keys) ==
    /\ AttemptsIn(end.chords, keys) = Running(keys)'
    /\ For("chord", keys, n + 1)' # {} =>
          \E i \in TakenChords(Len(list), vk, holds) :
             /\ list[i].keys = keys
             /\ {AttemptAt(keys, r)'.name : r \in ClosedBy(keys, n)'}
                   = Finished(list[i], Running(keys), vk)
    /\ \A i \in TakenChords(Len(list), vk, holds) :
          list[i].keys = keys => For("chord", keys, n + 1)' # {}

(* The attempts of the longer log are those that the scan has left.           *)
LEMMA ChordsGo ==
    ASSUME ListInv, LogInv, NoneShared, now \in Nat, NEW n, NEW vk \in Code,
           NEW holds \in Views, Logged(n, vk, holds),
           NEW end, ChordsTold(end, Len(list), vk, holds)
    PROVE  \A keys : HasKeys(keys) => ChordGone(end, n, vk, holds, keys)
<1> SUFFICES ASSUME NEW keys, HasKeys(keys) PROVE ChordGone(end, n, vk, holds, keys)
  OBVIOUS
<1>1. /\ n \in Nat /\ Longer(n) /\ Len(log') = n + 1 /\ now' = now
      /\ file' = file /\ generation' = generation
      /\ log'[n + 1].vk = vk /\ log'[n + 1].at = now
      /\ log'[n + 1].holds = holds /\ log'[n + 1].era = generation
  BY DEF Logged, Longer
<1>2. \A i : i \in TakenChords(Len(list), vk, holds) /\ list[i].keys = keys
         <=> i \in Takers("chord", keys, vk, holds)
  BY DEF TakenChords, Takers, IsTaker
<1>3. /\ For("chord", keys, n + 1)' = {} <=> Takers("chord", keys, vk, holds) = {}
      /\ \A i \in Takers("chord", keys, vk, holds) :
            BindingOf("chord", keys, n + 1)' = list[i]
  <2>1. /\ ListInv /\ NoneShared /\ holds \in Views
        /\ "chord" \in {"chord", "sequence"}
    OBVIOUS
  <2> QED BY ONLY <1>1, <2>1, ForTells, SMTT(30)
<1>4. \A r \in Opens(keys) : Ends(keys, r) \in Nat
  BY EndsKnown
<1>5. PICK A : A = Running(keys)
  OBVIOUS
<1>6. PICK b : b = BindingOf("chord", keys, n + 1)'
  OBVIOUS
<1>7. /\ For("chord", keys, n + 1)' = {} => Running(keys)' = A /\ ClosedBy(keys, n)' = {}
      /\ /\ For("chord", keys, n + 1)' # {} /\ b.keys = keys /\ b.term \in Nat
         /\ \E spec \in keys : vk \notin spec
         => /\ Running(keys)' = Still(b, A, vk)
            /\ {AttemptAt(keys, r)'.name : r \in ClosedBy(keys, n)'} = Finished(b, A, vk)
  <2>1. now \in Nat
    OBVIOUS
  <2> QED BY ONLY <1>1, <1>4, <1>5, <1>6, <2>1, RunningGrows, SMTT(30)
<1>8. CASE Takers("chord", keys, vk, holds) = {}
  <2>1. AttemptsIn(end.chords, keys) = A
    BY <1>2, <1>5, <1>8 DEF ChordsTold
  <2> QED BY <1>2, <1>3, <1>7, <1>8, <2>1 DEF ChordGone
<1>9. ASSUME NEW i \in Takers("chord", keys, vk, holds)
      PROVE  /\ AttemptsIn(end.chords, keys) = Running(keys)'
             /\ For("chord", keys, n + 1)' # {}
             /\ {AttemptAt(keys, r)'.name : r \in ClosedBy(keys, n)'}
                   = Finished(list[i], Running(keys), vk)
  <2>1. i \in TakenChords(Len(list), vk, holds) /\ list[i].keys = keys /\ i \in 1 .. Len(list)
        /\ list[i].kind = "chord"
    BY <1>2 DEF Takers, IsTaker
  <2>2. b = list[i] /\ For("chord", keys, n + 1)' # {}
    BY <1>3, <1>6, <1>9
  <2>3. b \in ChordBinding /\ b.term \in Nat /\ b.keys = keys
    BY <2>1, <2>2, ListKnown DEF Known, ChordBinding
  <2>4. \E spec \in keys : vk \notin spec
    <3>1. PICK j \in DOMAIN file : list[i] = file[j]
      <4>1. PICK at : Order(at, Len(list))
        BY ListKnown DEF Order
      <4>2. DOMAIN file = 1 .. Len(list)
        BY ListKnown, FileKnown DEF ListInv
      <4> QED BY <2>1, <4>1, <4>2 DEF Order
    <3>2. file \in Files
      BY DEF ListInv
    <3> QED BY <2>1, <3>1, <3>2, FilesAssumption
  <2>5. /\ Running(keys)' = Still(b, A, vk)
        /\ {AttemptAt(keys, r)'.name : r \in ClosedBy(keys, n)'} = Finished(b, A, vk)
    BY <1>7, <2>2, <2>3, <2>4
  <2>6. AttemptsIn(end.chords, keys) = Still(b, A, vk)
    BY <1>5, <2>1, <2>2 DEF ChordsTold
  <2>7. Finished(list[i], Running(keys), vk) = Finished(b, A, vk)
    BY <1>5, <2>2
  <2> QED BY <2>2, <2>5, <2>6, <2>7
<1>10. CASE Takers("chord", keys, vk, holds) # {}
  BY <1>2, <1>9, <1>10 DEF ChordGone
<1> QED BY <1>8, <1>10

(* While no key-down is logged the attempts stay, until they expire; so it    *)
(* does not matter when the table drops the expired ones.                     *)
Unfed ==
    /\ log' = log /\ file' = file /\ list' = list /\ generation' = generation
    /\ now' \in Nat /\ now <= now'
    /\ {e \in sequences' : e.due > now'} = {e \in sequences : e.due > now'}
    /\ {e \in chords' : e.due > now'} = {e \in chords : e.due > now'}

(* What is known of the entries of the log.                                   *)
LEMMA LogKnown ==
    ASSUME LogInv
    PROVE  /\ Len(log) \in Nat /\ log \in Seq(LogEntry)
           /\ \A i \in 1 .. Len(log) : log[i] \in LogEntry
<1>1. log \in Seq(LogEntry)
  BY DEF LogInv
<1> QED BY <1>1

(* The attempts stay as they are.                                             *)
LEMMA AttemptsStay ==
    ASSUME BindInv, LogInv, AttemptsKept, Unfed
    PROVE  AttemptsKept'
<1>1. PICK n : n = Len(log)
  OBVIOUS
<1>2. n \in Nat /\ Len(log) = n /\ Len(log') = n /\ Longer(n)
  <2>1. n \in Nat /\ Len(log) = n
    BY <1>1, LogKnown
  <2>2. n \in n .. n + 1
    BY <2>1
  <2> QED BY <2>1, <2>2 DEF Unfed, Longer
<1>3. /\ now \in Nat /\ now' \in Nat /\ now <= now' /\ ListInv
      /\ \A e \in sequences : e.due \in Nat
      /\ \A e \in chords : e.due \in Nat
  BY BindingsAssumption DEF BindInv, TypeOK, Unfed, PendingSequence, PendingChord
<1>4. ASSUME NEW steps, HasSteps(steps) PROVE SequenceMatch(sequences, steps, Path(steps))'
  <2>1. PICK p : p = Path(steps)
    OBVIOUS
  <2>2. SequenceMatch(sequences, steps, p)
    BY <1>4, <2>1 DEF AttemptsKept
  <2>3. Path(steps)' = p
    <3>1. /\ Len(log') \in n .. n + 1 /\ \A i \in 1 .. n : log'[i] = log[i]
          /\ file' = file /\ generation' = generation
      BY <1>2 DEF Longer
    <3> QED BY <1>2, <2>1, <3>1, PathGrows
  <2>4. IsPath(p) /\ p.until \in Nat
    BY <2>2 DEF SequenceMatch, IsPath
  <2>5. \A e \in sequences' : e.due > now' /\ e.steps = steps =>
           0 < p.done /\ p.done < Len(steps) /\ now' < p.until /\ OfPath(e, steps, p)
    <3> TAKE e \in sequences'
    <3>1. HAVE e.due > now' /\ e.steps = steps
    <3>2. e \in sequences
      BY <3>1 DEF Unfed
    <3>3. e \in Unexpired(sequences)
      BY <1>3, <3>1, <3>2 DEF Unexpired
    <3>4. OnPath(steps, p) /\ OfPath(e, steps, p)
      BY <2>2, <3>1, <3>3 DEF SequenceMatch
    <3> QED BY <1>3, <3>1, <3>4 DEF OnPath, OfPath
  <2>6. 0 < p.done /\ p.done < Len(steps) /\ now' < p.until =>
           \E e \in sequences' : OfPath(e, steps, p)
    <3>1. HAVE 0 < p.done /\ p.done < Len(steps) /\ now' < p.until
    <3>2. OnPath(steps, p)
      BY <1>3, <2>4, <3>1 DEF OnPath
    <3>3. PICK e \in sequences : OfPath(e, steps, p)
      BY <2>2, <3>2 DEF SequenceMatch
    <3>4. e.due > now'
      BY <3>1, <3>3 DEF OfPath
    <3>5. e \in sequences'
      BY <3>4 DEF Unfed
    <3> QED BY <3>3, <3>5
  <2> QED BY <2>3, <2>4, <2>5, <2>6 DEF SequenceMatch, IsPath, OnPath, OfPath, Unexpired
<1>5. ASSUME NEW keys, HasKeys(keys) PROVE AttemptsIn(chords, keys)' = Running(keys)'
  <2>1. Running(keys)' = {a \in Running(keys) : a.due > now'}
    BY <1>2, <1>3, EndsKnown, RunningStays
  <2>2. Running(keys) = AttemptsIn(chords, keys)
    BY <1>5 DEF AttemptsKept
  <2>3. AttemptsIn(chords, keys)' =
          {Attempt(e) : e \in {e \in {e \in chords' : e.due > now'} : e.keys = keys}}
    BY DEF AttemptsIn, Unexpired, Attempt
  <2>4. {a \in AttemptsIn(chords, keys) : a.due > now'} =
          {Attempt(e) : e \in {e \in {e \in chords : e.due > now'} : e.keys = keys}}
    <3>1. \A e : Attempt(e).due = e.due
      BY DEF Attempt
    <3>2. \A e \in chords : e.due > now' => e.due > now
      BY <1>3
    <3> QED BY <3>1, <3>2 DEF AttemptsIn, Unexpired
  <2> QED BY <2>1, <2>2, <2>3, <2>4 DEF Unfed
<1>6. \A steps : HasSteps(steps)' <=> HasSteps(steps)
  BY DEF HasSteps, Unfed
<1>7. \A keys : HasKeys(keys)' <=> HasKeys(keys)
  BY DEF HasKeys, Unfed
<1> QED BY <1>4, <1>5, <1>6, <1>7 DEF AttemptsKept

(* After a reload nothing in the log is for a chord or a sequence any more.   *)
FreshRule ==
    Len(log) \in Nat /\ (\A i \in 1 .. Len(log) : log[i].era # generation) =>
       /\ \A steps : Len(steps) # 0 => Path(steps) = NoPath
       /\ \A keys : Opens(keys) = {}

(* Old key-downs open nothing and lead nowhere.                               *)
LEMMA NothingOld == FreshRule
<1> SUFFICES ASSUME Len(log) \in Nat, \A i \in 1 .. Len(log) : log[i].era # generation
             PROVE  /\ \A steps : Len(steps) # 0 => Path(steps) = NoPath
                    /\ \A keys : Opens(keys) = {}
  BY DEF FreshRule
<1>1. \A i \in 1 .. Len(log) : \A kind, keys : For(kind, keys, i) = {}
  BY DEF For
<1>2. ASSUME NEW keys PROVE Opens(keys) = {}
  <2>1. \A i \in Opens(keys) : i \in 1 .. Len(log) /\ Opening(keys, i)
    BY OpensByRule DEF OpensRule
  <2> QED BY <1>1, <2>1 DEF Opening
<1>3. ASSUME NEW steps, Len(steps) # 0 PROVE Path(steps) = NoPath
  <2>1. PICK N : N = Len(log)
    OBVIOUS
  <2>2. PICK h : /\ h[0] = NoPath
                 /\ \A i \in 1 .. N : h[i] = PathStep(steps, h[i - 1], i)
                 /\ Path(steps) = h[N]
    BY <2>1, PathWalks DEF PathWalk
  <2>3. NoPath.done = 0
    BY DEF NoPath
  <2> DEFINE Rest == {i \in 0 .. N : h[i] = NoPath}
  <2>4. ASSUME NEW i \in 1 .. N, i - 1 \in Rest PROVE i \in Rest
    <3>1. h[i] = PathStep(steps, NoPath, i)
      BY <2>2, <2>4
    <3>2. PathStep(steps, NoPath, i) = NoPath
      <4>1. For("sequence", steps, i) = {}
        BY <1>1, <2>1
      <4>2. NoPath.done # Len(steps)
        BY <1>3, <2>3
      <4> QED BY <4>1, <4>2 DEF PathStep
    <3> QED BY <3>1, <3>2
  <2>5. N \in Rest
    <3>1. N \in Nat /\ 0 \in Rest
      BY <2>1, <2>2
    <3> HIDE DEF Rest
    <3>2. \A i \in 0 .. N : i \in Rest
      BY <2>4, <3>1, StepByStep
    <3> QED BY <3>1, <3>2
  <2> QED BY <2>2, <2>5
<1> QED BY <1>2, <1>3

-----------------------------------------------------------------------------
(* The invariant: the tables hold what the clock makes of the log, and no     *)
(* timer can end an attempt before its deadline.                              *)
Standing == [chords |-> chords, sequences |-> sequences, seq |-> seq, timers |-> {}]

NumInv == Numbers(Standing)

ClockInv == BindInv /\ LogInv /\ NumInv /\ AttemptsKept /\ ChordsByClock /\ SequencesByClock

(* What the numbers say of the tables.                                        *)
LEMMA NumMeans ==
    NumInv <=>
      /\ seq \in Nat
      /\ \A e \in chords \cup sequences : e.seq <= seq
      /\ \A t \in queue : t.seq <= seq /\ t.generation <= generation
      /\ \A t \in queue : t.generation = generation =>
            /\ t.slot = "chord" => \A e \in chords : e.seq = t.seq => e.due = t.due
            /\ t.slot = "sequence" => \A e \in sequences : e.seq = t.seq => e.due = t.due
  BY DEF NumInv, Numbers, Standing

(* They hold when nothing is added.                                           *)
LEMMA NumbersStay ==
    ASSUME NumInv, BindInv, queue' \subseteq queue, chords' \subseteq chords,
           sequences' \subseteq sequences, seq' = seq,
           generation' \in Nat, generation <= generation'
    PROVE  NumInv'
<1>1. /\ generation \in Nat
      /\ \A t \in queue : t.generation \in Nat
  BY BindingsAssumption DEF BindInv, TypeOK, Timer
<1>2. \A t \in queue : t.generation <= generation /\
         (t.generation = generation' => t.generation = generation)
  BY <1>1, NumMeans
<1>3. /\ seq' \in Nat
      /\ \A e \in chords' \cup sequences' : e.seq <= seq'
      /\ \A t \in queue' : t.seq <= seq' /\ t.generation <= generation'
      /\ \A t \in queue' : t.generation = generation' =>
            /\ t.slot = "chord" => \A e \in chords' : e.seq = t.seq => e.due = t.due
            /\ t.slot = "sequence" => \A e \in sequences' : e.seq = t.seq => e.due = t.due
  BY <1>1, <1>2, NumMeans
<1> QED BY <1>3 DEF NumInv, Numbers, Standing

(* So does the log.                                                           *)
LEMMA LogStays ==
    ASSUME LogInv, BindInv, log' = log, now' \in Nat, now <= now',
           generation' \in Nat, generation <= generation'
    PROVE  LogInv'
<1>1. /\ now \in Nat /\ generation \in Nat
      /\ \A i \in 1 .. Len(log) : log[i].at \in Nat /\ log[i].era \in Nat
  BY LogKnown, BindingsAssumption DEF BindInv, TypeOK, LogEntry
<1> QED BY <1>1 DEF LogInv

(* A step without a key-down keeps it all: a timer ends only what is over.    *)
LEMMA QuietClock ==
    ASSUME BindInv, LogInv, NumInv, AttemptsKept,
           (\E vk \in Code : KeyUp(vk)) \/ Refuse \/ Tick \/ OnTimer
    PROVE  LogInv' /\ NumInv' /\ AttemptsKept'
<1>1. /\ now \in Nat /\ generation \in Nat
      /\ \A e \in chords \cup sequences : e.due \in Nat
  BY BindingsAssumption DEF BindInv, TypeOK, PendingChord, PendingSequence
<1>2. /\ log' = log /\ file' = file /\ list' = list /\ generation' = generation
      /\ now' \in Nat /\ now <= now' /\ seq' = seq
      /\ queue' \subseteq queue /\ chords' \subseteq chords /\ sequences' \subseteq sequences
      /\ \A e \in chords : e \in chords' \/ e.due <= now
      /\ \A e \in sequences : e \in sequences' \/ e.due <= now
  <2>1. CASE (\E vk \in Code : KeyUp(vk)) \/ Refuse \/ Tick
    BY <1>1, <2>1 DEF KeyUp, Refuse, Tick, tables
  <2>2. CASE OnTimer
    <3>1. PICK t \in queue :
            /\ t.due <= now /\ queue' = queue \ {t}
            /\ chords' = IF t.slot = "chord" /\ t.generation = generation
                         THEN ExpireOf(chords, t.seq) ELSE chords
            /\ sequences' = IF t.slot = "sequence" /\ t.generation = generation
                            THEN ExpireOf(sequences, t.seq) ELSE sequences
      BY <2>2 DEF OnTimer
    <3>2. t.generation = generation =>
            /\ t.slot = "chord" => \A e \in chords : e.seq = t.seq => e.due = t.due
            /\ t.slot = "sequence" => \A e \in sequences : e.seq = t.seq => e.due = t.due
      BY <3>1, NumMeans
    <3>3. /\ chords' \subseteq chords /\ sequences' \subseteq sequences
          /\ \A e \in chords : e \in chords' \/ e.due <= now
          /\ \A e \in sequences : e \in sequences' \/ e.due <= now
      BY <3>1, <3>2 DEF ExpireOf
    <3> QED BY <1>1, <2>2, <3>1, <3>3 DEF OnTimer
  <2> QED BY <2>1, <2>2
<1>3. Unfed
  <2>1. /\ {e \in chords' : e.due > now'} = {e \in chords : e.due > now'}
        /\ {e \in sequences' : e.due > now'} = {e \in sequences : e.due > now'}
    BY <1>1, <1>2
  <2> QED BY <1>2, <2>1 DEF Unfed
<1>4. generation' \in Nat /\ generation <= generation'
  BY <1>1, <1>2
<1> QED BY <1>2, <1>3, <1>4, LogStays, NumbersStay, AttemptsStay

(* And a step that decides nothing fires nothing.                             *)
LEMMA NothingFires ==
    ASSUME decision' = Nothing
    PROVE  ChordsByClock' /\ SequencesByClock'
<1>1. decision'.fire = <<>> /\ decision'.fed = FALSE
  BY DEF Nothing
<1>2. \A kind : Fired(kind)' = {}
  BY <1>1 DEF Fired, ToSet
<1> QED BY <1>1, <1>2 DEF ChordsByClock, SequencesByClock

(* With nothing in the log of this era and nothing pending, all is kept.      *)
EmptyRule ==
    /\ ListInv /\ Len(log) \in Nat /\ \A i \in 1 .. Len(log) : log[i].era # generation
    /\ chords = {} /\ sequences = {}
    => AttemptsKept

(* The rule holds.                                                            *)
LEMMA EmptyKeeps == EmptyRule
<1> SUFFICES ASSUME ListInv, Len(log) \in Nat,
                    \A i \in 1 .. Len(log) : log[i].era # generation,
                    chords = {}, sequences = {}
             PROVE  AttemptsKept
  BY DEF EmptyRule
<1>1. /\ \A steps : Len(steps) # 0 => Path(steps) = NoPath
      /\ \A keys : Opens(keys) = {}
  BY NothingOld DEF FreshRule
<1>2. ASSUME NEW steps, HasSteps(steps) PROVE SequenceMatch(sequences, steps, Path(steps))
  <2>1. Len(steps) # 0
    <3>1. PICK k \in 1 .. Len(list) : list[k].kind = "sequence" /\ list[k].steps = steps
      BY <1>2 DEF HasSteps
    <3>2. Known(list[k])
      BY ListKnown
    <3> QED BY <3>1, <3>2 DEF Known
  <2>2. Path(steps) = NoPath
    BY <1>1, <2>1
  <2> QED BY <2>2 DEF SequenceMatch, NoPath, IsPath, OnPath, Unexpired
<1>3. ASSUME NEW keys PROVE AttemptsIn(chords, keys) = Running(keys)
  BY <1>1 DEF AttemptsIn, Unexpired, Running, Open
<1> QED BY <1>2, <1>3 DEF AttemptsKept

(* At the start the log is empty.                                             *)
LEMMA InitClock == Init => ClockInv
<1> SUFFICES ASSUME Init PROVE ClockInv
  OBVIOUS
<1>1. BindInv /\ ListInv /\ Len(log) = 0
  BY InitBind DEF Init, BindInv
<1>2. LogInv
  BY DEF Init, LogInv
<1>3. NumInv
  BY NumMeans DEF Init
<1>4. AttemptsKept
  BY <1>1, EmptyKeeps DEF EmptyRule, Init
<1>5. ChordsByClock /\ SequencesByClock
  <2>1. decision.fire = <<>> /\ decision.fed = FALSE
    BY DEF Init, Nothing
  <2>2. \A kind : Fired(kind) = {}
    BY <2>1 DEF Fired, ToSet
  <2> QED BY <2>1, <2>2 DEF ChordsByClock, SequencesByClock
<1> QED BY <1>1, <1>2, <1>3, <1>4, <1>5 DEF ClockInv

(* A reset takes every attempt, and makes the log and the timers old.         *)
LEMMA ResetClock ==
    ASSUME BindInv, LogInv, NumInv, Reset
    PROVE  LogInv' /\ NumInv' /\ AttemptsKept'
<1>1. /\ generation \in Nat /\ now \in Nat /\ MaxReset \in Nat
      /\ generation' = generation + 1 /\ log' = log /\ list' = list /\ file' = file
      /\ chords' = {} /\ sequences' = {} /\ now' = now /\ seq' = seq /\ queue' = queue
  BY BindingsAssumption DEF BindInv, TypeOK, Reset
<1>2. LogInv'
  <2>1. now' \in Nat /\ now <= now' /\ generation' \in Nat /\ generation <= generation'
    BY <1>1
  <2> QED BY <1>1, <2>1, LogStays
<1>3. NumInv'
  <2>1. /\ queue' \subseteq queue /\ chords' \subseteq chords /\ sequences' \subseteq sequences
        /\ generation' \in Nat /\ generation <= generation'
    BY <1>1
  <2> QED BY <1>1, <2>1, NumbersStay
<1>4. AttemptsKept'
  <2>1. ListInv' /\ Len(log') \in Nat
    BY <1>1, LogKnown DEF BindInv, ListInv
  <2>2. \A i \in 1 .. Len(log') : log'[i].era # generation'
    <3>1. \A i \in 1 .. Len(log) : log[i].era \in Nat /\ log[i].era <= generation
      BY LogKnown DEF LogInv, LogEntry
    <3> QED BY <1>1, <3>1
  <2>3. EmptyRule'
    BY EmptyKeeps, PTL
  <2> QED BY <1>1, <2>1, <2>2, <2>3 DEF EmptyRule
<1> QED BY <1>2, <1>3, <1>4

(* A step that changes nothing keeps it all.                                  *)
LEMMA SameClock ==
    ASSUME ClockInv, UNCHANGED vars
    PROVE  ClockInv'
<1>1. /\ file' = file /\ list' = list /\ now' = now /\ chords' = chords
      /\ sequences' = sequences /\ seq' = seq /\ generation' = generation
      /\ queue' = queue /\ log' = log /\ decision' = decision
  BY DEF vars, tables
<1>2. /\ BindInv /\ LogInv /\ NumInv /\ AttemptsKept /\ ChordsByClock /\ SequencesByClock
      /\ now \in Nat /\ generation \in Nat
  BY BindingsAssumption DEF ClockInv, BindInv, TypeOK
<1>3. LogInv' /\ NumInv' /\ AttemptsKept'
  <2>1. now' \in Nat /\ now <= now' /\ generation' \in Nat /\ generation <= generation'
    BY <1>1, <1>2
  <2>2. Unfed
    BY <1>1, <2>1 DEF Unfed
  <2> QED BY <1>1, <1>2, <2>1, <2>2, LogStays, NumbersStay, AttemptsStay
<1>4. PICK n : n = Len(log)
  OBVIOUS
<1>5. n \in Nat /\ Len(log) = n /\ Len(log') = n /\ Longer(n)
  <2>1. n \in Nat /\ Len(log) = n
    BY <1>2, <1>4, LogKnown
  <2>2. n \in n .. n + 1
    BY <2>1
  <2> QED BY <1>1, <2>1, <2>2 DEF Longer
<1>6. \A kind : Fired(kind)' = Fired(kind)
  BY <1>1 DEF Fired
<1>7. SequencesByClock'
  <2>1. ASSUME NEW steps PROVE Path(steps)' = Path(steps)
    <3>1. PICK p : p = Path(steps)
      OBVIOUS
    <3>2. Path(steps)' = p
      <4>1. /\ n \in Nat /\ Len(log) = n /\ Len(log') = n /\ Len(log') \in n .. n + 1
            /\ \A i \in 1 .. n : log'[i] = log[i]
            /\ file' = file /\ generation' = generation
        BY <1>5 DEF Longer
      <4> QED BY ONLY <3>1, <4>1, PathGrows
    <3> QED BY <3>1, <3>2
  <2> QED BY <1>1, <1>2, <1>6, <2>1 DEF SequencesByClock
<1>8. ChordsByClock'
  <2>1. \A keys : Opens(keys)' = Opens(keys)
    <3> TAKE keys
    <3>1. /\ \A r \in 1 .. n : r \in Opens(keys)' <=> r \in Opens(keys)
          /\ Opens(keys) \subseteq 1 .. n
          /\ Opens(keys)' \subseteq 1 .. Len(log')
      BY <1>5, PastStays
    <3> QED BY <1>5, <3>1
  <2>2. \A kind, keys, i : For(kind, keys, i)' = For(kind, keys, i)
    BY <1>1 DEF For
  <2>3. \A kind, keys, i : BindingOf(kind, keys, i)' = BindingOf(kind, keys, i)
    BY <1>1, <2>2 DEF BindingOf
  <2>4. \A keys, from, to : Covered(keys, from, to)' <=> Covered(keys, from, to)
    BY <1>1, <2>2 DEF Covered
  <2>5. ChordsDue(Len(log))' = ChordsDue(Len(log))
    <3> DEFINE Due(q) ==
                 /\ q[2] \in Opens(q[1]) /\ For("chord", q[1], n) # {}
                 /\ log[n].at < log[q[2]].at + BindingOf("chord", q[1], q[2]).term
                 /\ Covered(q[1], q[2], n) /\ ~Covered(q[1], q[2], n - 1)
    <3>1. ChordsDue(Len(log)) =
            {BindingOf("chord", p[1], p[2]).name : p \in
               {q \in FileKeys \X (1 .. n - 1) : Due(q)}}
      BY <1>4 DEF ChordsDue, FileKeys
    <3>2. ChordsDue(Len(log))' =
            {BindingOf("chord", p[1], p[2])'.name : p \in
               {q \in FileKeys' \X (1 .. n - 1) : Due(q)'}}
      BY <1>5 DEF ChordsDue, FileKeys
    <3>3. \A q : Due(q)' <=> Due(q)
      BY <1>1, <2>1, <2>2, <2>3, <2>4
    <3>4. FileKeys' = FileKeys
      BY <1>1 DEF FileKeys
    <3> HIDE DEF Due
    <3> QED BY <2>3, <3>1, <3>2, <3>3, <3>4
  <2> QED BY <1>1, <1>2, <1>6, <2>5 DEF ChordsByClock
<1>9. BindInv'
  BY <1>2, OtherBind
<1> QED BY <1>3, <1>7, <1>8, <1>9 DEF ClockInv

-----------------------------------------------------------------------------
(* Where a key-down's step ends.                                              *)
DownEnds(vk, holds, repeat, end) ==
    /\ repeat \in BOOLEAN
    /\ active' \subseteq Code
    /\ \E start : Told(start, end, Len(list), vk, holds, repeat)
                  /\ start.chords = chords /\ start.sequences = sequences
    /\ chords' = end.chords /\ sequences' = end.sequences /\ seq' = end.seq
    /\ queue' \subseteq queue \cup end.timers
    /\ decision'.fire = end.fire
    /\ file' = file /\ list' = list /\ now' = now /\ generation' = generation
    /\ decision'.fed = (~repeat /\ IsFed(vk, holds))
    /\ log' = IF ~repeat /\ IsFed(vk, holds)
              THEN Append(log, [vk |-> vk, at |-> now, held |-> active',
                                holds |-> holds, era |-> generation])
              ELSE log

(* A key-down ends there.                                                     *)
LEMMA DownTells ==
    ASSUME ClockInv, NoneShared, NEW vk \in Code, NEW holds \in Views, KeyDown(vk, holds)
    PROVE  \E repeat, end : DownEnds(vk, holds, repeat, end)
<1>1. /\ BindInv /\ ListInv /\ NumInv /\ AttemptsKept
      /\ now \in Nat /\ generation \in 0 .. MaxReset /\ queue \subseteq Timer
      /\ active \subseteq Code
  BY BindingsAssumption DEF ClockInv, BindInv, TypeOK
<1>2. PICK repeat, won, group, start, end, lost :
        DownIs(vk, holds, repeat, won, group, start, end, lost)
  BY <1>1, DownDoes
<1>3. /\ repeat \in BOOLEAN /\ ScanInv(start) /\ start = DownStart(group)
      /\ end = Scan(start, won, vk, holds, repeat)
      /\ Does(vk, holds, repeat, won, group, end, lost)
      /\ decision'.fed = (~repeat /\ IsFed(vk, holds))
      /\ log' = IF ~repeat /\ IsFed(vk, holds)
                THEN Append(log, [vk |-> vk, at |-> now, held |-> active',
                                  holds |-> holds, era |-> generation])
                ELSE log
  BY <1>2 DEF DownIs
<1>4. start.chords = chords /\ start.sequences = sequences /\ start.fire = <<>>
      /\ start.seq = seq /\ start.timers = {}
  BY <1>3 DEF DownStart
<1>5. Numbers(start)
  BY <1>1, <1>4 DEF NumInv, Numbers, Standing
<1>6. Told(start, end, Len(list), vk, holds, repeat)
  <2>1. /\ ListInv /\ NoneShared /\ now \in Nat /\ generation \in 0 .. MaxReset
        /\ queue \subseteq Timer /\ AttemptsKept /\ vk \in Code /\ holds \in Views
        /\ repeat \in BOOLEAN /\ ScanInv(start) /\ Numbers(start)
        /\ start.chords = chords /\ start.sequences = sequences /\ start.fire = <<>>
        /\ end = Scan(start, won, vk, holds, repeat)
    BY <1>1, <1>3, <1>4, <1>5
  <2> QED BY ONLY <2>1, ScanTells
<1>7. /\ active' \subseteq Code /\ chords' = end.chords /\ sequences' = end.sequences
      /\ seq' = end.seq /\ decision'.fire = end.fire
      /\ file' = file /\ list' = list /\ now' = now /\ generation' = generation
      /\ queue' = Started(end.timers, lost)
  BY <1>1, <1>3 DEF Does
<1>8. queue' \subseteq queue \cup end.timers
  BY <1>7 DEF Started
<1> QED BY <1>3, <1>4, <1>6, <1>7, <1>8 DEF DownEnds

(* It keeps the numbers and the log.                                          *)
LEMMA DownNumbers ==
    ASSUME NEW vk, NEW holds, NEW repeat, NEW end, DownEnds(vk, holds, repeat, end)
    PROVE  NumInv'
<1>1. /\ Numbers(end)
      /\ chords' = end.chords /\ sequences' = end.sequences /\ seq' = end.seq
      /\ queue' \subseteq queue \cup end.timers /\ generation' = generation
  BY DEF DownEnds, Told
<1> QED BY <1>1 DEF NumInv, Numbers, Standing

(* And the log.                                                               *)
LEMMA DownLogs ==
    ASSUME BindInv, LogInv, NEW vk \in Code, NEW holds \in Views,
           NEW repeat, NEW end, DownEnds(vk, holds, repeat, end)
    PROVE  LogInv'
<1>1. /\ now \in Nat /\ generation \in Nat /\ now' = now /\ generation' = generation
      /\ active' \subseteq Code
  BY BindingsAssumption DEF BindInv, TypeOK, DownEnds
<1>2. CASE log' = log
  <2>1. now' \in Nat /\ now <= now' /\ generation' \in Nat /\ generation <= generation'
    BY <1>1
  <2> QED BY <1>2, <2>1, LogStays
<1>3. ASSUME NEW entry, entry = [vk |-> vk, at |-> now, held |-> active',
                                 holds |-> holds, era |-> generation],
             log' = Append(log, entry)
      PROVE  LogInv'
  <2>1. entry \in LogEntry /\ entry.at = now /\ entry.era = generation
    BY <1>1, <1>3 DEF LogEntry
  <2>2. PICK n : n = Len(log)
    OBVIOUS
  <2>3. /\ n \in Nat /\ Len(log) = n /\ log \in Seq(LogEntry)
        /\ \A i \in 1 .. n :
              log[i] \in LogEntry /\ log[i].at <= now /\ log[i].era <= generation
        /\ \A i, j \in 1 .. n : i <= j => log[i].at <= log[j].at
    BY <2>2, LogKnown DEF LogInv
  <2>4. /\ log' \in Seq(LogEntry) /\ Len(log') = n + 1 /\ log'[n + 1] = entry
        /\ \A i \in 1 .. n : log'[i] = log[i]
    BY <1>3, <2>1, <2>3
  <2>5. \A i \in 1 .. n + 1 : log'[i].at <= now /\ log'[i].era <= generation
    BY <1>1, <2>1, <2>3, <2>4
  <2>6. \A i, j \in 1 .. n + 1 : i <= j => log'[i].at <= log'[j].at
    <3> TAKE i, j \in 1 .. n + 1
    <3>1. HAVE i <= j
    <3>2. CASE j = n + 1
      BY <1>1, <2>1, <2>4, <2>5, <3>2
    <3>3. CASE j # n + 1
      <4>1. i \in 1 .. n /\ j \in 1 .. n
        BY <2>3, <3>1, <3>3
      <4> QED BY <2>3, <2>4, <3>1, <4>1
    <3> QED BY <3>2, <3>3
  <2> QED BY <1>1, <2>4, <2>5, <2>6 DEF LogInv
<1> QED BY <1>2, <1>3 DEF DownEnds

(* What it fires is what the scan has fired.                                  *)
LEMMA DownFires ==
    ASSUME NEW vk, NEW holds, NEW repeat, NEW end, DownEnds(vk, holds, repeat, end)
    PROVE  \A kind : Fired(kind)' = FiredOf(end, kind)
  BY DEF DownEnds, Fired, FiredOf, KindName

(* A key-down that nothing takes.                                             *)
LEMMA UnfedDown ==
    ASSUME BindInv, LogInv, AttemptsKept, NEW vk, NEW holds, NEW repeat, NEW end,
           DownEnds(vk, holds, repeat, end), repeat \/ ~IsFed(vk, holds)
    PROVE  AttemptsKept' /\ ChordsByClock' /\ SequencesByClock'
<1>1. PICK start : /\ Told(start, end, Len(list), vk, holds, repeat)
                   /\ start.chords = chords /\ start.sequences = sequences
  BY DEF DownEnds
<1>2. /\ file' = file /\ list' = list /\ now' = now /\ generation' = generation
      /\ log' = log /\ decision'.fed = FALSE
      /\ chords' = end.chords /\ sequences' = end.sequences /\ repeat \in BOOLEAN
  BY DEF DownEnds
<1>3. /\ now \in Nat /\ ListInv
  BY DEF BindInv, TypeOK
<1>4. /\ \A steps : HasSteps(steps) => SequenceMatch(end.sequences, steps, Path(steps))
      /\ \A keys : HasKeys(keys) => AttemptsIn(end.chords, keys) = Running(keys)
      /\ FiredOf(end, "chord") = {} /\ FiredOf(end, "sequence") = {}
  <2>1. CASE repeat
    BY <1>1, <2>1 DEF Told, AttemptsKept
  <2>2. CASE ~repeat
    <3>1. TakenSequences(Len(list), holds) = {} /\ TakenChords(Len(list), vk, holds) = {}
      <4>1. DOMAIN list = 1 .. Len(list)
        BY <1>3, ListKnown
      <4> QED BY <2>2, <4>1 DEF IsFed, TakenSequences, TakenChords
    <3>2. SequencesTold(end, Len(list), holds) /\ ChordsTold(end, Len(list), vk, holds)
      BY <1>1, <2>2 DEF Told
    <3> QED BY <3>1, <3>2 DEF SequencesTold, ChordsTold
  <2> QED BY <1>2, <2>1, <2>2
<1>5. PICK n : n = Len(log)
  OBVIOUS
<1>6. n \in Nat /\ Len(log) = n /\ Len(log') = n /\ Longer(n) /\ Len(log') \in n .. n + 1
      /\ \A i \in 1 .. n : log'[i] = log[i]
  <2>1. n \in Nat /\ Len(log) = n
    BY <1>5, LogKnown
  <2>2. n \in n .. n + 1
    BY <2>1
  <2> QED BY <1>2, <2>1, <2>2 DEF Longer
<1>7. ASSUME NEW steps, HasSteps(steps) PROVE SequenceMatch(sequences, steps, Path(steps))'
  <2>1. PICK p : p = Path(steps)
    OBVIOUS
  <2>2. SequenceMatch(end.sequences, steps, p)
    BY <1>4, <1>7, <2>1
  <2>3. Path(steps)' = p
    <3>1. /\ n \in Nat /\ Len(log) = n /\ Len(log') = n /\ Len(log') \in n .. n + 1
          /\ \A i \in 1 .. n : log'[i] = log[i]
          /\ file' = file /\ generation' = generation
      BY <1>2, <1>6
    <3> QED BY ONLY <2>1, <3>1, PathGrows
  <2> QED BY <1>2, <2>2, <2>3 DEF SequenceMatch, IsPath, OnPath, OfPath, Unexpired
<1>8. ASSUME NEW keys, HasKeys(keys) PROVE AttemptsIn(chords, keys)' = Running(keys)'
  <2>1. AttemptsIn(chords, keys)' = AttemptsIn(end.chords, keys)
    BY <1>2 DEF AttemptsIn, Attempt, Unexpired
  <2>2. Running(keys)' = {a \in Running(keys) : a.due > now'}
    <3>1. /\ Longer(n) /\ Len(log') = n /\ now \in Nat /\ now' \in Nat /\ now <= now'
          /\ \A r \in Opens(keys) : Ends(keys, r) \in Nat
      BY <1>2, <1>3, <1>6, EndsKnown
    <3> QED BY ONLY <3>1, RunningStays
  <2>3. \A a \in Running(keys) : a.due > now
    BY DEF Running, Open, AttemptAt
  <2>4. Running(keys)' = Running(keys)
    BY <1>2, <2>2, <2>3
  <2> QED BY <1>4, <1>8, <2>1, <2>4
<1>9. /\ \A steps : HasSteps(steps)' <=> HasSteps(steps)
      /\ \A keys : HasKeys(keys)' <=> HasKeys(keys)
  BY <1>2 DEF HasSteps, HasKeys
<1>10. AttemptsKept'
  BY <1>7, <1>8, <1>9 DEF AttemptsKept
<1>11. Fired("chord")' = {} /\ Fired("sequence")' = {}
  BY <1>4, DownFires
<1> QED BY <1>2, <1>10, <1>11 DEF ChordsByClock, SequencesByClock

(* What the file and the list have is the same.                               *)
LEMMA FileListed ==
    ASSUME ListInv
    PROVE  /\ \A keys : keys \in FileKeys <=> HasKeys(keys)
           /\ \A steps : HasSteps(steps) <=>
                 \E j \in DOMAIN file : file[j].kind = "sequence" /\ file[j].steps = steps
<1>1. PICK N : N = Len(list)
  OBVIOUS
<1>2. PICK at : Order(at, N)
  BY <1>1, ListKnown DEF Order
<1>3. DOMAIN file = 1 .. N
  BY <1>1, ListKnown, FileKnown DEF ListInv
<1>4. \A k \in 1 .. N : at[k] \in DOMAIN file /\ list[k] = file[at[k]]
  BY <1>2, <1>3 DEF Order
<1>5. \A j \in DOMAIN file : \E k \in 1 .. N : list[k] = file[j]
  <2> TAKE j \in DOMAIN file
  <2>1. PICK k \in 1 .. N : at[k] = j
    BY <1>2, <1>3 DEF Order
  <2> QED BY <1>4, <2>1
<1>6. ASSUME NEW keys PROVE keys \in FileKeys <=> HasKeys(keys)
  <2>1. ASSUME keys \in FileKeys PROVE HasKeys(keys)
    <3>1. PICK j \in DOMAIN file : file[j].kind = "chord" /\ file[j].keys = keys
      BY <2>1 DEF FileKeys
    <3>2. PICK k \in 1 .. N : list[k] = file[j]
      BY <1>5
    <3> QED BY <1>1, <3>1, <3>2 DEF HasKeys
  <2>2. ASSUME HasKeys(keys) PROVE keys \in FileKeys
    <3>1. PICK k \in 1 .. N : list[k].kind = "chord" /\ list[k].keys = keys
      BY <1>1, <2>2 DEF HasKeys
    <3> QED BY <1>4, <3>1 DEF FileKeys
  <2> QED BY <2>1, <2>2
<1>7. ASSUME NEW steps
      PROVE  HasSteps(steps) <=>
                \E j \in DOMAIN file : file[j].kind = "sequence" /\ file[j].steps = steps
  BY <1>1, <1>4, <1>5 DEF HasSteps
<1> QED BY <1>6, <1>7

(* Of the bindings that take a key-down, one is for these keys or steps.      *)
LEMMA TakersAlone ==
    ASSUME ListInv, NoneShared, NEW holds \in Views, NEW vk
    PROVE  \A i, j \in TakenSequences(Len(list), holds) :
              list[i].steps = list[j].steps => i = j
<1> SUFFICES ASSUME NEW i \in TakenSequences(Len(list), holds),
                    NEW j \in TakenSequences(Len(list), holds),
                    list[i].steps = list[j].steps
             PROVE  i = j
  OBVIOUS
<1>1. PICK steps : steps = list[i].steps
  OBVIOUS
<1>2. /\ i \in Takers("sequence", steps, vk, holds)
      /\ j \in Takers("sequence", steps, vk, holds)
  BY <1>1 DEF Takers, IsTaker, TakenSequences
<1>3. "sequence" \in {"chord", "sequence"}
  OBVIOUS
<1> QED BY <1>2, <1>3, OneTaker

(* A key-down that chords or sequences take: the log tells what it fires.     *)
LEMMA FedDown ==
    ASSUME BindInv, LogInv, NoneShared, NEW vk \in Code, NEW holds \in Views, NEW repeat,
           NEW end, DownEnds(vk, holds, repeat, end), ~repeat /\ IsFed(vk, holds)
    PROVE  AttemptsKept' /\ ChordsByClock' /\ SequencesByClock'
<1>1. SequencesTold(end, Len(list), holds) /\ ChordsTold(end, Len(list), vk, holds)
  BY DEF DownEnds, Told
<1>2. /\ file' = file /\ list' = list /\ now' = now /\ generation' = generation
      /\ log' = Append(log, [vk |-> vk, at |-> now, held |-> active',
                             holds |-> holds, era |-> generation])
      /\ decision'.fed = TRUE
      /\ chords' = end.chords /\ sequences' = end.sequences
  BY DEF DownEnds
<1>3. now \in Nat /\ ListInv
  BY DEF BindInv, TypeOK
<1>4. PICK n : n = Len(log)
  OBVIOUS
<1>5. n \in Nat /\ Len(log') = n + 1 /\ Logged(n, vk, holds)
  <2>1. PICK entry : entry = [vk |-> vk, at |-> now, held |-> active',
                              holds |-> holds, era |-> generation]
    OBVIOUS
  <2>2. /\ n \in Nat /\ Len(log) = n /\ log \in Seq(LogEntry)
    BY <1>4, LogKnown
  <2>3. /\ Len(log') = n + 1 /\ log'[n + 1] = entry
        /\ \A i \in 1 .. n : log'[i] = log[i]
    BY <1>2, <2>1, <2>2
  <2>4. n + 1 \in n .. n + 1
    BY <2>2
  <2> QED BY <1>2, <2>1, <2>2, <2>3, <2>4 DEF Logged, Longer
<1>6. \A steps : HasSteps(steps) =>
         \E q : /\ q = Path(steps)'
                /\ SequenceMatch(end.sequences, steps, q)
                /\ IF \E i \in TakenSequences(Len(list), holds) : list[i].steps = steps
                   THEN \E i \in TakenSequences(Len(list), holds) :
                           list[i].steps = steps /\ q = Moved(i)
                   ELSE q.done # Len(steps)
  <2>1. /\ ListInv /\ NoneShared /\ holds \in Views /\ Logged(n, vk, holds)
        /\ SequencesTold(end, Len(list), holds)
    BY <1>1, <1>3, <1>5
  <2> QED BY ONLY <2>1, SequencesGo
<1>a. \A keys : HasKeys(keys) => ChordGone(end, n, vk, holds, keys)
  <2>1. /\ ListInv /\ LogInv /\ NoneShared /\ now \in Nat /\ vk \in Code /\ holds \in Views
        /\ Logged(n, vk, holds) /\ ChordsTold(end, Len(list), vk, holds)
    BY <1>1, <1>3, <1>5
  <2> QED BY ONLY <2>1, ChordsGo
<1>7. \A keys : HasKeys(keys) =>
         /\ AttemptsIn(end.chords, keys) = Running(keys)'
         /\ For("chord", keys, n + 1)' # {} =>
               \E i \in TakenChords(Len(list), vk, holds) :
                  /\ list[i].keys = keys
                  /\ {AttemptAt(keys, r)'.name : r \in ClosedBy(keys, n)'}
                        = Finished(list[i], Running(keys), vk)
         /\ \A i \in TakenChords(Len(list), vk, holds) :
               list[i].keys = keys => For("chord", keys, n + 1)' # {}
  BY <1>a DEF ChordGone
<1>8. AttemptsKept'
  <2>1. ASSUME NEW steps, HasSteps(steps) PROVE SequenceMatch(sequences, steps, Path(steps))'
    <3>1. PICK q : q = Path(steps)' /\ SequenceMatch(end.sequences, steps, q)
      BY <1>6, <2>1
    <3> QED BY <1>2, <3>1 DEF SequenceMatch, IsPath, OnPath, OfPath, Unexpired
  <2>2. ASSUME NEW keys, HasKeys(keys) PROVE AttemptsIn(chords, keys)' = Running(keys)'
    <3>1. AttemptsIn(chords, keys)' = AttemptsIn(end.chords, keys)
      BY <1>2 DEF AttemptsIn, Attempt, Unexpired
    <3> QED BY <1>7, <2>2, <3>1
  <2>3. /\ \A steps : HasSteps(steps)' <=> HasSteps(steps)
        /\ \A keys : HasKeys(keys)' <=> HasKeys(keys)
    BY <1>2 DEF HasSteps, HasKeys
  <2> QED BY <2>1, <2>2, <2>3 DEF AttemptsKept
<1>9. \A kind : Fired(kind)' = FiredOf(end, kind)
  BY DownFires
<1>10. SequencesByClock'
  <2> DEFINE Done == {s \in {file[j].steps : j \in {j \in DOMAIN file :
                                file[j].kind = "sequence"}} : Path(s).done = Len(s)}
  <2>1. SequencesByClock' <=>
          Fired("sequence")' = {Path(steps)'.name : steps \in Done'}
    BY <1>2 DEF SequencesByClock
  <2>2. FiredOf(end, "sequence") =
          {Moved(j).name : j \in {i \in TakenSequences(Len(list), holds) : Arrives(i)}}
    BY <1>1 DEF SequencesTold
  <2>3. \A s : s \in Done' <=> HasSteps(s) /\ Path(s)'.done = Len(s)
    BY <1>2, <1>3, FileListed
  <2> HIDE DEF Done
  <2>4. ASSUME NEW j \in TakenSequences(Len(list), holds), Arrives(j)
        PROVE  \E steps \in Done' : Moved(j).name = Path(steps)'.name
    <3>1. PICK steps : steps = list[j].steps
      OBVIOUS
    <3>2. HasSteps(steps)
      BY <2>4, <3>1 DEF HasSteps, TakenSequences
    <3>3. PICK q : /\ q = Path(steps)'
                   /\ \E i \in TakenSequences(Len(list), holds) :
                         list[i].steps = steps /\ q = Moved(i)
      BY <1>6, <3>1, <3>2
    <3>4. q = Moved(j)
      BY <1>3, <3>1, <3>3, TakersAlone
    <3>5. q.done = Len(steps)
      BY <2>4, <3>1, <3>4 DEF Arrives
    <3> QED BY <2>3, <3>2, <3>3, <3>4, <3>5
  <2>5. ASSUME NEW steps \in Done'
        PROVE  \E j \in TakenSequences(Len(list), holds) :
                  Arrives(j) /\ Moved(j).name = Path(steps)'.name
    <3>1. HasSteps(steps) /\ Path(steps)'.done = Len(steps)
      BY <2>3
    <3>2. PICK i \in TakenSequences(Len(list), holds) :
             list[i].steps = steps /\ Path(steps)' = Moved(i)
      BY <1>6, <3>1
    <3>3. Arrives(i)
      BY <3>1, <3>2 DEF Arrives
    <3> QED BY <3>2, <3>3
  <2> QED BY <1>9, <2>1, <2>2, <2>4, <2>5
<1>11. ChordsByClock'
  <2>1. ChordsByClock' <=> Fired("chord")' = ChordsDue(n + 1)'
    <3>1. Len(log)' = n + 1
      BY <1>5
    <3>2. ChordsByClock' <=> Fired("chord")' = ChordsDue(Len(log))'
      BY <1>2 DEF ChordsByClock
    <3>3. ChordsDue(Len(log))' = ChordsDue(n + 1)'
      BY <3>1 DEF ChordsDue
    <3> QED BY <3>2, <3>3
  <2>2. FiredOf(end, "chord") =
          UNION {Finished(list[i], Running(list[i].keys), vk) :
                   i \in TakenChords(Len(list), vk, holds)}
    BY <1>1 DEF ChordsTold
  <2>3. \A x : x \in ChordsDue(n + 1)' <=>
          \E keys \in FileKeys' : \E r \in ClosedBy(keys, n)' :
             For("chord", keys, n + 1)' # {} /\ x = AttemptAt(keys, r)'.name
    <3>1. DueRule'
      BY DueByAttempts, PTL
    <3> QED BY <1>5, <3>1 DEF DueRule
  <2>4. \A keys : keys \in FileKeys' <=> HasKeys(keys)
    BY <1>2, <1>3, FileListed DEF FileKeys
  <2>5. ASSUME NEW i \in TakenChords(Len(list), vk, holds),
               NEW x \in Finished(list[i], Running(list[i].keys), vk)
        PROVE  x \in ChordsDue(n + 1)'
    <3>1. PICK keys : keys = list[i].keys
      OBVIOUS
    <3>2. HasKeys(keys)
      BY <3>1 DEF HasKeys, TakenChords
    <3>3. For("chord", keys, n + 1)' # {}
      BY <1>7, <3>1, <3>2
    <3>4. PICK k \in TakenChords(Len(list), vk, holds) :
             /\ list[k].keys = keys
             /\ {AttemptAt(keys, r)'.name : r \in ClosedBy(keys, n)'}
                   = Finished(list[k], Running(keys), vk)
      BY <1>7, <3>2, <3>3
    <3>5. x \in Finished(list[k], Running(keys), vk)
      BY <2>5, <3>1, <3>4 DEF Finished
    <3>6. \E r \in ClosedBy(keys, n)' : x = AttemptAt(keys, r)'.name
      BY <3>4, <3>5
    <3> QED BY <2>3, <2>4, <3>2, <3>3, <3>6
  <2>6. ASSUME NEW x \in ChordsDue(n + 1)'
        PROVE  \E i \in TakenChords(Len(list), vk, holds) :
                  x \in Finished(list[i], Running(list[i].keys), vk)
    <3>1. PICK keys \in FileKeys' : \E r \in ClosedBy(keys, n)' :
             For("chord", keys, n + 1)' # {} /\ x = AttemptAt(keys, r)'.name
      BY <2>3, <2>6
    <3>2. HasKeys(keys) /\ For("chord", keys, n + 1)' # {}
      BY <2>4, <3>1
    <3>3. PICK k \in TakenChords(Len(list), vk, holds) :
             /\ list[k].keys = keys
             /\ {AttemptAt(keys, r)'.name : r \in ClosedBy(keys, n)'}
                   = Finished(list[k], Running(keys), vk)
      BY <1>7, <3>2
    <3>4. x \in Finished(list[k], Running(keys), vk)
      BY <3>1, <3>3
    <3> QED BY <3>3, <3>4
  <2> QED BY <1>9, <2>1, <2>2, <2>5, <2>6
<1> QED BY <1>8, <1>10, <1>11

(* A key-down keeps the invariant.                                            *)
LEMMA DownClock ==
    ASSUME ClockInv, NoneShared, NEW vk \in Code, NEW holds \in Views, KeyDown(vk, holds)
    PROVE  ClockInv'
<1>1. BindInv /\ LogInv /\ AttemptsKept
  BY DEF ClockInv
<1>2. PICK repeat, end : DownEnds(vk, holds, repeat, end)
  BY DownTells
<1>3. BindInv'
  BY <1>1, DownAct DEF ActInv
<1>4. LogInv' /\ NumInv'
  BY <1>1, <1>2, DownLogs, DownNumbers
<1>5. CASE repeat \/ ~IsFed(vk, holds)
  BY <1>1, <1>2, <1>3, <1>4, <1>5, UnfedDown DEF ClockInv
<1>6. CASE ~(repeat \/ ~IsFed(vk, holds))
  <2>1. repeat \in BOOLEAN
    BY <1>2 DEF DownEnds
  <2>2. ~repeat /\ IsFed(vk, holds)
    BY <1>6, <2>1
  <2> QED BY <1>1, <1>2, <1>3, <1>4, <2>2, FedDown DEF ClockInv
<1> QED BY <1>5, <1>6

(* And so does every step.                                                    *)
LEMMA NextClock == NoneShared /\ ClockInv /\ [Next]_vars => ClockInv'
<1> SUFFICES ASSUME NoneShared, ClockInv, [Next]_vars PROVE ClockInv'
  OBVIOUS
<1>1. /\ BindInv /\ LogInv /\ NumInv /\ AttemptsKept /\ file \in Files
      /\ \A vk \in Sent[file] : vk \in Code
  <2>1. BindInv /\ LogInv /\ NumInv /\ AttemptsKept /\ file \in Files
    BY DEF ClockInv, BindInv, ListInv
  <2> QED BY <2>1, BindingsAssumption
<1>2. ASSUME NEW vk \in Sent[file], KeyUp(vk) PROVE ClockInv'
  <2>1. decision' = Nothing
    BY <1>2 DEF KeyUp
  <2>2. BindInv' /\ LogInv' /\ NumInv' /\ AttemptsKept'
    BY <1>1, <1>2, OtherBind, QuietClock
  <2> QED BY <2>1, <2>2, NothingFires DEF ClockInv
<1>3. ASSUME NEW vk \in Sent[file], NEW holds \in Views, KeyDown(vk, holds) PROVE ClockInv'
  BY <1>1, <1>3, DownClock
<1>4. CASE Refuse \/ Tick
  <2>1. decision' = Nothing
    BY <1>4 DEF Refuse, Tick
  <2>2. BindInv' /\ LogInv' /\ NumInv' /\ AttemptsKept'
    BY <1>1, <1>4, OtherBind, QuietClock
  <2> QED BY <2>1, <2>2, NothingFires DEF ClockInv
<1>5. CASE OnTimer
  <2>1. decision' = Nothing
    BY <1>5 DEF OnTimer
  <2>2. BindInv' /\ LogInv' /\ NumInv' /\ AttemptsKept'
    BY <1>1, <1>5, TimerBind, QuietClock
  <2> QED BY <2>1, <2>2, NothingFires DEF ClockInv
<1>6. CASE Reset
  <2>1. decision' = Nothing
    BY <1>6 DEF Reset
  <2>2. BindInv' /\ LogInv' /\ NumInv' /\ AttemptsKept'
    BY <1>1, <1>6, OtherBind, ResetClock
  <2> QED BY <2>1, <2>2, NothingFires DEF ClockInv
<1>7. CASE UNCHANGED vars
  BY <1>7, SameClock
<1> QED BY <1>2, <1>3, <1>4, <1>5, <1>6, <1>7 DEF Next

(* Hence it always holds.                                                     *)
LEMMA ClockAlways == ASSUME NoneShared PROVE Spec => []ClockInv
<1>1. ClockInv /\ [Next]_vars => ClockInv'
  BY NextClock
<1> QED BY <1>1, InitClock, PTL DEF Spec

(* Whatever its timers do, a chord fires when all its keys were pressed less  *)
(* than the term after the first, and only then (Chords::on_key_down and      *)
(* expire, Engine::on_timer), if no other chord of these keys is on with it.  *)
THEOREM ChordsKeepTime == ASSUME NoneShared PROVE Spec => []ChordsByClock
<1>1. ClockInv => ChordsByClock
  BY DEF ClockInv
<1> QED BY <1>1, ClockAlways, PTL

(* And a sequence when its steps came in order, each less than the term after *)
(* the one before (Sequences::on_key_down and expire, Engine::on_timer).      *)
THEOREM SequencesKeepTime == ASSUME NoneShared PROVE Spec => []SequencesByClock
<1>1. ClockInv => SequencesByClock
  BY DEF ClockInv
<1> QED BY <1>1, ClockAlways, PTL
-----------------------------------------------------------------------------
(* The config file.                                                           *)
CONSTANTS None, Texts, Garbled, Template, Hotkey, Times, Windows, MaxEdits
VARIABLES path, stage, disk, made, text, live, warned, edits, users, loaded

Conf == INSTANCE Loader WITH at <- stage

(* The loader counts as the proofs do.                                        *)
LEMMA ConfSets ==
    /\ \A S : Conf!Cardinality(S) = Cardinality(S)
    /\ \A S : Conf!IsFiniteSet(S) <=> IsFiniteSet(S)
<1>1. \A S : Conf!Cardinality(S) = Cardinality(S)
  BY DEF Conf!Cardinality, Cardinality
<1>2. \A S : Conf!IsFiniteSet(S) <=> IsFiniteSet(S)
  BY DEF Conf!IsFiniteSet, IsFiniteSet
<1> QED BY <1>1, <1>2

(* A combo matches a press by the same rule.                                  *)
LEMMA ConfMatches ==
    \A combo, vk, held, extra :
        Conf!ComboMatches(combo, vk, held, extra) = ComboMatches(combo, vk, held, extra)
BY Zenon DEF Conf!ComboMatches, ComboMatches, Conf!IsTriggerKey, IsTriggerKey,
    Conf!IsModifier, IsModifier, Conf!IsModifierOnly, IsModifierOnly, Conf!KeysDown, KeysDown,
    Conf!ModifiersHeld, ModifiersHeld, Conf!Modifiers, Modifiers

(* The loader's bindings are sorted and elected as the engine's are.          *)
LEMMA ConfElects ==
    /\ \A b : Conf!KeyCount(b) = KeyCount(b)
    /\ \A f : Conf!Sorted(f) = Sorted(f)
    /\ \A l, vk, held, holds : Conf!Elect(l, vk, held, holds) = Elect(l, vk, held, holds)
    /\ \A l, w, vk, held : Conf!DeferredGroup(l, w, vk, held) = DeferredGroup(l, w, vk, held)
<1>1. \A b : Conf!KeyCount(b) = KeyCount(b)
  BY ConfSets DEF Conf!KeyCount, KeyCount
<1>2. \A f : Conf!Sorted(f) = Sorted(f)
  BY Zenon DEF Conf!Sorted, Sorted, Conf!Place, Place, Conf!Before, Before, Conf!KeyCount,
     KeyCount, Conf!Cardinality, Cardinality
<1>3. \A l, vk, held, holds : Conf!Elect(l, vk, held, holds) = Elect(l, vk, held, holds)
  BY SMT DEF Conf!Elect, Elect, Conf!Candidate, Candidate, Conf!Matches, Matches,
     Conf!Outranks, Outranks, Conf!KeyCount, KeyCount, Conf!Cardinality, Cardinality,
     Conf!ComboMatches, ComboMatches, Conf!IsTriggerKey, IsTriggerKey, Conf!IsModifier,
     IsModifier, Conf!IsModifierOnly, IsModifierOnly, Conf!KeysDown, KeysDown,
     Conf!ModifiersHeld, ModifiersHeld, Conf!Modifiers, Modifiers
<1>4. \A l, w, vk, held : Conf!DeferredGroup(l, w, vk, held) = DeferredGroup(l, w, vk, held)
  <2>1. ASSUME NEW l, NEW w, NEW i, NEW vk, NEW held
        PROVE  Conf!Admits(l, w, i, vk, held) <=> Admits(l, w, i, vk, held)
    <3>1. Conf!Matches(l[i], vk, held) <=> Matches(l[i], vk, held)
      BY ConfMatches DEF Conf!Matches, Matches
    <3> QED BY <3>1 DEF Conf!Admits, Admits, Conf!Deferred, Deferred
  <2>2. ASSUME NEW l, NEW w, NEW i, NEW vk, NEW held
        PROVE  Conf!Claims(l, w, i, vk, held) <=> Claims(l, w, i, vk, held)
    BY <2>1 DEF Conf!Claims, Claims
  <2>3. ASSUME NEW l, NEW w, NEW vk, NEW held
        PROVE  Conf!DeferredGroup(l, w, vk, held) = DeferredGroup(l, w, vk, held)
    BY <2>2 DEF Conf!DeferredGroup, DeferredGroup, Conf!Deferred, Deferred
  <2> QED BY <2>3
<1> QED BY <1>1, <1>2, <1>3, <1>4

(* In a finite set that `under` orders, each element has its place.           *)
LEMMA PlacesOf ==
    ASSUME NEW D, IsFiniteSet(D), NEW under \in [D -> SUBSET D],
           \A j \in D : j \notin under[j],
           \A i, j \in D : i # j => i \in under[j] \/ j \in under[i],
           \A i, j, k \in D : i \in under[j] /\ j \in under[k] => i \in under[k],
           NEW place, DOMAIN place = D,
           \A j \in D : place[j] = 1 + Cardinality(under[j])
    PROVE  /\ Cardinality(D) \in Nat
           /\ \A j \in D : place[j] \in 1 .. Cardinality(D)
           /\ \A i, j \in D : place[i] = place[j] => i = j
           /\ \A n \in 1 .. Cardinality(D) : \E j \in D : place[j] = n
<1> DEFINE N == Cardinality(D)
           turn == [j \in D |-> place[j]]
<1>1. N \in Nat
  BY FS_CardinalityType
<1>2. ASSUME NEW j \in D
      PROVE  /\ IsFiniteSet(under[j]) /\ Cardinality(under[j]) \in Nat
             /\ Cardinality(under[j]) <= N - 1
  <2>1. under[j] \in SUBSET (D \ {j})
    OBVIOUS
  <2>2. IsFiniteSet(D \ {j}) /\ Cardinality(D \ {j}) = N - 1
    BY FS_RemoveElement
  <2> HIDE DEF N
  <2>3. IsFiniteSet(under[j]) /\ Cardinality(under[j]) <= N - 1
    BY <2>1, <2>2, FS_Subset
  <2> QED BY <2>3, FS_CardinalityType
<1>3. ASSUME NEW i \in D, NEW j \in D, i \in under[j]
      PROVE  Cardinality(under[i]) < Cardinality(under[j])
  <2>1. under[i] \in SUBSET (under[j] \ {i})
    BY <1>3
  <2>2. /\ IsFiniteSet(under[j] \ {i})
        /\ Cardinality(under[j] \ {i}) = Cardinality(under[j]) - 1
    BY <1>2, <1>3, FS_RemoveElement
  <2>3. Cardinality(under[i]) <= Cardinality(under[j]) - 1
    BY <2>1, <2>2, FS_Subset
  <2> QED BY <1>2, <2>3
<1> HIDE DEF N
<1>4. \A j \in D : place[j] \in 1 .. N
  BY <1>1, <1>2
<1>5. ASSUME NEW i \in D, NEW j \in D, place[i] = place[j] PROVE i = j
  <2>1. /\ place[i] = 1 + Cardinality(under[i]) /\ Cardinality(under[i]) \in Nat
        /\ place[j] = 1 + Cardinality(under[j]) /\ Cardinality(under[j]) \in Nat
    BY <1>2
  <2>2. 1 + Cardinality(under[i]) = 1 + Cardinality(under[j])
    BY <1>5, <2>1, Zenon
  <2>3. Cardinality(under[i]) = Cardinality(under[j])
    BY <2>1, <2>2
  <2>4. i \notin under[j] /\ j \notin under[i]
    BY <1>3, <2>1, <2>3
  <2> QED BY <2>4
<1>6. turn \in Surjection(D, 1 .. N)
  <2>1. turn \in Injection(D, 1 .. N)
    BY <1>4, <1>5 DEF Injection, IsInjective
  <2>2. IsFiniteSet(1 .. N) /\ Cardinality(1 .. N) = N
    BY <1>1, FS_Interval
  <2> QED BY <2>1, <2>2, FS_Injection DEF N
<1>7. \A n \in 1 .. N : \E j \in D : place[j] = n
  BY <1>6 DEF Surjection
<1> QED BY <1>1, <1>4, <1>5, <1>7 DEF N

(* An entry that is not rejected gives a binding of its kind, whose keys can  *)
(* be counted.                                                                *)
LEMMA EntryConverts ==
    ASSUME NEW e \in Conf!Entry, ~Conf!Rejected(e), NEW b, b = Conf!Converted(e)
    PROVE  /\ b.name = e.action /\ b.name \in DOMAIN Hotkey
           /\ b.when = e.when /\ b.original = e.original /\ b.blocker = "no"
           /\ b.original \in {"off", "swallow", "mask"}
           /\ b.kind \in {"combo", "chord", "sequence"}
           /\ b.kind = "combo" <=> e.keys # None
           /\ e.keys # None => b.keys = Conf!ToSet(e.keys)
           /\ b.kind = "chord" => /\ b.keys = Conf!ToSet(e.chord) /\ e.chord \in Seq(SUBSET Code)
                                  /\ ~Conf!Overlap(e.chord)
           /\ KeyCount(b) \in Nat
<1>1. /\ e.keys \in {None} \cup Seq(SUBSET Code) /\ e.chord \in {None} \cup Seq(SUBSET Code)
      /\ e.steps \in {None} \cup Seq(Seq(SUBSET Code))
      /\ e.action \in DOMAIN Hotkey \cup {Garbled}
      /\ e.original \in {"off", "swallow", "mask"}
  BY DEF Conf!Entry, Conf!Code, Code
<1>2. ~Conf!NoKind(e) /\ e.action # Garbled
  BY DEF Conf!Rejected
<1>3. /\ b.kind = IF e.keys # None THEN "combo" ELSE IF e.chord # None THEN "chord" ELSE "sequence"
      /\ b.keys = IF e.keys # None THEN Conf!ToSet(e.keys)
                  ELSE IF e.chord # None THEN Conf!ToSet(e.chord) ELSE {}
      /\ b.steps = IF e.steps = None THEN <<>> ELSE [i \in DOMAIN e.steps |-> Conf!ToSet(e.steps[i])]
      /\ b.name = e.action /\ b.when = e.when /\ b.original = e.original /\ b.blocker = "no"
  BY DEF Conf!Converted
<1>4. \A S : \A s \in Seq(S) : IsFiniteSet(Conf!ToSet(s))
  <2>1. ASSUME NEW S, NEW s \in Seq(S) PROVE IsFiniteSet(Conf!ToSet(s))
    <3>1. DOMAIN s = 1 .. Len(s) /\ Len(s) \in Nat
      OBVIOUS
    <3>2. IsFiniteSet(1 .. Len(s))
      BY <3>1, FS_Interval
    <3>3. s \in Surjection(1 .. Len(s), Conf!ToSet(s))
      BY <3>1 DEF Surjection, Conf!ToSet
    <3> QED BY <3>2, <3>3, FS_Surjection
  <2> QED BY <2>1
<1>5. KeyCount(b) \in Nat
  <2>1. CASE b.kind # "sequence"
    <3>1. IsFiniteSet(b.keys)
      BY <1>1, <1>3, <1>4, <2>1
    <3> QED BY <2>1, <3>1, FS_CardinalityType DEF KeyCount
  <2>2. CASE b.kind = "sequence"
    <3>1. e.steps = None \/ e.steps \in Seq(Seq(SUBSET Code))
      BY <1>1
    <3>2. Len(b.steps) \in Nat
      BY <1>3, <3>1
    <3> QED BY <2>2, <3>2 DEF KeyCount
  <2> QED BY <2>1, <2>2
<1>6. b.kind = "chord" => e.chord # None /\ e.keys = None /\ ~Conf!Overlap(e.chord)
  BY <1>2, <1>3 DEF Conf!NoKind
<1> QED BY <1>1, <1>2, <1>3, <1>5, <1>6

(* A request is the first one of its keys and mode, or there is one before.   *)
LEMMA FirstRequest ==
    ASSUME NEW l, NEW N \in Nat, DOMAIN l = 1 .. N, NEW i \in Conf!Requests(l)
    PROVE  /\ Conf!For(l, i) \subseteq 1 .. N /\ i \in Conf!For(l, i)
           /\ Conf!Min(Conf!For(l, i)) \in Nat
           /\ \E j \in Conf!Owners(l, i) : \A k \in Conf!Owners(l, i) : j <= k
<1>1. /\ Conf!For(l, i) \subseteq 1 .. N /\ i \in Conf!For(l, i)
      /\ i \in Conf!Owners(l, i) /\ Conf!Owners(l, i) \subseteq 1 .. N
  BY DEF Conf!For, Conf!Owners, Conf!Requests
<1>2. Conf!For(l, i) \subseteq Nat /\ Conf!Owners(l, i) \subseteq Nat
  BY <1>1
<1>3. Conf!Min(Conf!For(l, i)) \in Nat
  <2>1. \E x \in Conf!For(l, i) : \A y \in Conf!For(l, i) : x <= y
    BY <1>1, <1>2, LeastNumber
  <2>2. Conf!Min(Conf!For(l, i)) \in Conf!For(l, i)
    BY <2>1 DEF Conf!Min
  <2> QED BY <1>2, <2>2
<1> QED BY <1>1, <1>2, <1>3, LeastNumber

(* Each hotkey and mode that is asked for and not taken over has one lead.    *)
LEMMA OneLead ==
    ASSUME NEW l, NEW N \in Nat, DOMAIN l = 1 .. N
    PROVE  /\ Conf!Leads(l) \subseteq 1 .. N /\ Conf!Leads(l) \subseteq Conf!Requests(l)
           /\ \A i, j \in Conf!Leads(l) :
                 /\ Conf!HotkeyOf(l[i]) = Conf!HotkeyOf(l[j])
                 /\ Conf!Mode(l[i]) = Conf!Mode(l[j])
                 => i = j
           /\ \A i \in Conf!Requests(l) : ~Conf!TakenOver(l, Conf!HotkeyOf(l[i])) =>
                 \E j \in Conf!Leads(l) : /\ Conf!HotkeyOf(l[j]) = Conf!HotkeyOf(l[i])
                                          /\ Conf!Mode(l[j]) = Conf!Mode(l[i])
<1>1. Conf!Leads(l) \subseteq 1 .. N /\ Conf!Leads(l) \subseteq Conf!Requests(l)
  BY DEF Conf!Leads, Conf!Requests
<1>2. ASSUME NEW i \in Conf!Leads(l), NEW j \in Conf!Leads(l),
             Conf!HotkeyOf(l[i]) = Conf!HotkeyOf(l[j]), Conf!Mode(l[i]) = Conf!Mode(l[j])
      PROVE  i = j
  <2>1. i \in Conf!Owners(l, j) /\ j \in Conf!Owners(l, i)
    BY <1>1, <1>2 DEF Conf!Owners, Conf!For
  <2>2. i <= j /\ j <= i
    BY <2>1 DEF Conf!Leads
  <2>3. i \in Nat /\ j \in Nat
    BY <1>1
  <2> QED BY <2>2, <2>3
<1>3. ASSUME NEW i \in Conf!Requests(l), ~Conf!TakenOver(l, Conf!HotkeyOf(l[i]))
      PROVE  \E j \in Conf!Leads(l) : /\ Conf!HotkeyOf(l[j]) = Conf!HotkeyOf(l[i])
                                      /\ Conf!Mode(l[j]) = Conf!Mode(l[i])
  <2>1. PICK j \in Conf!Owners(l, i) : \A k \in Conf!Owners(l, i) : j <= k
    BY FirstRequest
  <2>2. /\ j \in Conf!Requests(l) /\ Conf!HotkeyOf(l[j]) = Conf!HotkeyOf(l[i])
        /\ Conf!Mode(l[j]) = Conf!Mode(l[i])
    BY <2>1 DEF Conf!Owners, Conf!For
  <2>3. Conf!Owners(l, j) = Conf!Owners(l, i)
    BY <2>2 DEF Conf!Owners, Conf!For
  <2>4. j \in Conf!Leads(l)
    BY <1>3, <2>1, <2>2, <2>3 DEF Conf!Leads
  <2> QED BY <2>2, <2>4
<1> QED BY <1>1, <1>2, <1>3

(* The blockers are those of the leads, each of which has its turn.           *)
LEMMA BlockersLed ==
    ASSUME NEW l, NEW N \in Nat, DOMAIN l = 1 .. N,
           NEW K, K = Cardinality(Conf!Leads(l))
    PROVE  /\ K \in Nat
           /\ Conf!Blockers(l) = [n \in 1 .. K |-> Conf!Blockers(l)[n]]
           /\ \E lead \in [1 .. K -> Conf!Leads(l)] :
                 /\ \A n \in 1 .. K : Conf!Blockers(l)[n] = Conf!Blocker(l, lead[n])
                 /\ \A m, n \in 1 .. K : lead[m] = lead[n] => m = n
                 /\ \A j \in Conf!Leads(l) : \E n \in 1 .. K : lead[n] = j
<1> DEFINE D == Conf!Leads(l)
           under == [j \in D |-> {i \in D : Conf!Ahead(l, i, j)}]
           place == [j \in D |-> Conf!Turn(l, j)]
           lead == [n \in 1 .. K |-> CHOOSE j \in D : Conf!Turn(l, j) = n]
<1>1. D \subseteq 1 .. N /\ D \subseteq Conf!Requests(l)
  BY OneLead
<1>2. IsFiniteSet(D)
  BY <1>1, FS_Interval, FS_Subset
<1>3. \A i, j \in D : i \in under[j] <=>
         LET first == Conf!Min(Conf!For(l, i))
             other == Conf!Min(Conf!For(l, j))
         IN  first < other \/ (first = other /\ i < j)
  BY DEF Conf!Ahead
<1>4. \A i \in D : Conf!Min(Conf!For(l, i)) \in Nat /\ i \in Nat
  BY <1>1, FirstRequest
<1>5. /\ under \in [D -> SUBSET D]
      /\ DOMAIN place = D
      /\ \A j \in D : place[j] = Conf!Turn(l, j)
  OBVIOUS
<1>6. \A j \in D : place[j] = 1 + Cardinality(under[j])
  BY ConfSets DEF Conf!Turn
<1>7. /\ K \in Nat /\ \A j \in D : place[j] \in 1 .. K
      /\ \A i, j \in D : place[i] = place[j] => i = j
      /\ \A n \in 1 .. K : \E j \in D : place[j] = n
  <2>1. K = Cardinality(D)
    OBVIOUS
  <2> HIDE DEF under, place, D
  <2>2. \A j \in D : j \notin under[j]
    BY <1>3, <1>4
  <2>3. \A i, j \in D : i # j => i \in under[j] \/ j \in under[i]
    BY <1>3, <1>4
  <2>4. \A i, j, k \in D : i \in under[j] /\ j \in under[k] => i \in under[k]
    BY <1>3, <1>4
  <2> QED BY <1>2, <1>5, <1>6, <2>1, <2>2, <2>3, <2>4, PlacesOf
<1> HIDE DEF place, under
<1>8. ASSUME NEW n \in 1 .. K PROVE lead[n] \in D /\ place[lead[n]] = n
  <2>1. \E j \in D : Conf!Turn(l, j) = n
    BY <1>5, <1>7
  <2>2. lead[n] = CHOOSE j \in D : Conf!Turn(l, j) = n
    OBVIOUS
  <2> HIDE DEF lead, D
  <2>3. lead[n] \in D /\ Conf!Turn(l, lead[n]) = n
    BY <2>1, <2>2
  <2> QED BY <1>5, <2>3
<1>9. Conf!Blockers(l) = [n \in 1 .. K |-> Conf!Blocker(l, lead[n])]
  BY ConfSets DEF Conf!Blockers
<1> HIDE DEF lead, D
<1>10. lead \in [1 .. K -> D]
  BY <1>8 DEF lead
<1>11. \A m, n \in 1 .. K : lead[m] = lead[n] => m = n
  BY <1>8
<1>12. ASSUME NEW j \in D PROVE \E n \in 1 .. K : lead[n] = j
  <2>1. place[j] \in 1 .. K
    BY <1>7
  <2>2. lead[place[j]] \in D /\ place[lead[place[j]]] = place[j]
    BY <1>8, <2>1
  <2> QED BY <1>7, <2>1, <2>2
<1>13. /\ Conf!Blockers(l) = [n \in 1 .. K |-> Conf!Blockers(l)[n]]
       /\ \A n \in 1 .. K : Conf!Blockers(l)[n] = Conf!Blocker(l, lead[n])
  BY <1>9
<1> QED BY <1>7, <1>10, <1>11, <1>12, <1>13 DEF D

(* What the file is loaded as, when it is.                                    *)
LoadedSo ==
    /\ loaded \in Seq(Conf!Entry) /\ Conf!Loads(loaded)
    /\ live = Conf!Bindings(loaded) /\ warned = Conf!Warned(Conf!UserBindings(loaded))

(* The bindings of the entries, and the numbers of entries and of blockers.   *)
Given == Conf!UserBindings(loaded)
Entries == Len(loaded)
Added == Cardinality(Conf!Leads(Given))

(* What is loaded: the entries' bindings, then the blockers of the leads.     *)
LEMMA LiveList ==
    ASSUME LoadedSo
    PROVE  /\ Entries \in Nat /\ Added \in Nat /\ DOMAIN loaded = 1 .. Entries
           /\ DOMAIN Given = 1 .. Entries
           /\ DOMAIN live = 1 .. Entries + Added /\ Len(live) = Entries + Added
           /\ \A i \in 1 .. Entries :
                 /\ loaded[i] \in Conf!Entry /\ ~Conf!Rejected(loaded[i])
                 /\ Given[i] = Conf!Converted(loaded[i]) /\ live[i] = Given[i]
           /\ \E lead \in [1 .. Added -> Conf!Leads(Given)] :
                 /\ \A n \in 1 .. Added : live[Entries + n] = Conf!Blocker(Given, lead[n])
                 /\ \A m, n \in 1 .. Added : lead[m] = lead[n] => m = n
                 /\ \A j \in Conf!Leads(Given) : \E n \in 1 .. Added : lead[n] = j
<1> DEFINE t == loaded
           U == Given
           N == Entries
           K == Added
           L == live
<1>0. /\ t \in Seq(Conf!Entry) /\ Conf!Loads(t) /\ L = Conf!Bindings(t)
      /\ U = Conf!UserBindings(t) /\ N = Len(t) /\ K = Cardinality(Conf!Leads(U))
  BY DEF LoadedSo, Given, Entries, Added
<1> HIDE DEF t, U, N, K, L
<1>1. N \in Nat /\ DOMAIN t = 1 .. N /\ \A i \in 1 .. N : t[i] \in Conf!Entry
  BY <1>0
<1>2. U = [i \in 1 .. N |-> Conf!Converted(t[i])]
  BY <1>0, <1>1 DEF Conf!UserBindings
<1>3. DOMAIN U = 1 .. N /\ \A i \in 1 .. N : U[i] = Conf!Converted(t[i])
  BY <1>2
<1> DEFINE B == Conf!Blockers(U)
<1>4. /\ K \in Nat /\ B = [n \in 1 .. K |-> B[n]]
      /\ \E lead \in [1 .. K -> Conf!Leads(U)] :
            /\ \A n \in 1 .. K : B[n] = Conf!Blocker(U, lead[n])
            /\ \A m, n \in 1 .. K : lead[m] = lead[n] => m = n
            /\ \A j \in Conf!Leads(U) : \E n \in 1 .. K : lead[n] = j
  <2>1. N \in Nat /\ DOMAIN U = 1 .. N /\ K = Cardinality(Conf!Leads(U))
    BY <1>0, <1>1, <1>3
  <2> QED BY ONLY <2>1, BlockersLed
<1>5. L = U \o B
  BY <1>0 DEF Conf!Bindings
<1> HIDE DEF B
<1>6. PICK S : U \in Seq(S) /\ B \in Seq(S)
  <2> DEFINE S == {U[i] : i \in 1 .. N} \cup {B[n] : n \in 1 .. K}
  <2>1. U \in [1 .. N -> S]
    BY <1>2
  <2>2. B \in [1 .. K -> S]
    BY <1>4
  <2> HIDE DEF S
  <2>3. U \in Seq(S)
    BY <1>1, <2>1
  <2>4. B \in Seq(S)
    BY <1>4, <2>2
  <2> QED BY <2>3, <2>4
<1>7. Len(U) = N /\ Len(B) = K
  BY <1>1, <1>3, <1>4, <1>6
<1>8. /\ DOMAIN L = 1 .. N + K /\ Len(L) = N + K
      /\ \A i \in 1 .. N : L[i] = U[i]
      /\ \A n \in 1 .. K : L[N + n] = B[n]
  BY <1>1, <1>4, <1>5, <1>6, <1>7
<1>9. \A i \in 1 .. N : ~Conf!Rejected(t[i])
  BY <1>0, <1>1 DEF Conf!Loads
<1> QED BY <1>1, <1>3, <1>4, <1>8, <1>9 DEF B, t, U, N, K, L

(* The order of the file, and the keys of a chord.                            *)
LEMMA FileOrderKept == LoadedSo => Conf!InFileOrder
<1> SUFFICES ASSUME LoadedSo PROVE Conf!InFileOrder
  OBVIOUS
<1>1. /\ Entries \in Nat /\ Added \in Nat /\ DOMAIN live = 1 .. Entries + Added /\ Len(live) = Entries + Added
      /\ \A i \in 1 .. Entries : /\ loaded[i] \in Conf!Entry /\ ~Conf!Rejected(loaded[i])
                           /\ live[i] = Conf!Converted(loaded[i])
      /\ \E lead \in [1 .. Added -> Conf!Leads(Given)] :
            \A n \in 1 .. Added : live[Entries + n] = Conf!Blocker(Given, lead[n])
  BY LiveList
<1>2. \A i \in 1 .. Entries : live[i].name = loaded[i].action
  BY <1>1, EntryConverts
<1>3. ASSUME NEW i \in 1 .. Entries + Added, ~(i <= Entries) PROVE live[i].blocker # "no"
  <2>1. i - Entries \in 1 .. Added /\ i = Entries + (i - Entries)
    BY <1>1, <1>3
  <2>2. PICK j : live[i] = Conf!Blocker(Given, j)
    BY <1>1, <2>1
  <2>3. live[i].blocker = Conf!Mode(Given[j])
    BY <2>2 DEF Conf!Blocker
  <2> QED BY <2>3 DEF Conf!Mode
<1>4. \A i \in 1 .. Entries + Added : i <= Entries => i \in 1 .. Entries
  BY <1>1
<1> QED BY <1>1, <1>2, <1>3, <1>4 DEF Conf!InFileOrder, Entries

(* A set whose elements are one has one at most.                              *)
LEMMA OneAtMost ==
    ASSUME NEW S, \A x, y \in S : x = y
    PROVE  Cardinality(S) <= 1
<1>1. CASE S = {}
  <2>1. Cardinality(S) = 0
    BY <1>1, FS_EmptySet
  <2> QED BY <2>1
<1>2. CASE S # {}
  <2>1. PICK s : S = {s}
    BY <1>2
  <2>2. Cardinality(S) = 1
    BY <2>1, FS_Singleton
  <2> QED BY <2>2
<1> QED BY <1>1, <1>2

(* No press of one key counts for two keys of a chord.                        *)
LEMMA ChordsAreApart == LoadedSo => Conf!ChordsApart
<1> SUFFICES ASSUME LoadedSo,
                    NEW i \in DOMAIN live, live[i].kind = "chord", NEW code \in Code
             PROVE  Cardinality({spec \in live[i].keys : code \in spec}) <= 1
  BY ConfSets DEF Conf!ChordsApart, Conf!Code, Code
<1> DEFINE e == loaded[i]
           both == {spec \in live[i].keys : code \in spec}
<1>1. /\ Entries \in Nat /\ Added \in Nat /\ DOMAIN live = 1 .. Entries + Added
      /\ \A n \in 1 .. Entries : /\ loaded[n] \in Conf!Entry /\ ~Conf!Rejected(loaded[n])
                           /\ live[n] = Conf!Converted(loaded[n])
      /\ \E lead \in [1 .. Added -> Conf!Leads(Given)] :
            \A n \in 1 .. Added : live[Entries + n] = Conf!Blocker(Given, lead[n])
  BY LiveList
<1>2. i \in 1 .. Entries
  <2> SUFFICES ASSUME i \notin 1 .. Entries PROVE FALSE
    OBVIOUS
  <2>1. i - Entries \in 1 .. Added /\ i = Entries + (i - Entries)
    BY <1>1
  <2>2. PICK j : live[i] = Conf!Blocker(Given, j)
    BY <1>1, <2>1
  <2> QED BY <2>2 DEF Conf!Blocker
<1>3. /\ live[i].keys = Conf!ToSet(e.chord) /\ e.chord \in Seq(SUBSET Code)
      /\ ~Conf!Overlap(e.chord)
  BY <1>1, <1>2, EntryConverts
<1>4. \A s, r \in both : s = r
  <2> SUFFICES ASSUME NEW s \in both, NEW r \in both PROVE s = r
    OBVIOUS
  <2>1. PICK m \in DOMAIN e.chord : s = e.chord[m]
    BY <1>3 DEF Conf!ToSet
  <2>2. PICK n \in DOMAIN e.chord : r = e.chord[n]
    BY <1>3 DEF Conf!ToSet
  <2>3. m \in Nat /\ n \in Nat /\ code \in s \cap r
    BY <1>3
  <2>4. ~(m < n) /\ ~(n < m)
    BY <1>3, <2>1, <2>2, <2>3 DEF Conf!Overlap
  <2> QED BY <2>1, <2>2, <2>3, <2>4
<1> HIDE DEF both
<1>5. Cardinality(both) <= 1
  BY <1>4, OneAtMost
<1> QED BY <1>5 DEF both

(* The keys of what is loaded can be counted; a label changes nothing else.   *)
LEMMA LabelsKeep ==
    ASSUME Conf!LoaderAssumption, LoadedSo, NEW n \in DOMAIN live,
           NEW b, b = [live[n] EXCEPT !.name = n]
    PROVE  /\ b.name = n /\ b.kind = live[n].kind /\ b.keys = live[n].keys
           /\ b.when = live[n].when /\ b.trigger = live[n].trigger
           /\ b.extra = live[n].extra /\ b.blocker = live[n].blocker
           /\ KeyCount(b) = KeyCount(live[n]) /\ KeyCount(b) \in Nat
<1>1. /\ Entries \in Nat /\ Added \in Nat /\ DOMAIN Given = 1 .. Entries
      /\ DOMAIN live = 1 .. Entries + Added
      /\ \A i \in 1 .. Entries :
            /\ loaded[i] \in Conf!Entry /\ ~Conf!Rejected(loaded[i])
            /\ live[i] = Conf!Converted(loaded[i])
            /\ Given[i] = Conf!Converted(loaded[i])
      /\ \E lead \in [1 .. Added -> Conf!Leads(Given)] :
            \A m \in 1 .. Added : live[Entries + m] = Conf!Blocker(Given, lead[m])
  BY LiveList
<1>2. CASE n \in 1 .. Entries
  <2>1. live[n] = Conf!Converted(loaded[n]) /\ KeyCount(live[n]) \in Nat
    BY <1>1, <1>2, EntryConverts
  <2>2. /\ b.name = n /\ b.kind = live[n].kind /\ b.keys = live[n].keys
        /\ b.when = live[n].when /\ b.trigger = live[n].trigger /\ b.steps = live[n].steps
        /\ b.extra = live[n].extra /\ b.blocker = live[n].blocker
    BY <2>1 DEF Conf!Converted
  <2> QED BY <2>1, <2>2 DEF KeyCount
<1>3. CASE n \notin 1 .. Entries
  <2>1. n - Entries \in 1 .. Added /\ n = Entries + (n - Entries)
    BY <1>1, <1>3
  <2>2. PICK j \in Conf!Leads(Given) : live[n] = Conf!Blocker(Given, j)
    BY <1>1, <2>1
  <2>3. /\ b.name = n /\ b.kind = live[n].kind /\ b.keys = live[n].keys
        /\ b.when = live[n].when /\ b.trigger = live[n].trigger /\ b.steps = live[n].steps
        /\ b.extra = live[n].extra /\ b.blocker = live[n].blocker
        /\ live[n].kind = "combo" /\ live[n].keys = Conf!HotkeyOf(Given[j])
    BY <2>2 DEF Conf!Blocker
  <2>4. j \in 1 .. Entries /\ Conf!HotkeyOf(Given[j]) # None
    BY <1>1, <2>2 DEF Conf!Leads, Conf!Requests
  <2>5. Given[j].name \in DOMAIN Hotkey
    BY <1>1, <2>4, EntryConverts
  <2>6. IsFiniteSet(live[n].keys)
    BY <2>3, <2>4, <2>5, ConfSets DEF Conf!LoaderAssumption, Conf!HotkeyOf
  <2>7. KeyCount(live[n]) \in Nat
    BY <2>3, <2>6, FS_CardinalityType DEF KeyCount
  <2> QED BY <2>3, <2>7 DEF KeyCount
<1> QED BY <1>2, <1>3

(* The later of two duplicates is behind the earlier one in the engine's list,*)
(* which is a candidate and in the group whenever it is: it neither outranks  *)
(* the earlier one nor is the first of its trigger in the group.              *)
LEMMA DuplicatesNeverAct == Conf!LoaderAssumption /\ LoadedSo => Conf!DuplicatesIdle
<1> SUFFICES ASSUME Conf!LoaderAssumption, LoadedSo, NEW i \in warned, NEW vk, NEW held,
                    NEW window, live[i].kind = "combo", i \in Conf!Acting(vk, held, window)
             PROVE  FALSE
  BY DEF Conf!DuplicatesIdle
<1> DEFINE M == Entries + Added
           holds == {c \in Condition : Conf!InForce(c, window)}
           f == [n \in DOMAIN live |-> [live[n] EXCEPT !.name = n]]
           l == Sorted(f)
           won == Elect(l, vk, held, holds)
<1>1. won # 0 /\ \E p \in {won} \cup DeferredGroup(l, won, vk, held) : l[p].name = i
  BY ConfElects DEF Conf!Acting
<1>2. /\ Entries \in Nat /\ M \in Nat /\ DOMAIN Given = 1 .. Entries /\ DOMAIN live = 1 .. M
      /\ \A n \in 1 .. Entries :
            /\ n \in 1 .. M /\ loaded[n] \in Conf!Entry /\ ~Conf!Rejected(loaded[n])
            /\ live[n] = Given[n] /\ Given[n] = Conf!Converted(loaded[n])
  BY LiveList
<1>3. DOMAIN f = 1 .. M /\ \A n \in 1 .. M : f[n] = [live[n] EXCEPT !.name = n]
  BY <1>2
<1>4. \A n \in 1 .. M :
         /\ f[n].name = n /\ f[n].kind = live[n].kind /\ f[n].keys = live[n].keys
         /\ f[n].when = live[n].when /\ f[n].trigger = live[n].trigger
         /\ f[n].extra = live[n].extra /\ f[n].blocker = live[n].blocker
         /\ KeyCount(f[n]) \in Nat
  BY <1>2, <1>3, LabelsKeep
<1> HIDE DEF f, M
<1>5. PICK at \in [1 .. M -> 1 .. M] :
         /\ DOMAIN l = 1 .. M
         /\ \A n \in 1 .. M : l[n] = f[at[n]]
         /\ \A j \in 1 .. M : \E n \in 1 .. M : at[n] = j
         /\ \A m, n \in 1 .. M : m < n => Before(f, at[m], at[n])
  BY <1>2, <1>3, <1>4, SortedOrders
<1>6. Len(l) = M
  <2>1. l = [n \in 1 .. M |-> l[n]]
    BY <1>5, <1>3 DEF Sorted
  <2> DEFINE S == {l[n] : n \in 1 .. M}
  <2>2. l \in [1 .. M -> S]
    BY <2>1
  <2> HIDE DEF l, S
  <2>3. l \in Seq(S)
    BY <1>2, <2>2
  <2> QED BY <1>2, <1>5, <2>3
<1> HIDE DEF l
<1>7. \A n \in 1 .. M : at[n] \in 1 .. M /\ l[n] = f[at[n]] /\ KeyCount(l[n]) \in Nat
  <2>1. \A n \in 1 .. M : at[n] \in 1 .. M /\ l[n] = f[at[n]]
    BY <1>5
  <2>2. \A n \in 1 .. M : KeyCount(f[at[n]]) \in Nat
    BY <1>4, <2>1
  <2> QED BY <2>1, <2>2
<1>8. Elected(l, won, M, vk, held, holds)
  <2> HIDE DEF holds
  <2> QED BY <1>2, <1>6, <1>7, ElectElects
<1>9. PICK j \in 1 .. i - 1 : /\ i \in 1 .. M /\ j \in 1 .. M /\ j < i
                              /\ live[i].blocker = "no" /\ live[j].blocker = "no"
                              /\ live[i].kind = live[j].kind /\ live[i].keys = live[j].keys
                              /\ live[i].trigger = live[j].trigger
                              /\ live[i].when = live[j].when /\ live[i].extra = live[j].extra
  <2>1. i \in 1 .. Entries /\ \E j \in 1 .. i - 1 : Conf!Duplicates(Given[i], Given[j])
    BY <1>2 DEF LoadedSo, Given, Conf!Warned
  <2>2. PICK j \in 1 .. i - 1 : Conf!Duplicates(Given[i], Given[j])
    BY <2>1
  <2>3. j \in 1 .. Entries /\ j < i
    BY <1>2, <2>1, <2>2
  <2>4. \A n \in 1 .. Entries : live[n].blocker = "no"
    BY <1>2, EntryConverts
  <2> QED BY <1>2, <2>1, <2>2, <2>3, <2>4 DEF Conf!Duplicates
<1> HIDE DEF won, holds
<1>10. PICK p \in {won} \cup DeferredGroup(l, won, vk, held) : l[p].name = i
  BY <1>1
<1>11. /\ won \in 1 .. M /\ won \in Nat /\ p \in 1 .. M /\ p \in Nat /\ Candidate(l[won], vk, held, holds)
       /\ at[p] = i
  <2>1. won \in 1 .. M /\ Candidate(l[won], vk, held, holds)
    BY <1>1, <1>2, <1>8 DEF Elected
  <2>2. \A n \in DeferredGroup(l, won, vk, held) : n \in won .. Len(l)
    BY DEF DeferredGroup
  <2>3. p \in 1 .. M
    BY <1>2, <1>6, <2>1, <2>2
  <2>4. f[at[p]].name = at[p]
    BY <1>4, <1>7, <2>3
  <2>5. at[p] = i
    BY <1>7, <1>10, <2>3, <2>4
  <2> QED BY <1>2, <2>1, <2>3, <2>5
<1>12. PICK q \in 1 .. M : at[q] = j
  BY <1>5, <1>9
<1>13. /\ l[p].kind = "combo" /\ l[q].kind = "combo" /\ l[p].keys = l[q].keys
       /\ l[p].blocker = "no" /\ l[q].blocker = "no"
       /\ l[p].when = l[q].when /\ l[p].trigger = l[q].trigger /\ l[p].extra = l[q].extra
  <2>1. l[p] = f[i] /\ l[q] = f[j]
    BY <1>7, <1>11, <1>12
  <2> QED BY <1>4, <1>9, <2>1
<1>14. q < p /\ q \in Nat
  <2>1. KeyCount(f[i]) = KeyCount(f[j]) /\ KeyCount(f[i]) \in Nat
    BY <1>4, <1>9 DEF KeyCount
  <2>2. ~Before(f, i, j)
    BY <1>9, <2>1 DEF Before
  <2>3. ~(p < q)
    BY <1>5, <1>11, <1>12, <2>2
  <2>4. p # q
    BY <1>9, <1>11, <1>12
  <2> QED BY <1>11, <2>3, <2>4
<1>15. Matches(l[p], vk, held) <=> Matches(l[q], vk, held)
  BY <1>13 DEF Matches
<1>16. ASSUME l[p].keys = l[won].keys, l[p].when = l[won].when, Matches(l[p], vk, held)
       PROVE  ~(q < won)
  <2>1. l[won].when \in holds /\ l[won].kind = "combo"
    BY <1>11 DEF Candidate
  <2>2. Candidate(l[q], vk, held, holds)
    BY <1>13, <1>15, <1>16, <2>1 DEF Candidate
  <2>3. KeyCount(l[won]) = KeyCount(l[q]) /\ KeyCount(l[q]) \in Nat
    BY <1>7, <1>13, <1>16, <2>1 DEF KeyCount
  <2>4. ~Outranks(l[won], l[q])
    BY <1>13, <1>16, <2>3 DEF Outranks
  <2> QED BY <1>1, <1>8, <2>2, <2>4 DEF Elected
<1>17. p # won
  <2> SUFFICES ASSUME p = won PROVE FALSE
    OBVIOUS
  <2>1. Matches(l[p], vk, held)
    BY <1>11 DEF Candidate
  <2> QED BY <1>14, <1>16, <2>1
<1>18. /\ Claims(l, won, p, vk, held) /\ p \in won .. Len(l)
  BY <1>10, <1>17 DEF DeferredGroup
<1>19. /\ {l[won].trigger, l[p].trigger} \subseteq Deferred /\ Matches(l[p], vk, held)
       /\ l[p].keys = l[won].keys /\ l[p].when = l[won].when
  BY <1>17, <1>18 DEF Claims, Admits
<1>20. q \in won .. p - 1
  BY <1>11, <1>14, <1>16, <1>19
<1>21. Admits(l, won, q, vk, held)
  BY <1>13, <1>15, <1>19 DEF Admits
<1> QED BY <1>13, <1>18, <1>20, <1>21 DEF Claims

(* A condition made of several holds where one of them does.                  *)
LEMMA AnyHolds ==
    ASSUME NEW window, Always \cap window # {}, NEW S
    PROVE  Conf!InForce(Conf!AnyOf(S), window) <=> \E c \in S : Conf!InForce(c, window)
<1>1. CASE Always \in S
  BY <1>1 DEF Conf!AnyOf, Conf!InForce
<1>2. CASE Always \notin S
  <2>1. Conf!AnyOf(S) = UNION S
    BY <1>2 DEF Conf!AnyOf
  <2>2. (UNION S) \cap window # {} <=> \E c \in S : c \cap window # {}
    OBVIOUS
  <2> QED BY <2>1, <2>2 DEF Conf!InForce
<1> QED BY <1>1, <1>2

(* What an entry asks for is what the request of its binding is for; and a    *)
(* hotkey is taken over by an entry with its keys.                            *)
LEMMA AsksRequests ==
    ASSUME LoadedSo, NEW hotkey, hotkey # None, NEW mode \in {"swallow", "mask"}
    PROVE  /\ \A i \in 1 .. Entries :
                 /\ Given[i].when = loaded[i].when
                 /\ Conf!Asks(loaded[i], hotkey, mode) <=>
                       /\ i \in Conf!Requests(Given)
                       /\ Conf!HotkeyOf(Given[i]) = hotkey /\ Conf!Mode(Given[i]) = mode
           /\ Conf!TakenOver(Given, hotkey) <=>
                 \E i \in DOMAIN loaded :
                    loaded[i].keys # None /\ Conf!ToSet(loaded[i].keys) = hotkey
<1>1. /\ DOMAIN Given = 1 .. Entries /\ DOMAIN loaded = 1 .. Entries
      /\ \A i \in 1 .. Entries :
            /\ Given[i].name = loaded[i].action /\ Given[i].when = loaded[i].when
            /\ Given[i].original = loaded[i].original
            /\ Given[i].kind = "combo" <=> loaded[i].keys # None
            /\ loaded[i].keys # None => Given[i].keys = Conf!ToSet(loaded[i].keys)
  BY LiveList, EntryConverts
<1>2. ASSUME NEW i \in 1 .. Entries
      PROVE  Conf!Asks(loaded[i], hotkey, mode) <=>
                /\ i \in Conf!Requests(Given)
                /\ Conf!HotkeyOf(Given[i]) = hotkey /\ Conf!Mode(Given[i]) = mode
  <2>1. i \in Conf!Requests(Given) <=>
           loaded[i].original # "off" /\ Hotkey[loaded[i].action] # None
    BY <1>1 DEF Conf!Requests, Conf!HotkeyOf
  <2>2. Conf!HotkeyOf(Given[i]) = Hotkey[loaded[i].action]
    BY <1>1 DEF Conf!HotkeyOf
  <2>3. Conf!Mode(Given[i]) =
           IF loaded[i].original = "mask" /\ Conf!IsModifierOnly(Hotkey[loaded[i].action])
           THEN "mask" ELSE "swallow"
    BY <1>1 DEF Conf!Mode
  <2> QED BY <2>1, <2>2, <2>3 DEF Conf!Asks
<1>3. Conf!TakenOver(Given, hotkey) <=>
         \E i \in DOMAIN loaded : loaded[i].keys # None /\ Conf!ToSet(loaded[i].keys) = hotkey
  BY <1>1 DEF Conf!TakenOver
<1> QED BY <1>1, <1>2, <1>3

(* The blockers of a hotkey and a mode are those of their lead: one, or none. *)
LEMMA BlockersAreRight == Conf!LoaderAssumption /\ LoadedSo => Conf!BlockersRight
<1> SUFFICES ASSUME Conf!LoaderAssumption, LoadedSo,
                    NEW hotkey \in {Hotkey[a] : a \in DOMAIN Hotkey} \ {None},
                    NEW mode \in {"swallow", "mask"}
             PROVE  /\ Cardinality(Conf!BlockersOf(hotkey, mode)) <= 1
                    /\ \A window \in Windows :
                          (\E i \in Conf!BlockersOf(hotkey, mode) :
                              Conf!InForce(live[i].when, window)) <=>
                             /\ \E i \in DOMAIN loaded : /\ Conf!Asks(loaded[i], hotkey, mode)
                                                         /\ Conf!InForce(loaded[i].when, window)
                             /\ \A i \in DOMAIN loaded : loaded[i].keys # None =>
                                   Conf!ToSet(loaded[i].keys) # hotkey
  BY ConfSets DEF Conf!BlockersRight
<1> DEFINE B == Conf!BlockersOf(hotkey, mode)
           Fits(j) == Conf!HotkeyOf(Given[j]) = hotkey /\ Conf!Mode(Given[j]) = mode
<1>1. /\ Entries \in Nat /\ Added \in Nat /\ DOMAIN loaded = 1 .. Entries
      /\ DOMAIN Given = 1 .. Entries /\ DOMAIN live = 1 .. Entries + Added
  BY LiveList
<1>2. PICK lead \in [1 .. Added -> Conf!Leads(Given)] :
         /\ \A n \in 1 .. Added : live[Entries + n] = Conf!Blocker(Given, lead[n])
         /\ \A m, n \in 1 .. Added : lead[m] = lead[n] => m = n
         /\ \A j \in Conf!Leads(Given) : \E n \in 1 .. Added : lead[n] = j
  BY LiveList
<1>3. /\ Conf!Leads(Given) \subseteq 1 .. Entries /\ Conf!Leads(Given) \subseteq Conf!Requests(Given)
      /\ \A i, j \in Conf!Leads(Given) : Fits(i) /\ Fits(j) => i = j
      /\ \A i \in Conf!Requests(Given) :
            Fits(i) /\ ~Conf!TakenOver(Given, hotkey) => \E j \in Conf!Leads(Given) : Fits(j)
  BY <1>1, OneLead
<1>4. /\ \A i \in 1 .. Entries :
            /\ Given[i].when = loaded[i].when
            /\ Conf!Asks(loaded[i], hotkey, mode) <=> i \in Conf!Requests(Given) /\ Fits(i)
      /\ Conf!TakenOver(Given, hotkey) <=>
            \E i \in DOMAIN loaded :
               loaded[i].keys # None /\ Conf!ToSet(loaded[i].keys) = hotkey
  BY AsksRequests
<1>5. \A n \in 1 .. Added : /\ Entries + n \in B <=> Fits(lead[n])
                            /\ live[Entries + n].when = Conf!Blocker(Given, lead[n]).when
  <2> SUFFICES ASSUME NEW n \in 1 .. Added
               PROVE  /\ Entries + n \in B <=> Fits(lead[n])
                      /\ live[Entries + n].when = Conf!Blocker(Given, lead[n]).when
    OBVIOUS
  <2>1. /\ live[Entries + n] = Conf!Blocker(Given, lead[n])
        /\ Entries + n \in DOMAIN live
    BY <1>1, <1>2
  <2>2. /\ live[Entries + n].blocker = Conf!Mode(Given[lead[n]])
        /\ live[Entries + n].keys = Conf!HotkeyOf(Given[lead[n]])
    BY <2>1 DEF Conf!Blocker
  <2> QED BY <2>1, <2>2 DEF Conf!BlockersOf
<1>6. ASSUME NEW i \in B
      PROVE  i - Entries \in 1 .. Added /\ i = Entries + (i - Entries)
  <2>1. i \in DOMAIN live /\ live[i].blocker = mode
    BY <1>6 DEF Conf!BlockersOf
  <2>2. \A n \in 1 .. Entries : live[n].blocker = "no"
    <3>1. \A n \in 1 .. Entries :
             /\ loaded[n] \in Conf!Entry /\ ~Conf!Rejected(loaded[n])
             /\ live[n] = Conf!Converted(loaded[n])
      BY LiveList
    <3> QED BY <3>1, EntryConverts
  <2>3. i \notin 1 .. Entries
    BY <2>1, <2>2
  <2> QED BY <1>1, <2>1, <2>3
<1> HIDE DEF B, Fits
<1>7. \A n \in 1 .. Added : lead[n] \in Conf!Leads(Given)
  BY <1>2
<1>8. \A x, y \in B : x = y
  <2> SUFFICES ASSUME NEW x \in B, NEW y \in B PROVE x = y
    OBVIOUS
  <2> DEFINE m == x - Entries
             n == y - Entries
  <2>1. m \in 1 .. Added /\ x = Entries + m /\ n \in 1 .. Added /\ y = Entries + n
    BY <1>6
  <2> HIDE DEF m, n
  <2>2. Fits(lead[m]) /\ Fits(lead[n])
    BY <1>5, <2>1
  <2>3. lead[m] = lead[n]
    BY <1>3, <1>7, <2>1, <2>2
  <2> QED BY <1>2, <2>1, <2>3
<1>9. ASSUME NEW window \in Windows, NEW n \in 1 .. Added
      PROVE  Conf!InForce(live[Entries + n].when, window) <=>
                \E i \in Conf!Owners(Given, lead[n]) : Conf!InForce(Given[i].when, window)
  <2> DEFINE S == {Given[i].when : i \in Conf!Owners(Given, lead[n])}
  <2>1. live[Entries + n].when = Conf!AnyOf(S)
    BY <1>5 DEF Conf!Blocker
  <2>2. Always \cap window # {}
    BY DEF Conf!LoaderAssumption
  <2>3. Conf!InForce(Conf!AnyOf(S), window) <=> \E c \in S : Conf!InForce(c, window)
    <3> HIDE DEF S
    <3> QED BY <2>2, AnyHolds
  <2>4. (\E c \in S : Conf!InForce(c, window)) <=>
           \E i \in Conf!Owners(Given, lead[n]) : Conf!InForce(Given[i].when, window)
    OBVIOUS
  <2> QED BY <2>1, <2>3, <2>4
<1>10. ASSUME NEW n \in 1 .. Added, Fits(lead[n])
       PROVE  \A i : i \in Conf!Owners(Given, lead[n]) <=> i \in Conf!Requests(Given) /\ Fits(i)
  BY <1>10 DEF Conf!Owners, Conf!For, Fits
<1>11. ASSUME NEW window \in Windows
       PROVE  (\E i \in B : Conf!InForce(live[i].when, window)) <=>
                 /\ \E i \in 1 .. Entries : /\ Conf!Asks(loaded[i], hotkey, mode)
                                            /\ Conf!InForce(loaded[i].when, window)
                 /\ ~Conf!TakenOver(Given, hotkey)
  <2>1. ASSUME NEW x \in B, Conf!InForce(live[x].when, window)
        PROVE  /\ \E i \in 1 .. Entries : /\ Conf!Asks(loaded[i], hotkey, mode)
                                          /\ Conf!InForce(loaded[i].when, window)
               /\ ~Conf!TakenOver(Given, hotkey)
    <3> DEFINE n == x - Entries
    <3>1. n \in 1 .. Added /\ x = Entries + n
      BY <1>6
    <3> HIDE DEF n
    <3>2. Fits(lead[n])
      BY <1>5, <3>1
    <3>3. PICK i \in Conf!Owners(Given, lead[n]) : Conf!InForce(Given[i].when, window)
      BY <1>9, <2>1, <3>1
    <3>4. i \in Conf!Requests(Given) /\ Fits(i)
      BY <1>10, <3>1, <3>2, <3>3
    <3>5. i \in 1 .. Entries
      BY <1>1, <3>4 DEF Conf!Requests
    <3>6. ~Conf!TakenOver(Given, hotkey)
      BY <1>7, <3>1, <3>2 DEF Conf!Leads, Fits
    <3> QED BY <1>4, <3>3, <3>4, <3>5, <3>6
  <2>2. ASSUME NEW i \in 1 .. Entries, Conf!Asks(loaded[i], hotkey, mode),
               Conf!InForce(loaded[i].when, window), ~Conf!TakenOver(Given, hotkey)
        PROVE  \E x \in B : Conf!InForce(live[x].when, window)
    <3>1. i \in Conf!Requests(Given) /\ Fits(i) /\ Conf!InForce(Given[i].when, window)
      BY <1>4, <2>2
    <3>2. PICK j \in Conf!Leads(Given) : Fits(j)
      BY <1>3, <2>2, <3>1
    <3>3. PICK n \in 1 .. Added : lead[n] = j
      BY <1>2
    <3>4. i \in Conf!Owners(Given, lead[n])
      BY <1>10, <3>1, <3>2, <3>3
    <3>5. Entries + n \in B /\ Conf!InForce(live[Entries + n].when, window)
      BY <1>5, <1>9, <3>1, <3>2, <3>3, <3>4
    <3> QED BY <3>5
  <2> QED BY <2>1, <2>2
<1>12. Cardinality(B) <= 1
  BY <1>8, OneAtMost
<1> QED BY <1>1, <1>4, <1>11, <1>12 DEF B
-----------------------------------------------------------------------------
(* The bindings in use are those of the file that was loaded last.            *)
ConfInv == Conf!TypeOK /\ (live # None => LoadedSo)

(* Nothing is loaded at the start.                                            *)
LEMMA ConfInit == Conf!LoaderAssumption /\ Conf!Init => ConfInv
<1> SUFFICES ASSUME Conf!LoaderAssumption, Conf!Init PROVE ConfInv
  OBVIOUS
<1>1. /\ path \in {"argument", "beside exe"} /\ stage = "read" /\ disk \in {None, Template}
      /\ users = disk /\ text = None /\ live = None /\ loaded = None /\ edits = 0
      /\ made = "none"
  BY DEF Conf!Init
<1>2. edits \in 0 .. MaxEdits
  <2>1. MaxEdits \in Nat
    BY DEF Conf!LoaderAssumption
  <2>2. 0 \in 0 .. MaxEdits
    BY <2>1
  <2> QED BY <1>1, <2>2
<1> QED BY <1>1, <1>2 DEF ConfInv, Conf!TypeOK

(* A text that loads is a list of entries, as long as that of its bindings.   *)
LEMMA TextLoads ==
    ASSUME Conf!LoaderAssumption, text \in Texts \cup {None, Template, Garbled}, text # None,
           Conf!Loads(text)
    PROVE  /\ text \in Seq(Conf!Entry) /\ Conf!Bindings(text) # None
           /\ Conf!Warned(Conf!UserBindings(text)) \subseteq DOMAIN text
<1>1. text \in Texts \cup {Template} /\ text # Garbled
  BY DEF Conf!Loads
<1>2. text \in Seq(Conf!Entry) /\ Conf!Bindings(text) # None
  BY <1>1 DEF Conf!LoaderAssumption
<1>3. Conf!Warned(Conf!UserBindings(text)) \subseteq DOMAIN text
  BY DEF Conf!Warned, Conf!UserBindings
<1> QED BY <1>2, <1>3

(* Only a text that loads changes what is loaded.                             *)
LEMMA ConfStep == Conf!LoaderAssumption /\ ConfInv /\ [Conf!Next]_(Conf!vars) => ConfInv'
<1> SUFFICES ASSUME Conf!LoaderAssumption, ConfInv, [Conf!Next]_(Conf!vars) PROVE ConfInv'
  OBVIOUS
<1> DEFINE AllTexts == Texts \cup {None, Template, Garbled}
<1>1. /\ path \in {"argument", "beside exe"}
      /\ stage \in {"read", "write", "fill", "read again", "parse", "live", "failed"}
      /\ made \in {"none", "new", "shared"}
      /\ disk \in AllTexts /\ users \in AllTexts /\ text \in AllTexts /\ loaded \in AllTexts
      /\ edits \in 0 .. MaxEdits
      /\ (live = None) = (loaded = None) /\ (stage = "live" => live # None)
      /\ (stage = "parse" => text # None) /\ (stage = "write" => path = "beside exe")
      /\ (live # None => warned \subseteq DOMAIN loaded)
      /\ live # None => LoadedSo
  BY DEF ConfInv, Conf!TypeOK
<1>2. ASSUME UNCHANGED <<live, loaded, warned>>
      PROVE  live' # None => LoadedSo'
  BY <1>1, <1>2 DEF LoadedSo
<1>3. CASE Conf!Read
  <2>1. /\ UNCHANGED <<path, made, live, warned, edits, users, loaded>>
        /\ disk' = disk /\ text' \in {text, disk}
        /\ stage' \in {"parse", "write", "failed", "live"}
        /\ stage' = "parse" => text' # None
        /\ stage' = "write" => path = "beside exe"
        /\ stage' = "live" => live # None
    BY <1>3 DEF Conf!Read, Conf!Fails
  <2> QED BY <1>1, <1>2, <2>1 DEF ConfInv, Conf!TypeOK
<1>4. CASE Conf!OpenNew
  <2>1. /\ UNCHANGED <<path, text, live, warned, edits, users, loaded>>
        /\ disk' \in {disk, Garbled} /\ stage' \in {"fill", "read again", "failed"}
        /\ made' \in {made, "new"}
    BY <1>4 DEF Conf!OpenNew
  <2> QED BY <1>1, <1>2, <2>1 DEF ConfInv, Conf!TypeOK
<1>9. CASE Conf!WriteAll
  <2>1. /\ UNCHANGED <<path, made, text, live, warned, edits, users, loaded>>
        /\ disk' \in Conf!Written \cup Conf!HalfWritten /\ stage' \in {"read again", "failed"}
    BY <1>9 DEF Conf!WriteAll
  <2>2. disk' \in {disk, Template, Garbled}
    BY <1>1, <2>1 DEF Conf!Written, Conf!HalfWritten
  <2> QED BY <1>1, <1>2, <2>1, <2>2 DEF ConfInv, Conf!TypeOK
<1>5. CASE Conf!Parse
  <2>1. UNCHANGED <<path, made, edits, users, disk, text>> /\ text # None
    BY <1>1, <1>5 DEF Conf!Parse, Conf!Fails
  <2>2. CASE Conf!Loads(text)
    <3>1. /\ live' = Conf!Bindings(text) /\ warned' = Conf!Warned(Conf!UserBindings(text))
          /\ loaded' = text /\ stage' = "live"
      BY <1>5, <2>2 DEF Conf!Parse
    <3>2. /\ text \in Seq(Conf!Entry) /\ live' # None /\ warned' \subseteq DOMAIN loaded'
      BY <1>1, <2>1, <2>2, <3>1, TextLoads
    <3>3. LoadedSo'
      BY <2>2, <3>1, <3>2 DEF LoadedSo
    <3> QED BY <1>1, <2>1, <3>1, <3>2, <3>3 DEF ConfInv, Conf!TypeOK
  <2>3. CASE ~Conf!Loads(text)
    <3>1. /\ UNCHANGED <<live, warned, loaded>>
          /\ stage' = IF live = None THEN "failed" ELSE "live"
      BY <1>5, <2>3 DEF Conf!Parse, Conf!Fails
    <3> QED BY <1>1, <1>2, <2>1, <3>1 DEF ConfInv, Conf!TypeOK
  <2> QED BY <2>2, <2>3
<1>6. CASE Conf!Reload
  <2>1. /\ UNCHANGED <<path, disk, made, text, live, warned, edits, users, loaded>>
        /\ stage' = "read again"
    BY <1>6 DEF Conf!Reload
  <2> QED BY <1>1, <1>2, <2>1 DEF ConfInv, Conf!TypeOK
<1>7. CASE Conf!Edit
  <2>1. /\ UNCHANGED <<path, stage, text, live, warned, loaded>>
        /\ disk' \in AllTexts /\ users' = disk' /\ edits' \in 0 .. MaxEdits
        /\ made' \in {"none", "shared"}
    <3>1. edits < MaxEdits /\ edits' = edits + 1 /\ MaxEdits \in Nat
      BY <1>7 DEF Conf!Edit, Conf!LoaderAssumption
    <3>2. edits' \in 0 .. MaxEdits
      <4>1. edits \in 0 .. MaxEdits
        BY <1>1
      <4> QED BY <3>1, <4>1
    <3> QED BY <1>7, <3>2 DEF Conf!Edit
  <2> QED BY <1>1, <1>2, <2>1 DEF ConfInv, Conf!TypeOK
<1>8. CASE UNCHANGED Conf!vars
  <2>1. UNCHANGED <<path, stage, disk, made, text, live, warned, edits, users, loaded>>
    BY <1>8 DEF Conf!vars
  <2> QED BY <1>1, <1>2, <2>1 DEF ConfInv, Conf!TypeOK
<1> QED
  BY <1>3, <1>4, <1>5, <1>6, <1>7, <1>8, <1>9 DEF Conf!Next

(* The invariant of the loader.                                               *)
LEMMA ConfAlways == ASSUME Conf!LoaderAssumption PROVE Conf!Spec => []ConfInv
BY ConfInit, ConfStep, PTL DEF Conf!Spec

(* The loader's types: a text is one of the user's or the template, and       *)
(* bindings are in use only once a text was loaded (load, reload).            *)
THEOREM LoaderTypesKept == ASSUME Conf!LoaderAssumption PROVE Conf!Spec => []Conf!TypeOK
<1>1. ConfInv => Conf!TypeOK
  BY DEF ConfInv
<1> QED
  BY <1>1, ConfAlways, PTL

(* What is in use is what the file asks for: a blocker exactly where an entry *)
(* asks for one and none uses its keys, no duplicate that acts, the file's    *)
(* order, and chords without a shared key (parse_ron_str,                     *)
(* expand_with_auto_blockers, duplicate_warnings, chord_spec_to_kind).        *)
THEOREM LoadedIsRight == ASSUME Conf!LoaderAssumption PROVE Conf!Spec => []Conf!LoadedRight
<1>1. ConfInv => Conf!LoadedRight
  BY BlockersAreRight, DuplicatesNeverAct, FileOrderKept, ChordsAreApart
     DEF ConfInv, Conf!LoadedRight
<1> QED
  BY <1>1, ConfAlways, PTL
-----------------------------------------------------------------------------
(* What Bindings takes the bindings of a file to be (FilesAssumption).        *)
FitsBindings(b) ==
    /\ b.when \in Condition
    /\ IF b.kind = "sequence"
       THEN b.steps \in Seq(SUBSET KeySpec) /\ Len(b.steps) > 1
       ELSE b.keys \subseteq KeySpec /\ IsFiniteSet(b.keys)
    /\ b.kind = "chord" => \A c \in Code : \E spec \in b.keys : c \notin spec

(* A chord has two keys that share no code.                                   *)
LEMMA EntryFits ==
    ASSUME NEW e \in Conf!Entry, ~Conf!Rejected(e)
    PROVE  FitsBindings(Conf!Converted(e))
<1> DEFINE b == Conf!Converted(e)
<1>1. /\ e.keys \in {None} \cup Seq(SUBSET Code) /\ e.chord \in {None} \cup Seq(SUBSET Code)
      /\ e.steps \in {None} \cup Seq(Seq(SUBSET Code)) /\ e.when \in Condition
  BY DEF Conf!Entry, Conf!Code, Code
<1>2. /\ b.kind = IF e.keys # None THEN "combo" ELSE IF e.chord # None THEN "chord" ELSE "sequence"
      /\ b.keys = IF e.keys # None THEN Conf!ToSet(e.keys)
                  ELSE IF e.chord # None THEN Conf!ToSet(e.chord) ELSE {}
      /\ b.steps = IF e.steps = None THEN <<>> ELSE [i \in DOMAIN e.steps |-> Conf!ToSet(e.steps[i])]
      /\ b.when = e.when
  BY DEF Conf!Converted
<1>3. ~Conf!NoKind(e)
  BY DEF Conf!Rejected
<1> HIDE DEF b
<1>4. \A combo : Conf!Parses(combo) => Conf!ToSet(combo) \subseteq KeySpec
  BY DEF Conf!Parses, Conf!KeySpec, KeySpec
<1>5. ASSUME NEW S, NEW s \in Seq(S) PROVE IsFiniteSet(Conf!ToSet(s))
  <2>1. DOMAIN s = 1 .. Len(s) /\ Len(s) \in Nat
    OBVIOUS
  <2>2. IsFiniteSet(1 .. Len(s))
    BY <2>1, FS_Interval
  <2>3. s \in Surjection(1 .. Len(s), Conf!ToSet(s))
    BY <2>1 DEF Surjection, Conf!ToSet
  <2> QED BY <2>2, <2>3, FS_Surjection
<1>6. CASE e.keys # None
  <2>1. e.keys \in Seq(SUBSET Code) /\ Conf!Parses(e.keys)
    BY <1>1, <1>3, <1>6 DEF Conf!NoKind
  <2>2. b.keys = Conf!ToSet(e.keys) /\ b.kind = "combo" /\ b.when \in Condition
    BY <1>1, <1>2, <1>6
  <2>3. b.keys \subseteq KeySpec /\ IsFiniteSet(b.keys)
    BY <1>4, <1>5, <2>1, <2>2
  <2> QED BY <2>2, <2>3 DEF FitsBindings, b
<1>7. CASE e.keys = None /\ e.chord # None
  <2>1. /\ e.chord \in Seq(SUBSET Code) /\ Conf!Parses(e.chord) /\ ~(Len(e.chord) < 2)
        /\ ~Conf!Overlap(e.chord)
    BY <1>1, <1>3, <1>7 DEF Conf!NoKind
  <2>2. b.keys = Conf!ToSet(e.chord) /\ b.kind = "chord" /\ b.when \in Condition
    BY <1>1, <1>2, <1>7
  <2>3. b.keys \subseteq KeySpec /\ IsFiniteSet(b.keys)
    BY <1>4, <1>5, <2>1, <2>2
  <2>4. 1 \in DOMAIN e.chord /\ 2 \in DOMAIN e.chord
    BY <2>1
  <2>5. e.chord[1] \cap e.chord[2] = {}
    BY <2>1, <2>4 DEF Conf!Overlap
  <2>6. e.chord[1] \in b.keys /\ e.chord[2] \in b.keys
    BY <2>2, <2>4 DEF Conf!ToSet
  <2>7. \A c \in Code : \E spec \in b.keys : c \notin spec
    BY <2>5, <2>6
  <2> QED BY <2>2, <2>3, <2>7 DEF FitsBindings, b
<1>8. CASE e.keys = None /\ e.chord = None
  <2>1. e.steps # None
    <3> SUFFICES ASSUME e.steps = None PROVE FALSE
      OBVIOUS
    <3>1. {field \in {"keys", "steps", "chord"} : e[field] # None} = {}
      BY <1>8
    <3>2. Cardinality({field \in {"keys", "steps", "chord"} : e[field] # None}) = 0
      BY <3>1, FS_EmptySet
    <3>3. Cardinality({field \in {"keys", "steps", "chord"} : e[field] # None}) = 1
      BY <1>3, ConfSets DEF Conf!NoKind
    <3> QED BY <3>2, <3>3
  <2>2. /\ e.steps \in Seq(Seq(SUBSET Code)) /\ ~(Len(e.steps) < 2)
        /\ \A i \in DOMAIN e.steps : Conf!Parses(e.steps[i])
    BY <1>1, <1>3, <2>1 DEF Conf!NoKind
  <2>3. /\ b.steps = [i \in DOMAIN e.steps |-> Conf!ToSet(e.steps[i])]
        /\ b.kind = "sequence" /\ b.when \in Condition
    BY <1>1, <1>2, <1>8, <2>1
  <2>4. DOMAIN e.steps = 1 .. Len(e.steps) /\ Len(e.steps) \in Nat
    BY <2>2
  <2>5. b.steps \in [1 .. Len(e.steps) -> SUBSET KeySpec]
    BY <1>4, <2>2, <2>3, <2>4
  <2>6. b.steps \in Seq(SUBSET KeySpec) /\ Len(b.steps) = Len(e.steps)
    BY <2>4, <2>5
  <2> QED BY <2>2, <2>3, <2>4, <2>6 DEF FitsBindings, b
<1> QED BY <1>6, <1>7, <1>8

(* A blocker is a combo; its condition is that of its owners.                 *)
LEMMA BlockerFits ==
    ASSUME Conf!LoaderAssumption, LoadedSo, NEW j \in Conf!Leads(Given)
    PROVE  FitsBindings(Conf!Blocker(Given, j))
<1> DEFINE b == Conf!Blocker(Given, j)
           S == {Given[i].when : i \in Conf!Owners(Given, j)}
<1>1. /\ DOMAIN Given = 1 .. Entries
      /\ \A i \in 1 .. Entries : /\ loaded[i] \in Conf!Entry /\ ~Conf!Rejected(loaded[i])
                                 /\ Given[i] = Conf!Converted(loaded[i])
  BY LiveList
<1>2. \A i \in 1 .. Entries : Given[i].name \in DOMAIN Hotkey /\ Given[i].when \in Condition
  BY <1>1, EntryConverts, EntryFits DEF FitsBindings
<1>3. /\ b.kind = "combo" /\ b.keys = Conf!HotkeyOf(Given[j]) /\ b.when = Conf!AnyOf(S)
  BY DEF Conf!Blocker
<1>4. j \in 1 .. Entries /\ Conf!HotkeyOf(Given[j]) # None
  BY <1>1 DEF Conf!Leads, Conf!Requests
<1>5. b.keys \subseteq KeySpec /\ IsFiniteSet(b.keys)
  BY <1>2, <1>3, <1>4, ConfSets DEF Conf!LoaderAssumption, Conf!HotkeyOf, Conf!KeySpec, KeySpec
<1>6. b.when \in Condition
  <2>1. S \subseteq Condition
    BY <1>1, <1>2 DEF Conf!Owners, Conf!For, Conf!Requests
  <2>2. S # {}
    BY <1>4 DEF Conf!Leads, Conf!Owners, Conf!For
  <2> HIDE DEF S
  <2>3. \A conditions \in (SUBSET Condition) \ {{}} : UNION conditions \in Condition
    BY DEF Conf!LoaderAssumption
  <2>4. S \in (SUBSET Condition) \ {{}}
    BY <2>1, <2>2
  <2>5. UNION S \in Condition
    BY <2>3, <2>4
  <2> QED BY <1>3, <2>5, ConditionAssumption DEF Conf!AnyOf
<1> HIDE DEF b
<1>7. FitsBindings(b)
  BY <1>3, <1>5, <1>6 DEF FitsBindings
<1> QED BY <1>7 DEF b

(* What Bindings asks of its files the loader gives: combos, chords that no   *)
(* code presses whole, and sequences of two steps or more, over keys and      *)
(* conditions there are (parse_ron_str, expand_with_auto_blockers).           *)
THEOREM LoadedFits ==
    ASSUME Conf!LoaderAssumption
    PROVE  Conf!Spec => [](live # None => \A i \in DOMAIN live : FitsBindings(live[i]))
<1>1. ASSUME LoadedSo, NEW i \in DOMAIN live PROVE FitsBindings(live[i])
  <2>1. /\ Entries \in Nat /\ Added \in Nat /\ DOMAIN live = 1 .. Entries + Added
        /\ \A n \in 1 .. Entries : /\ loaded[n] \in Conf!Entry /\ ~Conf!Rejected(loaded[n])
                                   /\ live[n] = Conf!Converted(loaded[n])
        /\ \E lead \in [1 .. Added -> Conf!Leads(Given)] :
              \A n \in 1 .. Added : live[Entries + n] = Conf!Blocker(Given, lead[n])
    BY <1>1, LiveList
  <2>2. CASE i \in 1 .. Entries
    BY <2>1, <2>2, EntryFits
  <2>3. CASE i \notin 1 .. Entries
    <3>1. i - Entries \in 1 .. Added /\ i = Entries + (i - Entries)
      BY <1>1, <2>1, <2>3
    <3>2. PICK j \in Conf!Leads(Given) : live[i] = Conf!Blocker(Given, j)
      BY <2>1, <3>1
    <3> QED BY <1>1, <3>2, BlockerFits
  <2> QED BY <2>2, <2>3
<1>2. ConfInv => (live # None => \A i \in DOMAIN live : FitsBindings(live[i]))
  BY <1>1 DEF ConfInv
<1> QED
  BY <1>2, ConfAlways, PTL
-----------------------------------------------------------------------------
(* The template is only about to be written where the user named no file, and *)
(* until then no file was made; while the made one is there as it was made,   *)
(* the user left none.                                                        *)
FileInv ==
    /\ Conf!FileKept /\ made \in {"none", "new", "shared"}
    /\ stage \in {"write", "fill"} => path = "beside exe"
    /\ stage \in {"read", "write"} => made = "none"
    /\ made = "new" => users = None

(* No file was written at the start.                                          *)
LEMMA FileInit == Conf!Init => FileInv
BY DEF Conf!Init, FileInv, Conf!FileKept

(* Each step of the loader and of the user keeps the file.  The file that     *)
(* write_default makes takes the place of a missing one only: none was made   *)
(* before, so by FileKept the user left none.  What it writes then goes to    *)
(* that file: the user left none, or saved into it.                           *)
LEMMA FileStep == FileInv /\ [Conf!Next]_(Conf!vars) => FileInv'
<1> SUFFICES ASSUME FileInv, [Conf!Next]_(Conf!vars) PROVE FileInv'
  OBVIOUS
<1>1. CASE Conf!Read
  <2>1. UNCHANGED <<path, users, disk, made>> /\ stage' # "read" /\ stage' # "fill"
    BY <1>1 DEF Conf!Read, Conf!Fails
  <2>2. stage' = "write" => stage = "read" /\ path = "beside exe"
    BY <1>1 DEF Conf!Read, Conf!Fails
  <2> QED BY <2>1, <2>2 DEF FileInv, Conf!FileKept
<1>2. CASE Conf!OpenNew
  <2>1. /\ UNCHANGED <<path, users>> /\ path = "beside exe" /\ made = "none"
        /\ stage' \in {"fill", "read again", "failed"}
    BY <1>2 DEF Conf!OpenNew, FileInv
  <2>2. CASE disk' = disk /\ made' = made
    BY <2>1, <2>2 DEF FileInv, Conf!FileKept
  <2>3. CASE disk = None /\ made' = "new"
    <3>1. users = None
      BY <2>1, <2>3 DEF FileInv, Conf!FileKept
    <3> QED BY <2>1, <2>3, <3>1 DEF FileInv, Conf!FileKept
  <2> QED BY <1>2, <2>2, <2>3 DEF Conf!OpenNew, Conf!Creates
<1>3. CASE Conf!WriteAll
  <2>1. /\ UNCHANGED <<path, users, made>> /\ path = "beside exe"
        /\ stage' \in {"read again", "failed"}
        /\ disk' \in Conf!Written \cup Conf!HalfWritten
    BY <1>3 DEF Conf!WriteAll, FileInv
  <2>2. made = "none" => disk' = disk
    BY <2>1 DEF Conf!Written, Conf!HalfWritten
  <2> QED BY <2>1, <2>2 DEF FileInv, Conf!FileKept
<1>4. CASE Conf!Parse
  BY <1>4 DEF Conf!Parse, Conf!Fails, FileInv, Conf!FileKept
<1>5. CASE Conf!Reload
  BY <1>5 DEF Conf!Reload, FileInv, Conf!FileKept
<1>6. CASE Conf!Edit
  <2>1. /\ UNCHANGED <<path, stage>> /\ users' = disk'
        /\ made' = "none" \/ (stage = "fill" /\ made' = "shared")
    BY <1>6 DEF Conf!Edit
  <2> QED BY <2>1 DEF FileInv, Conf!FileKept
<1>7. CASE UNCHANGED Conf!vars
  BY <1>7 DEF Conf!vars, FileInv, Conf!FileKept
<1> QED
  BY <1>1, <1>2, <1>3, <1>4, <1>5, <1>6, <1>7 DEF Conf!Next

(* The daemon never changes a file that the user left, nor writes a file the  *)
(* user named, whatever comes and goes between its calls (load,               *)
(* write_default); but a save into the file that write_default just made is   *)
(* lost to the template.                                                      *)
THEOREM FileIsKept == Conf!Spec => []Conf!FileKept
<1>1. FileInv => Conf!FileKept
  BY DEF FileInv
<1> QED
  BY <1>1, FileInit, FileStep, PTL DEF Conf!Spec
=============================================================================
