--------------------------- MODULE Gestures_proofs ---------------------------
(* Theorems of Gestures: its types, that the timers its entries wait for are  *)
(* kept, and that every press ends as the times of its key events say.        *)
EXTENDS Gestures, TLAPS

PendingOf(ps, holds) ==
    {ps[k].seq : k \in {j \in Key : ps[j] # None}} \cup {h.seq : h \in holds}

(* No two entries have the same number, and none a later one than n.          *)
Numbered(ps, holds, n) ==
    /\ \A k \in Key : ps[k] # None => ps[k].seq <= n
    /\ \A h \in holds : h.seq <= n
    /\ \A k, j \in Key : ps[k] # None /\ ps[j] # None /\ ps[k].seq = ps[j].seq => k = j
    /\ \A k \in Key, h \in holds : ps[k] # None => ps[k].seq # h.seq
    /\ \A g, h \in holds : g.seq = h.seq => g = h

EndsFrom(st, due) ==
    /\ st.up # None => st.up >= due
    /\ st.again # None => st.again >= due
    /\ st.passed /\ st.other # None => st.other >= due

(* What a pending press of key k remembers of its story.                      *)
Deadlines(p, st) ==
    /\ p.tap = IF st.group.tap = None THEN None ELSE st.down + st.group.tap
    /\ p.double = IF st.group.double = None THEN None ELSE st.down + st.group.double
    /\ p.hold = IF st.refused \/ st.group.hold = None THEN None ELSE st.down + st.group.hold

HeldTold(p, st) ==
    /\ Deadlines(p, st)
    /\ st.up = None /\ ~st.outside
    /\ st.passed /\ st.other # None => p.hold # None /\ st.other >= p.hold

SecondTold(p, st) ==
    /\ st.up # None /\ st.group.double # None
    /\ p.due = st.down + st.group.double /\ st.up < p.due
    /\ p.tapWaits <=> st.group.tap # None /\ st.up < st.down + st.group.tap
    /\ p.passed <=> st.passed
    /\ st.passed => st.other = None
    /\ st.outside => ~p.tapWaits /\ ~p.passed
    /\ st.refused \/ st.group.hold = None \/ st.up < st.down + st.group.hold

PressTold(k, p, st, rec, at) ==
    /\ st # None
    /\ p.group = st.group /\ st.group.key = k
    /\ st.down <= at /\ (st.up # None => st.up <= at) /\ (st.other # None => st.other <= at)
    /\ st.again = None
    /\ p.phase = "held" => HeldTold(p, st) /\ (st.passed <=> rec[k] = "Passed")
    /\ p.phase = "second" => SecondTold(p, st)

(* A Hold that is due had its term.                                           *)
HoldTold(h, st, at) ==
    /\ st # None
    /\ st.group.key = h.key /\ st.group.hold # None /\ ~st.refused
    /\ h.due = st.down + st.group.hold /\ h.due <= at
    /\ EndsFrom(st, h.due)

(* The entries, each with its story.                                          *)
Told(ps, holds, told, n, rec, at) ==
    /\ ps \in [Key -> HeldPress \cup SecondPress \cup {None}]
    /\ holds \subseteq DueHold
    /\ told \in [1 .. MaxSeq -> Story \cup {None}]
    /\ Numbered(ps, holds, n)
    /\ \A k \in Key : ps[k] # None => PressTold(k, ps[k], told[ps[k].seq], rec, at)
    /\ \A h \in holds : HoldTold(h, told[h.seq], at)

(* The armings that a step ends, and how.                                     *)
Ends(told, fired, pend, at) ==
    /\ \A s \in 1 .. MaxSeq :
          told[s] # None /\ s \notin pend /\ (\A f \in fired : f[1] # s)
          => Verdict(told[s], at) = "nothing"
    /\ \A f \in fired :
          /\ f[1] \in 1 .. MaxSeq /\ f[1] \notin pend
          /\ told[f[1]] # None /\ f[2] = Verdict(told[f[1]], at)

(* The timers, for the entries and the tables as they are or will be.         *)
Asked(k, number, due, gen) == [key |-> k, seq |-> number, generation |-> gen, due |-> due]

Fits(t, ps, holds) ==
    /\ \A k \in Key :
          ps[k] # None /\ TimerDue(ps[k]) # None /\ ps[k].seq = t.seq
          => t.key = k /\ t.due = TimerDue(ps[k])
    /\ \A h \in holds : h.seq = t.seq => h.key = t.key /\ h.due = t.due

TimersFit(q, ps, holds, n, gen) ==
    /\ q \subseteq Timer
    /\ \A t \in q : t.generation = gen /\ t.seq <= n /\ Fits(t, ps, holds)

Covers(q, ps, holds, told, gen) ==
    /\ \A h \in holds : Asked(h.key, h.seq, h.due, gen) \in q
    /\ \A k \in Key : ps[k] # None /\ TimerDue(ps[k]) # None =>
          \/ Asked(k, ps[k].seq, TimerDue(ps[k]), gen) \in q
          \/ ps[k].phase = "second" /\ told[ps[k].seq].refused

(* What is left of q when the stale timers go.                                *)
KeptOf(q, ps, holds) == {t \in q : Live(t, ps, holds)}

Storied == \A s \in 1 .. MaxSeq : story[s] # None => s \in PendingOf(presses, dueHolds)

(* The waitable timer is set for what the loop believes, and early enough     *)
(* where it waits.                                                            *)
WakeRight ==
    /\ armed # None => wake = armed
    /\ loop = "wait" =>
          \A t \in queue : Live(t, presses, dueHolds) => wake # None /\ wake <= t.due

Entries == Told(presses, dueHolds, story, seq, record, now) /\ Storied
Timers  == /\ TimersFit(queue, presses, dueHolds, seq, generation)
           /\ Covers(queue, presses, dueHolds, story, generation)
           /\ WakeRight

IInv == TypeOK /\ Entries /\ Timers /\ OutcomeByClock
-----------------------------------------------------------------------------
(* Facts of the model's terms.                                                *)
LEMMA NotNone ==
    /\ None \notin Nat /\ None \notin Key
    /\ \A x \in Group : x # None
    /\ \A x \in HeldPress : x # None
    /\ \A x \in SecondPress : x # None
    /\ \A x \in Story : x # None
BY GestureAssumption, NoneAssumption

(* The parts of a gesture group.                                              *)
LEMMA GroupFields ==
    ASSUME NEW g \in Group
    PROVE  /\ g.key \in Key /\ g.combo \in SUBSET Key /\ g.key \in g.combo
           /\ g.tap \in (1 .. MaxTime) \cup {None} /\ g.hold \in (1 .. MaxTime) \cup {None}
           /\ g.double \in (1 .. MaxTime) \cup {None} /\ g.block \in BOOLEAN
BY GestureAssumption DEF Term

(* A term from now on ends in the range of the deadlines.                     *)
LEMMA AfterNow ==
    ASSUME now \in Time, NEW term \in Term
    PROVE  After(term) \in Deadline /\ (After(term) = None <=> term = None)
BY GestureAssumption DEF After, Term, Time, Deadline

(* HeldOut, end by end.                                                       *)
LEMMA HeldOutIs ==
    ASSUME NEW st \in Story, NEW at \in Time
    PROVE  HeldOut(st, at) <=>
             /\ st.group.hold # None /\ ~st.refused
             /\ at >= st.down + st.group.hold
             /\ EndsFrom(st, st.down + st.group.hold)
BY DEF HeldOut, EndsFrom

(* The pending armings, in the next state too.                                *)
LEMMA PendingIs ==
    /\ Pending = PendingOf(presses, dueHolds)
    /\ Pending' = PendingOf(presses', dueHolds')
BY DEF Pending, PendingOf

(* What Settle does with armings that end as they should.                     *)
SettledSo(told, fired, pend) ==
    /\ story' \in [1 .. MaxSeq -> Story \cup {None}]
    /\ \A s \in 1 .. MaxSeq : story'[s] = IF s \in pend THEN told[s] ELSE None
    /\ \A e \in settled' :
         /\ e.story # None /\ e.outcome = Verdict(e.story, e.at)
         /\ e.outcome = "hold" => \E f \in fired : f[2] = "hold" /\ e.story = told[f[1]]

(* Armings that end as the clock says are settled as it says.                 *)
LEMMA Settles ==
    ASSUME NEW told \in [1 .. MaxSeq -> Story \cup {None}], NEW fired, NEW pend,
           pend = Pending', now' = now,
           Settle(told, fired), Ends(told, fired, pend, now)
    PROVE  SettledSo(told, fired, pend)
<1> DEFINE over(s) == (told[s] # None /\ s \notin pend) \/ (\E f \in fired : f[1] = s)
           ended == {s \in 1 .. MaxSeq : over(s)}
           outcome(s) == IF \E f \in fired : f[1] = s
                         THEN (CHOOSE f \in fired : f[1] = s)[2] ELSE "nothing"
<1>1. /\ settled' = {[story |-> told[s], outcome |-> outcome(s), at |-> now] : s \in ended}
      /\ story' = [s \in 1 .. MaxSeq |-> IF s \in ended THEN None ELSE told[s]]
  BY DEF Settle
<1>2. ASSUME NEW s \in 1 .. MaxSeq
      PROVE  (IF s \in ended THEN None ELSE told[s]) = IF s \in pend THEN told[s] ELSE None
  BY DEF Ends
<1>3. ASSUME NEW s \in ended
      PROVE  /\ told[s] # None /\ outcome(s) = Verdict(told[s], now)
             /\ outcome(s) = "hold" =>
                  \E f \in fired : f[2] = "hold" /\ told[s] = told[f[1]]
  <2>1. CASE \E f \in fired : f[1] = s
    <3> DEFINE g == CHOOSE f \in fired : f[1] = s
    <3>1. g \in fired /\ g[1] = s
      BY <2>1
    <3>2. outcome(s) = g[2]
      BY <2>1
    <3> HIDE DEF g, outcome
    <3> QED BY <3>1, <3>2 DEF Ends
  <2>2. CASE ~\E f \in fired : f[1] = s
    BY <2>2 DEF Ends
  <2> QED BY <2>1, <2>2
<1> HIDE DEF ended, outcome
<1>4. /\ story' \in [1 .. MaxSeq -> Story \cup {None}]
      /\ \A s \in 1 .. MaxSeq : story'[s] = IF s \in pend THEN told[s] ELSE None
  BY <1>1, <1>2
<1>5. ASSUME NEW e \in settled'
      PROVE  /\ e.story # None /\ e.outcome = Verdict(e.story, e.at)
             /\ e.outcome = "hold" => \E f \in fired : f[2] = "hold" /\ e.story = told[f[1]]
  <2>1. PICK s \in ended : e = [story |-> told[s], outcome |-> outcome(s), at |-> now]
    BY <1>1
  <2>2. e.story = told[s] /\ e.outcome = outcome(s) /\ e.at = now
    BY <2>1
  <2> QED BY <2>2, <1>3
<1> QED BY <1>4, <1>5 DEF SettledSo
-----------------------------------------------------------------------------
(* What a key-down of k, and a key-up, do to the story st of an arming.       *)
DownTo(k, group, st, new, at) ==
    /\ new.group = st.group /\ new.down = st.down /\ (new.passed <=> st.passed)
    /\ new.up = st.up /\ (new.refused <=> st.refused)
    /\ st.group.key = k =>
          /\ new.other = st.other /\ (new.outside <=> st.outside)
          /\ new.again = IF st.again = None THEN at ELSE st.again
          /\ new.byGroup = IF st.again = None THEN group ELSE st.byGroup
    /\ st.group.key # k =>
          /\ new.again = st.again /\ new.byGroup = st.byGroup
          /\ new.other = IF st.up = None /\ st.other = None THEN at ELSE st.other
          /\ new.outside <=> st.outside \/ (st.up # None /\ k \notin st.group.combo)

UpTo(k, st, new, at) ==
    /\ new.group = st.group /\ new.down = st.down /\ (new.passed <=> st.passed)
    /\ new.other = st.other /\ (new.outside <=> st.outside)
    /\ new.again = st.again /\ new.byGroup = st.byGroup
    /\ (new.refused <=> st.refused)
    /\ new.up = IF st.group.key = k /\ st.up = None /\ st.again = None THEN at ELSE st.up

(* A key-down tells each pending arming its part, and the others nothing.     *)
LEMMA DownStories ==
    ASSUME story \in [1 .. MaxSeq -> Story \cup {None}], now \in Time,
           NEW k \in Key, NEW group \in Group \cup {None}
    PROVE  /\ ToldDown(k, group) \in [1 .. MaxSeq -> Story \cup {None}]
           /\ \A s \in 1 .. MaxSeq :
                /\ story[s] = None => ToldDown(k, group)[s] = None
                /\ story[s] # None =>
                     /\ ToldDown(k, group)[s] \in Story
                     /\ DownTo(k, group, story[s], ToldDown(k, group)[s], now)
<1>1. ASSUME NEW s \in 1 .. MaxSeq, story[s] = None PROVE ToldDown(k, group)[s] = None
  BY <1>1 DEF ToldDown
<1>2. ASSUME NEW s \in 1 .. MaxSeq, story[s] # None
      PROVE  /\ ToldDown(k, group)[s] \in Story
             /\ DownTo(k, group, story[s], ToldDown(k, group)[s], now)
  <2> DEFINE st == story[s]
  <2>1. st \in Story /\ st # None
    BY <1>2
  <2>2. CASE st.group.key = k
    <3>1. ToldDown(k, group)[s] = IF st.again = None
              THEN [st EXCEPT !.again = now, !.byGroup = group] ELSE st
      BY <1>2, <2>2 DEF ToldDown
    <3> HIDE DEF st
    <3>2. PICK new : new = ToldDown(k, group)[s]
      OBVIOUS
    <3>3. new \in Story
      BY <2>1, <3>1, <3>2 DEF Story
    <3>4. DownTo(k, group, st, new, now)
      BY ONLY <2>1, <2>2, <3>1, <3>2 DEF Story, DownTo
    <3> QED BY <3>2, <3>3, <3>4 DEF st
  <2>3. CASE st.group.key # k
    <3>1. ToldDown(k, group)[s] =
              IF st.up = None
              THEN [st EXCEPT !.other = IF @ = None THEN now ELSE @]
              ELSE [st EXCEPT !.outside = @ \/ k \notin st.group.combo]
      BY <1>2, <2>3 DEF ToldDown
    <3> HIDE DEF st
    <3>2. ToldDown(k, group)[s] \in Story /\ DownTo(k, group, st, ToldDown(k, group)[s], now)
      <4>1. CASE st.up = None
        BY <2>1, <2>3, <3>1, <4>1 DEF Story, DownTo
      <4>2. CASE st.up # None
        <5> DEFINE outside == st.outside \/ k \notin st.group.combo
        <5>1. ToldDown(k, group)[s] = [st EXCEPT !.outside = outside]
          BY <3>1, <4>2
        <5>2. outside \in BOOLEAN
          OBVIOUS
        <5>3. /\ [st EXCEPT !.outside = outside] \in Story
              /\ [st EXCEPT !.outside = outside].outside = outside
          <6> HIDE DEF outside
          <6> QED BY <2>1, <5>2 DEF Story
        <5> QED BY <2>1, <2>3, <4>2, <5>1, <5>3 DEF Story, DownTo
      <4> QED BY <4>1, <4>2
    <3> QED BY <3>2 DEF st
  <2> QED BY <2>2, <2>3
<1>3. ToldDown(k, group) \in [1 .. MaxSeq -> Story \cup {None}]
  <2>1. \A s \in 1 .. MaxSeq : ToldDown(k, group)[s] \in Story \cup {None}
    BY <1>1, <1>2
  <2>2. ToldDown(k, group) = [s \in 1 .. MaxSeq |-> ToldDown(k, group)[s]]
    BY DEF ToldDown
  <2> QED BY <2>1, <2>2
<1> QED BY <1>1, <1>2, <1>3

(* So does a key-up.                                                          *)
LEMMA UpStories ==
    ASSUME story \in [1 .. MaxSeq -> Story \cup {None}], now \in Time, NEW k \in Key
    PROVE  /\ ToldUp(k) \in [1 .. MaxSeq -> Story \cup {None}]
           /\ \A s \in 1 .. MaxSeq :
                /\ story[s] = None => ToldUp(k)[s] = None
                /\ story[s] # None =>
                     /\ ToldUp(k)[s] \in Story
                     /\ UpTo(k, story[s], ToldUp(k)[s], now)
<1>1. ASSUME NEW s \in 1 .. MaxSeq, story[s] = None PROVE ToldUp(k)[s] = None
  BY <1>1 DEF ToldUp
<1>2. ASSUME NEW s \in 1 .. MaxSeq, story[s] # None
      PROVE  ToldUp(k)[s] \in Story /\ UpTo(k, story[s], ToldUp(k)[s], now)
  <2> DEFINE st == story[s]
  <2>1. st \in Story /\ st # None
    BY <1>2
  <2>2. ToldUp(k)[s] = IF st.group.key = k /\ st.up = None /\ st.again = None
                       THEN [st EXCEPT !.up = now] ELSE st
    BY <1>2 DEF ToldUp
  <2> HIDE DEF st
  <2>3. ToldUp(k)[s] \in Story /\ UpTo(k, st, ToldUp(k)[s], now)
    BY <2>1, <2>2 DEF Story, UpTo
  <2> QED BY <2>3 DEF st
<1>3. ToldUp(k) \in [1 .. MaxSeq -> Story \cup {None}]
  <2>1. \A s \in 1 .. MaxSeq : ToldUp(k)[s] \in Story \cup {None}
    BY <1>1, <1>2
  <2>2. ToldUp(k) = [s \in 1 .. MaxSeq |-> ToldUp(k)[s]]
    BY DEF ToldUp
  <2> QED BY <2>1, <2>2
<1> QED BY <1>1, <1>2, <1>3
-----------------------------------------------------------------------------
(* A Hold that is due stays one, whatever key comes.                          *)
LEMMA HoldStays ==
    ASSUME now \in Time, NEW k \in Key, NEW group \in Group \cup {None},
           NEW h \in DueHold, NEW st \in Story, NEW new \in Story,
           HoldTold(h, st, now),
           DownTo(k, group, st, new, now) \/ UpTo(k, st, new, now)
    PROVE  HoldTold(h, new, now)
BY NotNone DEF HoldTold, DownTo, UpTo, EndsFrom, DueHold, Story, Time

(* The press p of another key under a key-down of k: what is not cancelled    *)
(* stays as it is told, and what is cancelled ends as the clock says.         *)
LEMMA OtherStays ==
    ASSUME GestureAssumption, now \in Time, NEW k \in Key, NEW j \in Key \ {k},
           NEW group \in Group \cup {None}, NEW p \in HeldPress \cup SecondPress,
           NEW st \in Story, NEW new \in Story, NEW rec, rec[j] = record[j],
           PressTold(j, p, st, record, now), DownTo(k, group, st, new, now),
           ~Cancels(k, p)
    PROVE  PressTold(j, p, new, rec, now)
<1>1. p # None /\ new # None /\ st.group \in Group
  BY NotNone DEF Story
<1>2. CASE p.phase = "held"
  <2>1. p \in HeldPress
    BY <1>2 DEF SecondPress
  <2>2. p.hold \in Deadline /\ p.group.key = j
    BY <2>1 DEF HeldPress, PressTold
  <2> QED BY <1>1, <1>2, <2>2
          DEF PressTold, HeldTold, Deadlines, DownTo, Cancels, Reached, Story, Time, Deadline
<1>3. CASE p.phase = "second"
  <2>1. p \in SecondPress
    BY <1>3 DEF HeldPress
  <2> QED BY <1>1, <1>3, <2>1
          DEF PressTold, SecondTold, DownTo, Cancels, Story, Time, SecondPress
<1> QED BY <1>2, <1>3 DEF HeldPress, SecondPress

(* What the key-down of k cancels ends as the clock says.                     *)
LEMMA OtherEnds ==
    ASSUME GestureAssumption, now \in Time, NEW k \in Key, NEW j \in Key \ {k},
           NEW group \in Group \cup {None}, NEW p \in HeldPress \cup SecondPress,
           NEW st \in Story, NEW new \in Story,
           PressTold(j, p, st, record, now), DownTo(k, group, st, new, now),
           Cancels(k, p)
    PROVE  Verdict(new, now) = IF p.phase = "second" /\ p.tapWaits THEN "tap" ELSE "nothing"
<1>1. p # None /\ st.group \in Group /\ new.group = st.group /\ st.group.key = j
  BY NotNone DEF Story, DownTo, PressTold
<1>2. /\ st.group.tap \in (1 .. MaxTime) \cup {None}
      /\ st.group.hold \in (1 .. MaxTime) \cup {None}
      /\ st.group.double \in (1 .. MaxTime) \cup {None}
  BY <1>1, GroupFields
<1>3. CASE p.phase = "held"
  <2>1. p \in HeldPress
    BY <1>3 DEF SecondPress
  <2>2. p.hold \in Deadline /\ p.group.key = j
    BY <2>1 DEF HeldPress, PressTold
  <2>3. ~HeldOut(new, now)
    BY <1>1, <1>2, <1>3, <2>2, HeldOutIs
       DEF PressTold, HeldTold, Deadlines, DownTo, Cancels, Reached, Story, Time,
           Deadline, EndsFrom
  <2>4. new.up = None
    BY <1>3 DEF PressTold, HeldTold, DownTo
  <2> QED BY <1>3, <2>3, <2>4 DEF Verdict
<1>4. CASE p.phase = "second"
  <2>1. p \in SecondPress
    BY <1>4 DEF HeldPress
  <2>2. ~HeldOut(new, now)
    BY <1>1, <1>2, <1>4, HeldOutIs
       DEF PressTold, SecondTold, DownTo, Story, Time, EndsFrom
  <2>3. /\ new.up # None /\ ~(new.passed /\ new.other # None) /\ new.outside
        /\ InTerm(new, new.group.double)
        /\ p.tapWaits <=> InTerm(new, new.group.tap)
        /\ p.tapWaits \/ new.passed
    BY <1>1, <1>2, <1>4, <2>1
       DEF PressTold, SecondTold, DownTo, Story, Time, InTerm, Cancels, SecondPress
  <2> QED BY <1>4, <2>2, <2>3 DEF Verdict
<1> QED BY <1>3, <1>4 DEF HeldPress, SecondPress

(* The press p of k itself under a key-down of k: a second press is a         *)
(* DoubleTap or lets the Tap go, a held one is over, a Hold whose term has    *)
(* passed is due.                                                             *)
LEMMA OwnEnds ==
    ASSUME GestureAssumption, now \in Time, NEW k \in Key,
           NEW group \in Group \cup {None}, NEW p \in HeldPress \cup SecondPress,
           NEW st \in Story, NEW new \in Story,
           PressTold(k, p, st, record, now), DownTo(k, group, st, new, now)
    PROVE  /\ p.phase = "second" =>
                Verdict(new, now) = IF Completes(p, group) THEN "double"
                                    ELSE IF p.tapWaits THEN "tap" ELSE "nothing"
           /\ p.phase = "held" =>
                IF Reached(p.hold)
                THEN HoldTold([key |-> k, seq |-> p.seq, due |-> p.hold], new, now)
                ELSE Verdict(new, now) = "nothing"
<1>1. p # None /\ st.group \in Group /\ new.group = st.group /\ st.group.key = k
  BY NotNone DEF Story, DownTo, PressTold
<1>2. /\ st.group.tap \in (1 .. MaxTime) \cup {None}
      /\ st.group.hold \in (1 .. MaxTime) \cup {None}
      /\ st.group.double \in (1 .. MaxTime) \cup {None}
  BY <1>1, GroupFields
<1>3. ASSUME p.phase = "second"
      PROVE  Verdict(new, now) = IF Completes(p, group) THEN "double"
                                 ELSE IF p.tapWaits THEN "tap" ELSE "nothing"
  <2>1. p \in SecondPress
    BY <1>3 DEF HeldPress
  <2>2. ~HeldOut(new, now)
    BY <1>1, <1>2, <1>3, HeldOutIs
       DEF PressTold, SecondTold, DownTo, Story, Time, EndsFrom
  <2>3. /\ new.up # None /\ ~(new.passed /\ new.other # None)
        /\ InTerm(new, new.group.double)
        /\ p.tapWaits <=> InTerm(new, new.group.tap)
        /\ ~(new.outside /\ (p.tapWaits \/ new.passed))
        /\ new.again = now /\ new.again # None
        /\ new.again < new.down + new.group.double /\ new.byGroup = new.group
              <=> Completes(p, group)
    BY <1>1, <1>2, <1>3, <2>1
       DEF PressTold, SecondTold, DownTo, Story, Time, InTerm, SecondPress, Completes
  <2> HIDE DEF Completes, InTerm
  <2> QED BY <1>3, <2>2, <2>3 DEF Verdict
<1>4. ASSUME p.phase = "held", Reached(p.hold)
      PROVE  HoldTold([key |-> k, seq |-> p.seq, due |-> p.hold], new, now)
  <2>1. p \in HeldPress /\ new # None
    BY <1>4, NotNone DEF SecondPress
  <2>2. p.hold \in Deadline
    BY <2>1 DEF HeldPress
  <2> QED BY <1>1, <1>2, <1>4, <2>1, <2>2
          DEF PressTold, HeldTold, Deadlines, DownTo, Story, Time, Deadline, Reached,
              HoldTold, EndsFrom
<1>5. ASSUME p.phase = "held", ~Reached(p.hold) PROVE Verdict(new, now) = "nothing"
  <2>1. p \in HeldPress
    BY <1>5 DEF SecondPress
  <2>2. p.hold \in Deadline
    BY <2>1 DEF HeldPress
  <2>3. ~HeldOut(new, now)
    BY <1>1, <1>2, <1>5, <2>2, HeldOutIs
       DEF PressTold, HeldTold, Deadlines, DownTo, Reached, Story, Time, Deadline, EndsFrom
  <2>4. new.up = None
    BY <1>5 DEF PressTold, HeldTold, DownTo
  <2> QED BY <2>3, <2>4 DEF Verdict
<1> QED BY <1>3, <1>4, <1>5

(* A press that arms, and its story.                                          *)
LEMMA Arms ==
    ASSUME GestureAssumption, now \in Time, NEW group \in Group,
           NEW number \in 1 .. MaxSeq, NEW passed \in BOOLEAN,
           NEW rec, passed <=> rec[group.key] = "Passed"
    PROVE  /\ NewStory(group, passed) \in Story
           /\ Arm(group, number) \in HeldPress
           /\ Arm(group, number).seq = number
           /\ TimerDue(Arm(group, number)) = After(group.hold)
           /\ PressTold(group.key, Arm(group, number), NewStory(group, passed), rec, now)
<1>1. /\ group.tap \in Term /\ group.hold \in Term /\ group.double \in Term
  BY GroupFields DEF Term
<1>2. NewStory(group, passed) \in Story
  BY DEF NewStory, Story
<1>3. /\ After(group.tap) \in Deadline /\ After(group.hold) \in Deadline
      /\ After(group.double) \in Deadline
  BY <1>1, AfterNow
<1>4. Arm(group, number) \in HeldPress
  BY <1>3 DEF Arm, HeldPress
<1>5. TimerDue(Arm(group, number)) = After(group.hold)
  BY DEF Arm, TimerDue
<1>6. NewStory(group, passed) # None
  BY <1>2, NotNone
<1>7. PressTold(group.key, Arm(group, number), NewStory(group, passed), rec, now)
  BY <1>6 DEF PressTold, HeldTold, Deadlines, Arm, NewStory, After, Time
<1>8. Arm(group, number).seq = number
  BY DEF Arm
<1> QED BY <1>2, <1>4, <1>5, <1>7, <1>8
-----------------------------------------------------------------------------
(* What is told of armings that are not pending does not matter.              *)
LEMMA ToldOfPending ==
    ASSUME NEW ps, NEW holds, NEW told, NEW n, NEW rec, NEW at, NEW new,
           Told(ps, holds, told, n, rec, at),
           new \in [1 .. MaxSeq -> Story \cup {None}],
           \A s \in PendingOf(ps, holds) : new[s] = told[s]
    PROVE  Told(ps, holds, new, n, rec, at)
<1>1. ASSUME NEW k \in Key, ps[k] # None
      PROVE  PressTold(k, ps[k], new[ps[k].seq], rec, at)
  <2>1. ps[k].seq \in PendingOf(ps, holds)
    BY <1>1 DEF PendingOf
  <2> QED BY <1>1, <2>1 DEF Told
<1>2. ASSUME NEW h \in holds PROVE HoldTold(h, new[h.seq], at)
  <2>1. h.seq \in PendingOf(ps, holds)
    BY DEF PendingOf
  <2> QED BY <2>1 DEF Told
<1> QED BY <1>1, <1>2 DEF Told

(* A press whose Hold is forgotten, before its term is over.                  *)
LEMMA ForgetsOne ==
    ASSUME GestureAssumption, now \in Time, NEW k \in Key, NEW seqs,
           NEW p \in HeldPress \cup SecondPress, NEW st \in Story, NEW rec,
           PressTold(k, p, st, rec, now), p.seq \in seqs,
           p.phase = "held" => p.hold # None /\ now < p.hold
    PROVE  LET new == [st EXCEPT !.refused = TRUE]
               q   == ForgottenPress(p, seqs)
           IN  /\ new \in Story
               /\ q # None => /\ q \in HeldPress \cup SecondPress
                              /\ q.seq = p.seq /\ PressTold(k, q, new, rec, now)
                              /\ TimerDue(q) # None => q = p /\ p.phase = "second"
               /\ q = None => p.phase = "held" /\ Verdict(new, now) = "nothing"
<1> DEFINE new == [st EXCEPT !.refused = TRUE]
           q   == ForgottenPress(p, seqs)
<1>1. /\ new \in Story /\ new.refused /\ new # None
      /\ new.group = st.group /\ new.down = st.down /\ (new.passed <=> st.passed)
      /\ new.up = st.up /\ new.other = st.other /\ (new.outside <=> st.outside)
      /\ new.again = st.again
  BY NotNone DEF Story
<1>2. p # None
  BY NotNone
<1>3. CASE p.phase = "second"
  <2>1. q = p
    BY <1>3 DEF ForgottenPress
  <2>2. PressTold(k, p, new, rec, now)
    <3> HIDE DEF new
    <3> QED BY <1>1, <1>3 DEF PressTold, SecondTold
  <2> QED BY <1>1, <1>2, <1>3, <2>1, <2>2
<1>4. CASE p.phase = "held"
  <2>1. p \in HeldPress /\ p.hold \in Deadline
    BY <1>4 DEF HeldPress, SecondPress
  <2>2. q = IF p.tap = None /\ p.double = None THEN None ELSE [p EXCEPT !.hold = None]
    BY <1>2, <1>4 DEF ForgottenPress
  <2>3. ASSUME q # None
        PROVE  /\ q \in HeldPress /\ q.seq = p.seq /\ TimerDue(q) = None
               /\ PressTold(k, q, new, rec, now)
    <3>1. q = [p EXCEPT !.hold = None]
      BY <2>2, <2>3
    <3> HIDE DEF q, new
    <3>2. /\ q \in HeldPress /\ q.seq = p.seq /\ q.hold = None /\ q.phase = "held"
          /\ q.tap = p.tap /\ q.double = p.double /\ q.group = p.group
      BY <2>1, <3>1 DEF HeldPress, Deadline
    <3>3. st.other \in Time \cup {None}
      BY DEF Story
    <3>4. PressTold(k, q, new, rec, now)
      BY <1>1, <1>4, <2>1, <3>2, <3>3
         DEF PressTold, HeldTold, Deadlines, Time, Deadline
    <3> QED BY <3>2, <3>4 DEF TimerDue
  <2>4. Verdict(new, now) = "nothing"
    <3> HIDE DEF new
    <3>1. new.up = None
      BY <1>1, <1>4 DEF PressTold, HeldTold
    <3>2. ~HeldOut(new, now)
      BY <1>1, HeldOutIs
    <3> QED BY <3>1, <3>2 DEF Verdict
  <2> HIDE DEF q, new
  <2>5. q # None => /\ q \in HeldPress \cup SecondPress
                    /\ q.seq = p.seq /\ PressTold(k, q, new, rec, now)
                    /\ TimerDue(q) # None => q = p /\ p.phase = "second"
    BY <2>3
  <2>6. /\ new \in Story
        /\ q # None => /\ q \in HeldPress \cup SecondPress
                       /\ q.seq = p.seq /\ PressTold(k, q, new, rec, now)
                       /\ TimerDue(q) # None => q = p /\ p.phase = "second"
        /\ q = None => p.phase = "held" /\ Verdict(new, now) = "nothing"
    BY <1>1, <1>4, <2>4, <2>5
  <2> QED BY <2>6 DEF q, new
<1> QED BY <1>3, <1>4 DEF HeldPress, SecondPress

(* Entries whose timers could not be set: a Hold is dropped, and a press that *)
(* could only be a Hold ends with nothing; the others stay as they are told.  *)
LEMMA Forgets ==
    ASSUME GestureAssumption, now \in Time, NEW seqs, NEW fired,
           NEW ps, NEW holds, NEW told, NEW n, NEW rec,
           Told(ps, holds, told, n, rec, now),
           Ends(told, fired, PendingOf(ps, holds), now),
           seqs \subseteq PendingOf(ps, holds),
           \A h \in holds : h.seq \notin seqs,
           \A k \in Key : ps[k] # None /\ ps[k].phase = "held" /\ ps[k].seq \in seqs
                          => ps[k].hold # None /\ now < ps[k].hold
    PROVE  LET qs  == Forgotten(ps, seqs)
               new == ToldRefused(told, seqs)
           IN  /\ Told(qs, holds, new, n, rec, now)
               /\ Ends(new, fired, PendingOf(qs, holds), now)
               /\ \A k \in Key : qs[k] # None =>
                     /\ ps[k] # None /\ qs[k].seq = ps[k].seq
                     /\ ps[k].seq \notin seqs => qs[k] = ps[k]
                     /\ ps[k].seq \in seqs /\ TimerDue(qs[k]) # None =>
                           qs[k].phase = "second" /\ new[qs[k].seq].refused
               /\ \A s \in 1 .. MaxSeq : s \notin seqs => new[s] = told[s]
               /\ \A s \in 1 .. MaxSeq : told[s] # None /\ told[s].refused => new[s].refused
<1> DEFINE qs  == Forgotten(ps, seqs)
           new == ToldRefused(told, seqs)
<1>1. /\ ps \in [Key -> HeldPress \cup SecondPress \cup {None}]
      /\ holds \subseteq DueHold /\ told \in [1 .. MaxSeq -> Story \cup {None}]
      /\ Numbered(ps, holds, n)
      /\ \A k \in Key : ps[k] # None => PressTold(k, ps[k], told[ps[k].seq], rec, now)
      /\ \A h \in holds : HoldTold(h, told[h.seq], now)
  BY DEF Told
<1>2. /\ qs = [k \in Key |-> ForgottenPress(ps[k], seqs)]
      /\ new = [s \in 1 .. MaxSeq |->
                   IF s \in seqs /\ told[s] # None THEN [told[s] EXCEPT !.refused = TRUE]
                                                   ELSE told[s]]
  BY DEF Forgotten, ToldRefused
<1>3. new \in [1 .. MaxSeq -> Story \cup {None}]
  <2>1. ASSUME NEW s \in 1 .. MaxSeq, told[s] # None
        PROVE  [told[s] EXCEPT !.refused = TRUE] \in Story
    <3>1. told[s] \in Story
      BY <1>1, <2>1
    <3> QED BY <3>1 DEF Story
  <2>2. \A s \in 1 .. MaxSeq : new[s] \in Story \cup {None}
    BY <1>1, <1>2, <2>1
  <2> HIDE DEF new
  <2> QED BY <1>2, <2>2
<1> HIDE DEF qs, new
<1>4. ASSUME NEW k \in Key, ps[k] # None, ps[k].seq \in seqs
      PROVE  /\ new[ps[k].seq] = [told[ps[k].seq] EXCEPT !.refused = TRUE]
             /\ new[ps[k].seq] \in Story /\ new[ps[k].seq].refused
             /\ qs[k] # None => /\ qs[k] \in HeldPress \cup SecondPress
                                /\ qs[k].seq = ps[k].seq
                                /\ PressTold(k, qs[k], new[ps[k].seq], rec, now)
                                /\ TimerDue(qs[k]) # None => qs[k].phase = "second"
             /\ qs[k] = None => /\ ps[k].phase = "held"
                               /\ Verdict(new[ps[k].seq], now) = "nothing"
  <2> DEFINE p == ps[k]
             st == told[p.seq]
  <2>1. p \in HeldPress \cup SecondPress /\ p.seq \in 1 .. MaxSeq
    BY <1>1, <1>4 DEF HeldPress, SecondPress
  <2>2. PressTold(k, p, st, rec, now) /\ st # None /\ st \in Story
    BY <1>1, <1>4, <2>1 DEF PressTold
  <2>3. p.phase = "held" => p.hold # None /\ now < p.hold
    BY <1>4
  <2>4. qs[k] = ForgottenPress(p, seqs) /\ new[p.seq] = [st EXCEPT !.refused = TRUE]
    BY <1>2, <1>4, <2>1, <2>2
  <2>5. [st EXCEPT !.refused = TRUE].refused
    BY <2>2 DEF Story
  <2> HIDE DEF p, st
  <2>6. /\ new[p.seq] = [st EXCEPT !.refused = TRUE]
        /\ new[p.seq] \in Story /\ new[p.seq].refused
        /\ qs[k] # None => /\ qs[k] \in HeldPress \cup SecondPress
                           /\ qs[k].seq = p.seq
                           /\ PressTold(k, qs[k], new[p.seq], rec, now)
                           /\ TimerDue(qs[k]) # None => qs[k].phase = "second"
        /\ qs[k] = None => p.phase = "held" /\ Verdict(new[p.seq], now) = "nothing"
    <3>1. p.seq \in seqs
      BY <1>4 DEF p
    <3>2. LET w == [st EXCEPT !.refused = TRUE]
              q == ForgottenPress(p, seqs)
          IN  /\ w \in Story
              /\ q # None => /\ q \in HeldPress \cup SecondPress
                             /\ q.seq = p.seq /\ PressTold(k, q, w, rec, now)
                             /\ TimerDue(q) # None => q = p /\ p.phase = "second"
              /\ q = None => p.phase = "held" /\ Verdict(w, now) = "nothing"
      BY <2>1, <2>2, <2>3, <3>1, ForgetsOne
    <3> QED BY <2>4, <2>5, <3>2
  <2> QED BY <2>6 DEF p, st
<1>5. ASSUME NEW k \in Key, ps[k] = None \/ ps[k].seq \notin seqs PROVE qs[k] = ps[k]
  BY <1>2, <1>5 DEF ForgottenPress
<1>6. \A s \in 1 .. MaxSeq : s \notin seqs => new[s] = told[s]
  BY <1>2
<1>7. ASSUME NEW s \in 1 .. MaxSeq, told[s] # None, told[s].refused PROVE new[s].refused
  <2>1. told[s] \in Story
    BY <1>1, <1>7
  <2>2. [told[s] EXCEPT !.refused = TRUE].refused
    BY <2>1 DEF Story
  <2> QED BY <1>2, <1>7, <2>2
<1>8. \A k \in Key : qs[k] # None =>
         /\ ps[k] # None /\ qs[k].seq = ps[k].seq
         /\ ps[k].seq \notin seqs => qs[k] = ps[k]
         /\ ps[k].seq \in seqs /\ TimerDue(qs[k]) # None =>
               qs[k].phase = "second" /\ new[qs[k].seq].refused
  BY <1>4, <1>5
<1>9. Told(qs, holds, new, n, rec, now)
  <2>1. qs \in [Key -> HeldPress \cup SecondPress \cup {None}]
    <3>1. ASSUME NEW k \in Key PROVE qs[k] \in HeldPress \cup SecondPress \cup {None}
      <4>1. CASE ps[k] = None \/ ps[k].seq \notin seqs
        BY <1>1, <1>5, <4>1
      <4>2. CASE ~(ps[k] = None \/ ps[k].seq \notin seqs)
        BY <1>4, <4>2
      <4> QED BY <4>1, <4>2
    <3> QED BY <1>2, <3>1
  <2>2. Numbered(qs, holds, n)
    BY <1>1, <1>8 DEF Numbered
  <2>3. ASSUME NEW k \in Key, qs[k] # None
        PROVE  PressTold(k, qs[k], new[qs[k].seq], rec, now)
    <3>1. CASE ps[k].seq \in seqs
      BY <1>4, <1>8, <2>3, <3>1
    <3>2. CASE ps[k].seq \notin seqs
      <4>1. ps[k] # None /\ qs[k] = ps[k] /\ ps[k].seq \in 1 .. MaxSeq
        BY <1>1, <1>8, <2>3, <3>2 DEF HeldPress, SecondPress
      <4> QED BY <1>1, <1>6, <3>2, <4>1
    <3> QED BY <3>1, <3>2
  <2>4. ASSUME NEW h \in holds PROVE HoldTold(h, new[h.seq], now)
    <3>1. h.seq \in 1 .. MaxSeq
      BY <1>1 DEF DueHold
    <3> QED BY <1>1, <1>6, <3>1
  <2> QED BY <1>1, <1>3, <2>1, <2>2, <2>3, <2>4 DEF Told
<1>10. Ends(new, fired, PendingOf(qs, holds), now)
  <2>1. PendingOf(qs, holds) \subseteq PendingOf(ps, holds)
    BY <1>8 DEF PendingOf
  <2>2. ASSUME NEW f \in fired
        PROVE  /\ f[1] \in 1 .. MaxSeq /\ f[1] \notin PendingOf(qs, holds)
               /\ new[f[1]] # None /\ f[2] = Verdict(new[f[1]], now)
    <3>1. /\ f[1] \in 1 .. MaxSeq /\ f[1] \notin PendingOf(ps, holds)
          /\ told[f[1]] # None /\ f[2] = Verdict(told[f[1]], now)
      BY DEF Ends
    <3>2. new[f[1]] = told[f[1]]
      BY <1>6, <3>1
    <3> QED BY <2>1, <3>1, <3>2
  <2>3. ASSUME NEW s \in 1 .. MaxSeq, new[s] # None, s \notin PendingOf(qs, holds),
               \A f \in fired : f[1] # s
        PROVE  Verdict(new[s], now) = "nothing"
    <3>1. CASE s \notin seqs
      <4>1. s \notin PendingOf(ps, holds)
        <5>1. CASE \E k \in Key : ps[k] # None /\ ps[k].seq = s
          <6>1. PICK k \in Key : ps[k] # None /\ ps[k].seq = s
            BY <5>1
          <6>2. qs[k] = ps[k]
            BY <1>5, <3>1, <6>1
          <6> QED BY <2>3, <6>1, <6>2 DEF PendingOf
        <5>2. CASE \E h \in holds : h.seq = s
          BY <2>3, <5>2 DEF PendingOf
        <5> QED BY <5>1, <5>2 DEF PendingOf
      <4>2. new[s] = told[s]
        BY <1>6, <3>1
      <4> QED BY <2>3, <4>1, <4>2 DEF Ends
    <3>2. CASE s \in seqs
      <4>1. PICK k \in Key : ps[k] # None /\ ps[k].seq = s
        BY <3>2 DEF PendingOf
      <4>2. qs[k] = None
        BY <1>4, <2>3, <3>2, <4>1 DEF PendingOf
      <4> QED BY <1>4, <3>2, <4>1, <4>2
    <3> QED BY <3>1, <3>2
  <2> QED BY <2>2, <2>3 DEF Ends
<1>11. /\ Told(qs, holds, new, n, rec, now)
       /\ Ends(new, fired, PendingOf(qs, holds), now)
       /\ \A k \in Key : qs[k] # None =>
             /\ ps[k] # None /\ qs[k].seq = ps[k].seq
             /\ ps[k].seq \notin seqs => qs[k] = ps[k]
             /\ ps[k].seq \in seqs /\ TimerDue(qs[k]) # None =>
                   qs[k].phase = "second" /\ new[qs[k].seq].refused
       /\ \A s \in 1 .. MaxSeq : s \notin seqs => new[s] = told[s]
       /\ \A s \in 1 .. MaxSeq : told[s] # None /\ told[s].refused => new[s].refused
  BY <1>6, <1>7, <1>8, <1>9, <1>10
<1> QED BY <1>11 DEF qs, new
-----------------------------------------------------------------------------
(* The timers of a timer queue from which the stale ones went.                *)
LEMMA KeptTimers ==
    ASSUME NEW ps, NEW holds, NEW n, NEW q, TimersFit(q, ps, holds, n, generation)
    PROVE  LET kept == KeptOf(q, ps, holds)
           IN  /\ TimersFit(kept, ps, holds, n, generation)
               /\ \A h \in holds : Asked(h.key, h.seq, h.due, generation) \in q
                                   => Asked(h.key, h.seq, h.due, generation) \in kept
               /\ \A k \in Key : ps[k] # None /\ TimerDue(ps[k]) # None
                    /\ Asked(k, ps[k].seq, TimerDue(ps[k]), generation) \in q
                    => Asked(k, ps[k].seq, TimerDue(ps[k]), generation) \in kept
<1>1. TimersFit(KeptOf(q, ps, holds), ps, holds, n, generation)
  BY DEF TimersFit, KeptOf
<1>2. ASSUME NEW h \in holds PROVE Live(Asked(h.key, h.seq, h.due, generation), ps, holds)
  BY DEF Live, Asked
<1>3. ASSUME NEW k \in Key, ps[k] # None, TimerDue(ps[k]) # None
      PROVE  Live(Asked(k, ps[k].seq, TimerDue(ps[k]), generation), ps, holds)
  BY <1>3 DEF Live, Asked
<1> QED BY <1>1, <1>2, <1>3 DEF KeptOf

(* The stories after a step that leaves the entries qs and holds, told as new.*)
Settled(qs, holds, new, fired, n, rec) ==
    /\ Told(presses', dueHolds', story', n, rec, now)
    /\ \A s \in 1 .. MaxSeq : story'[s] # None => s \in PendingOf(presses', dueHolds')
    /\ \A s \in PendingOf(qs, holds) : story'[s] = new[s]
    /\ \A e \in settled' :
         /\ e.story # None /\ e.outcome = Verdict(e.story, e.at)
         /\ e.outcome = "hold" => \E f \in fired : f[2] = "hold" /\ e.story = new[f[1]]

(* Settle, after a step that ends its armings as the clock says.              *)
LEMMA SettledAll ==
    ASSUME NEW qs, NEW holds, NEW new, NEW fired, NEW n, NEW rec,
           presses' = qs, dueHolds' = holds, now' = now, Settle(new, fired),
           Told(qs, holds, new, n, rec, now), Ends(new, fired, PendingOf(qs, holds), now)
    PROVE  Settled(qs, holds, new, fired, n, rec)
<1>1. new \in [1 .. MaxSeq -> Story \cup {None}]
  BY DEF Told
<1> DEFINE pend == PendingOf(qs, holds)
<1>2. pend = PendingOf(qs, holds)
  OBVIOUS
<1>3. pend = Pending' /\ Ends(new, fired, pend, now)
  BY PendingIs
<1> HIDE DEF pend
<1>4. SettledSo(new, fired, pend)
  BY <1>1, <1>3, Settles
<1>5. pend \subseteq 1 .. MaxSeq
  BY <1>2 DEF PendingOf, Told, HeldPress, SecondPress, DueHold
<1>6. \A s \in PendingOf(qs, holds) : story'[s] = new[s]
  BY <1>2, <1>4, <1>5 DEF SettledSo
<1>7. PICK st : st = story'
  OBVIOUS
<1>8. Told(qs, holds, st, n, rec, now)
  BY <1>4, <1>6, <1>7, ToldOfPending DEF SettledSo
<1> QED BY <1>2, <1>4, <1>6, <1>7, <1>8 DEF Settled, SettledSo

(* The timer that a key event asks for is queued, or the event's gesture      *)
(* forgotten; the other entries keep theirs.  `ps` and `holds` are the        *)
(* gestures as decided, `number` the event's.                                 *)
LEMMA Starts ==
    ASSUME GestureAssumption, TypeOK, NEW k \in Key, NEW number \in 1 .. MaxSeq,
           NEW due \in Deadline, NEW ps, NEW holds, NEW told, NEW fired, NEW rec,
           Told(ps, holds, told, number, rec, now),
           Ends(told, fired, PendingOf(ps, holds), now),
           TimersFit(queue, ps, holds, number, generation),
           \A h \in holds : Asked(h.key, h.seq, h.due, generation) \in queue,
           \A j \in Key : ps[j] # None /\ TimerDue(ps[j]) # None =>
              \/ ps[j].seq = number
              \/ Asked(j, ps[j].seq, TimerDue(ps[j]), generation) \in queue
              \/ ps[j].phase = "second" /\ told[ps[j].seq].refused,
           \A j \in Key : ps[j] # None /\ ps[j].seq = number => TimerDue(ps[j]) = due,
           due # None => /\ ps[k] # None /\ ps[k].seq = number
                         /\ ps[k].phase = "held" => now < due,
           armed # None => wake = armed,
           StartTimer(k, number, due, ps, holds, told, fired), now' = now
    PROVE  /\ Told(presses', dueHolds', story', number, rec, now)
           /\ \A s \in 1 .. MaxSeq :
                 story'[s] # None => s \in PendingOf(presses', dueHolds')
           /\ TimersFit(queue', presses', dueHolds', number, generation)
           /\ Covers(queue', presses', dueHolds', story', generation)
           /\ armed' # None => wake' = armed'
           /\ armed' \in Deadline /\ wake' \in Deadline
           /\ \A e \in settled' :
                /\ e.story # None /\ e.outcome = Verdict(e.story, e.at)
                /\ e.outcome = "hold" => \E f \in fired : f[2] = "hold"
<1> DEFINE Goal(qs, new) == Settled(qs, holds, new, fired, number, rec)
<1>1. dueHolds' = holds
  BY DEF StartTimer
<1>2. /\ ps \in [Key -> HeldPress \cup SecondPress \cup {None}]
      /\ holds \subseteq DueHold /\ told \in [1 .. MaxSeq -> Story \cup {None}]
      /\ Numbered(ps, holds, number)
  BY DEF Told
<1>3. ASSUME NEW qs, NEW new, presses' = qs, Settle(new, fired),
             Told(qs, holds, new, number, rec, now),
             Ends(new, fired, PendingOf(qs, holds), now)
      PROVE  Goal(qs, new)
  BY <1>1, <1>3, SettledAll
<1> HIDE DEF Goal, Settled
<1>4. ASSUME due = None
      PROVE  /\ Goal(ps, told)
             /\ TimersFit(queue', presses', dueHolds', number, generation)
             /\ Covers(queue', presses', dueHolds', story', generation)
             /\ armed' # None => wake' = armed'
             /\ armed' \in Deadline /\ wake' \in Deadline
  <2>1. presses' = ps /\ UNCHANGED timerVars /\ Settle(told, fired)
    BY <1>4 DEF StartTimer
  <2>2. Goal(ps, told)
    BY <1>3, <2>1
  <2>3. \A s \in PendingOf(ps, holds) : story'[s] = told[s]
    BY <2>2 DEF Goal, Settled
  <2>4. Covers(queue', presses', dueHolds', story', generation)
    <3>1. ASSUME NEW j \in Key, ps[j] # None, TimerDue(ps[j]) # None
          PROVE  \/ Asked(j, ps[j].seq, TimerDue(ps[j]), generation) \in queue
                 \/ ps[j].phase = "second" /\ story'[ps[j].seq].refused
      <4>1. ps[j].seq # number
        BY <1>4, <3>1
      <4>2. ps[j].seq \in PendingOf(ps, holds)
        BY <3>1 DEF PendingOf
      <4> QED BY <2>3, <3>1, <4>1, <4>2
    <3> QED BY <1>1, <2>1, <3>1 DEF Covers, timerVars
  <2> QED BY <1>1, <2>1, <2>2, <2>4 DEF timerVars, TypeOK
<1>5. ASSUME due # None
      PROVE  \E qs, new :
             /\ Goal(qs, new)
             /\ TimersFit(queue', presses', dueHolds', number, generation)
             /\ Covers(queue', presses', dueHolds', story', generation)
             /\ armed' # None => wake' = armed'
             /\ armed' \in Deadline /\ wake' \in Deadline
  <2> DEFINE kept   == KeptOf(queue, ps, holds)
             timer  == Asked(k, number, due, generation)
             sooner == armed # None => due < armed
  <2>1. \/ /\ queue' = kept \cup {timer}
           /\ armed' = IF sooner THEN due ELSE armed
           /\ wake' = IF sooner THEN due ELSE wake
           /\ presses' = ps
           /\ Settle(told, fired)
        \/ /\ sooner /\ Refused
           /\ queue' = kept
           /\ presses' = Forgotten(ps, {number})
           /\ Settle(ToldRefused(told, {number}), fired)
    BY <1>5 DEF StartTimer, Asked, KeptOf
  <2>2. /\ TimersFit(kept, ps, holds, number, generation)
        /\ \A h \in holds : Asked(h.key, h.seq, h.due, generation) \in kept
        /\ \A j \in Key : ps[j] # None /\ TimerDue(ps[j]) # None =>
             \/ ps[j].seq = number
             \/ Asked(j, ps[j].seq, TimerDue(ps[j]), generation) \in kept
             \/ ps[j].phase = "second" /\ told[ps[j].seq].refused
    <3>1. PICK q : q = queue
      OBVIOUS
    <3>2. TimersFit(q, ps, holds, number, generation)
      BY <3>1
    <3> DEFINE left == KeptOf(q, ps, holds)
    <3>3. /\ TimersFit(left, ps, holds, number, generation)
          /\ \A h \in holds : Asked(h.key, h.seq, h.due, generation) \in q
                              => Asked(h.key, h.seq, h.due, generation) \in left
          /\ \A j \in Key : ps[j] # None /\ TimerDue(ps[j]) # None
               /\ Asked(j, ps[j].seq, TimerDue(ps[j]), generation) \in q
               => Asked(j, ps[j].seq, TimerDue(ps[j]), generation) \in left
      BY <3>2, KeptTimers
    <3>4. left = kept
      BY <3>1
    <3> HIDE DEF left, kept
    <3> QED BY <3>1, <3>3, <3>4
  <2>3. /\ timer \in Timer /\ timer.generation = generation /\ timer.seq = number
        /\ timer.key = k /\ timer.due = due
    BY <1>5 DEF TypeOK, Asked, Timer, Deadline
  <2>4. Fits(timer, ps, holds)
    <3>1. ASSUME NEW j \in Key, ps[j] # None, ps[j].seq = number
          PROVE  j = k /\ TimerDue(ps[j]) = due
      BY <1>2, <1>5, <3>1 DEF Numbered
    <3>2. ASSUME NEW h \in holds PROVE h.seq # number
      BY <1>2, <1>5 DEF Numbered
    <3> QED BY <2>3, <3>1, <3>2 DEF Fits
  <2>5. number \in Nat /\ number <= number
    OBVIOUS
  <2> HIDE DEF kept, timer
  <2>6. CASE /\ queue' = kept \cup {timer}
             /\ armed' = IF sooner THEN due ELSE armed
             /\ wake' = IF sooner THEN due ELSE wake
             /\ presses' = ps
             /\ Settle(told, fired)
    <3>1. Goal(ps, told)
      BY <1>3, <2>6
    <3>2. \A s \in PendingOf(ps, holds) : story'[s] = told[s]
      BY <3>1 DEF Goal, Settled
    <3>3. TimersFit(queue', presses', dueHolds', number, generation)
      BY <1>1, <2>2, <2>3, <2>4, <2>5, <2>6 DEF TimersFit
    <3>4. Covers(queue', presses', dueHolds', story', generation)
      <4>1. ASSUME NEW j \in Key, ps[j] # None, TimerDue(ps[j]) # None
            PROVE  \/ Asked(j, ps[j].seq, TimerDue(ps[j]), generation) \in kept \cup {timer}
                   \/ ps[j].phase = "second" /\ story'[ps[j].seq].refused
        <5>1. CASE ps[j].seq = number
          <6>1. j = k /\ TimerDue(ps[j]) = due
            BY <1>2, <1>5, <4>1, <5>1 DEF Numbered
          <6> QED BY <5>1, <6>1 DEF timer
        <5>2. CASE ps[j].seq # number
          <6>1. ps[j].seq \in PendingOf(ps, holds)
            BY <4>1 DEF PendingOf
          <6> QED BY <2>2, <3>2, <4>1, <5>2, <6>1
        <5> QED BY <5>1, <5>2
      <4> QED BY <1>1, <2>2, <2>6, <4>1 DEF Covers
    <3>5. /\ armed' # None => wake' = armed'
          /\ armed' \in Deadline /\ wake' \in Deadline
      BY <2>6 DEF TypeOK
    <3> QED BY <3>1, <3>3, <3>4, <3>5
  <2>7. CASE /\ sooner /\ Refused
             /\ queue' = kept
             /\ presses' = Forgotten(ps, {number})
             /\ Settle(ToldRefused(told, {number}), fired)
    <3> DEFINE qs  == Forgotten(ps, {number})
               new == ToldRefused(told, {number})
    <3>1. {number} \subseteq PendingOf(ps, holds)
      BY <1>5 DEF PendingOf
    <3>2. \A h \in holds : h.seq \notin {number}
      BY <1>2, <1>5 DEF Numbered
    <3>3. ASSUME NEW j \in Key, ps[j] # None, ps[j].phase = "held", ps[j].seq \in {number}
          PROVE  ps[j].hold # None /\ now < ps[j].hold
      <4>1. j = k
        BY <1>2, <1>5, <3>3 DEF Numbered
      <4>2. TimerDue(ps[j]) = ps[j].hold
        BY <3>3 DEF TimerDue
      <4> QED BY <1>5, <3>3, <4>1, <4>2
    <3>4. now \in Time
      BY DEF TypeOK
    <3>5. PICK seqs : seqs = {number}
      OBVIOUS
    <3>6. /\ seqs \subseteq PendingOf(ps, holds)
          /\ \A h \in holds : h.seq \notin seqs
          /\ \A j \in Key : ps[j] # None /\ ps[j].phase = "held" /\ ps[j].seq \in seqs
                             => ps[j].hold # None /\ now < ps[j].hold
      BY <3>1, <3>2, <3>3, <3>5
    <3>6a. LET rs == Forgotten(ps, seqs)
               nw == ToldRefused(told, seqs)
           IN  /\ Told(rs, holds, nw, number, rec, now)
               /\ Ends(nw, fired, PendingOf(rs, holds), now)
               /\ \A j \in Key : rs[j] # None =>
                     /\ ps[j] # None /\ rs[j].seq = ps[j].seq
                     /\ ps[j].seq \notin seqs => rs[j] = ps[j]
                     /\ ps[j].seq \in seqs /\ TimerDue(rs[j]) # None =>
                           rs[j].phase = "second" /\ nw[rs[j].seq].refused
               /\ \A s \in 1 .. MaxSeq : s \notin seqs => nw[s] = told[s]
               /\ \A s \in 1 .. MaxSeq : told[s] # None /\ told[s].refused => nw[s].refused
      BY <3>4, <3>6, Forgets
    <3>7. /\ Told(qs, holds, new, number, rec, now)
          /\ Ends(new, fired, PendingOf(qs, holds), now)
          /\ \A j \in Key : qs[j] # None =>
                /\ ps[j] # None /\ qs[j].seq = ps[j].seq
                /\ ps[j].seq # number => qs[j] = ps[j]
                /\ ps[j].seq = number /\ TimerDue(qs[j]) # None =>
                      qs[j].phase = "second" /\ new[qs[j].seq].refused
          /\ \A s \in 1 .. MaxSeq : s # number => new[s] = told[s]
      BY <3>5, <3>6a
    <3>8. presses' = qs /\ Settle(new, fired)
      BY <2>7
    <3> HIDE DEF qs, new
    <3>9. Goal(qs, new)
      <4>1. PICK rs, nw : rs = qs /\ nw = new
        OBVIOUS
      <4>2. Goal(rs, nw)
        BY <1>3, <3>7, <3>8, <4>1
      <4> QED BY <4>1, <4>2
    <3>10. \A s \in PendingOf(qs, holds) : story'[s] = new[s]
      BY <3>9 DEF Goal, Settled
    <3>11. TimersFit(queue', presses', dueHolds', number, generation)
      <4>1. ASSUME NEW t \in kept PROVE Fits(t, qs, holds)
        <5>1. Fits(t, ps, holds)
          BY <2>2 DEF TimersFit
        <5>2. ASSUME NEW j \in Key, qs[j] # None, TimerDue(qs[j]) # None, qs[j].seq = t.seq
              PROVE  t.key = j /\ t.due = TimerDue(qs[j])
          <6>1. CASE ps[j].seq = number
            <7>1. qs[j].phase = "second" /\ ps[j] # None
              BY <3>7, <5>2, <6>1
            <7>2. qs[j] = ForgottenPress(ps[j], {number})
              BY DEF qs, Forgotten
            <7>3. ps[j] \in HeldPress \cup SecondPress
              BY <1>2, <7>1 DEF Told
            <7>4. qs[j] = ps[j]
              BY <5>2, <7>1, <7>2, <7>3 DEF ForgottenPress, HeldPress, SecondPress
            <7> QED BY <5>1, <5>2, <7>4 DEF Fits
          <6>2. CASE ps[j].seq # number
            BY <3>7, <5>1, <5>2, <6>2 DEF Fits
          <6> QED BY <6>1, <6>2
        <5> QED BY <5>1, <5>2 DEF Fits
      <4> QED BY <1>1, <2>2, <2>7, <3>8, <4>1 DEF TimersFit
    <3>12. Covers(queue', presses', dueHolds', story', generation)
      <4>1. ASSUME NEW j \in Key, qs[j] # None, TimerDue(qs[j]) # None
            PROVE  \/ Asked(j, qs[j].seq, TimerDue(qs[j]), generation) \in kept
                   \/ qs[j].phase = "second" /\ story'[qs[j].seq].refused
        <5>1. qs[j].seq \in PendingOf(qs, holds)
          BY <4>1 DEF PendingOf
        <5>2. CASE ps[j].seq = number
          BY <3>7, <3>10, <4>1, <5>1, <5>2
        <5>3. CASE ps[j].seq # number
          <6>1. qs[j] = ps[j] /\ ps[j] # None /\ ps[j].seq \in 1 .. MaxSeq
            BY <1>2, <3>7, <4>1, <5>3 DEF HeldPress, SecondPress
          <6>2. story'[ps[j].seq] = told[ps[j].seq]
            BY <3>7, <3>10, <5>1, <5>3, <6>1
          <6> QED BY <2>2, <4>1, <5>3, <6>1, <6>2
        <5> QED BY <5>2, <5>3
      <4> QED BY <1>1, <2>2, <2>7, <3>8, <4>1 DEF Covers
    <3>13. /\ armed' # None => wake' = armed'
           /\ armed' \in Deadline /\ wake' \in Deadline
      BY <2>7 DEF Refused, ArmedWhenRefused, TypeOK, Deadline
    <3> QED BY <3>9, <3>11, <3>12, <3>13
  <2> QED BY <2>1, <2>6, <2>7
<1> QED BY <1>4, <1>5 DEF Goal, Settled
-----------------------------------------------------------------------------
(* What a key event of k may decide: it touches the press of k alone and may  *)
(* drop the others, and the press of k may have become a Hold that is due.    *)
Decides(k, ps, holds, number) ==
    /\ ps \in [Key -> HeldPress \cup SecondPress \cup {None}]
    /\ holds \subseteq DueHold
    /\ \A j \in Key \ {k} : ps[j] # None => ps[j] = presses[j]
    /\ ps[k] # None => ps[k].seq = number \/ ps[k] = presses[k]
    /\ \A h \in holds \ dueHolds :
          /\ h.key = k /\ presses[k] # None /\ presses[k].phase = "held"
          /\ h.seq = presses[k].seq /\ h.due = presses[k].hold /\ h.due # None
          /\ ps[k] # None => ps[k].seq = number

(* The numbers, the timers and their cover under what the event decides.      *)
LEMMA Decided ==
    ASSUME GestureAssumption, TypeOK, Entries,
           TimersFit(queue, presses, dueHolds, seq, generation),
           Covers(queue, presses, dueHolds, story, generation),
           NEW k \in Key, NEW number, number = seq + 1, NEW ps, NEW holds,
           Decides(k, ps, holds, number)
    PROVE  /\ Numbered(ps, holds, number)
           /\ \A s \in PendingOf(ps, holds) :
                 s = number \/ (s \in PendingOf(presses, dueHolds) /\ story[s] # None)
           /\ TimersFit(queue, ps, holds, number, generation)
           /\ \A h \in holds : Asked(h.key, h.seq, h.due, generation) \in queue
           /\ \A j \in Key : ps[j] # None /\ TimerDue(ps[j]) # None =>
                 \/ ps[j].seq = number
                 \/ Asked(j, ps[j].seq, TimerDue(ps[j]), generation) \in queue
                 \/ ps[j].phase = "second" /\ story[ps[j].seq].refused
<1>1. /\ seq \in Nat /\ presses \in [Key -> HeldPress \cup SecondPress \cup {None}]
      /\ dueHolds \subseteq DueHold /\ Numbered(presses, dueHolds, seq)
      /\ number > seq /\ number \in Nat
  BY GestureAssumption DEF TypeOK, Entries, Told
<1>2. /\ \A j \in Key : presses[j] # None => presses[j].seq \in Nat /\ presses[j].seq <= seq
      /\ \A h \in dueHolds : h.seq \in Nat /\ h.seq <= seq
  BY <1>1 DEF Numbered, HeldPress, SecondPress, DueHold
<1>3. \A h \in holds \ dueHolds :
         /\ h.key = k /\ presses[k] # None /\ presses[k].phase = "held"
         /\ h.seq = presses[k].seq /\ h.due = presses[k].hold /\ h.due # None
         /\ ps[k] # None => ps[k].seq = number
         /\ h.seq <= seq /\ TimerDue(presses[k]) = h.due
  BY <1>2 DEF Decides, TimerDue
<1>4. \A j \in Key : ps[j] # None =>
         \/ j = k /\ ps[j].seq = number
         \/ ps[j] = presses[j] /\ ps[j].seq <= seq
  BY <1>2 DEF Decides
<1>5. \A h \in holds : h.seq \in Nat /\ h.seq <= seq
  BY <1>2, <1>3 DEF Decides, DueHold
<1>6. Numbered(ps, holds, number)
  <2>1. \A j \in Key : ps[j] # None => ps[j].seq <= number
    BY <1>1, <1>2, <1>4
  <2>2. \A h \in holds : h.seq <= number
    BY <1>1, <1>5
  <2>3. ASSUME NEW i \in Key, NEW j \in Key, ps[i] # None, ps[j] # None, ps[i].seq = ps[j].seq
        PROVE  i = j
    BY <1>1, <1>2, <1>4, <2>3 DEF Numbered
  <2>4. ASSUME NEW i \in Key, NEW h \in holds, ps[i] # None PROVE ps[i].seq # h.seq
    <3>1. CASE i = k /\ ps[i].seq = number
      BY <1>1, <1>5, <3>1
    <3>2. CASE ps[i] = presses[i] /\ ps[i].seq <= seq
      <4>1. CASE h \in dueHolds
        BY <1>1, <2>4, <3>2, <4>1 DEF Numbered
      <4>2. CASE h \notin dueHolds
        <5>1. i # k
          BY <1>1, <1>2, <1>3, <2>4, <3>2, <4>2
        <5> QED BY <1>1, <1>3, <2>4, <3>2, <4>2, <5>1 DEF Numbered
      <4> QED BY <4>1, <4>2
    <3> QED BY <1>4, <2>4, <3>1, <3>2
  <2>5. ASSUME NEW g \in holds, NEW h \in holds, g.seq = h.seq PROVE g = h
    <3>1. g \in DueHold /\ h \in DueHold
      BY DEF Decides
    <3>2. CASE g \in dueHolds /\ h \in dueHolds
      BY <1>1, <2>5, <3>2 DEF Numbered
    <3>3. CASE g \notin dueHolds /\ h \notin dueHolds
      BY <1>3, <3>1, <3>3 DEF DueHold
    <3>4. CASE g \in dueHolds <=> h \notin dueHolds
      BY <1>1, <1>3, <2>5, <3>4 DEF Numbered
    <3> QED BY <3>2, <3>3, <3>4
  <2> QED BY <2>1, <2>2, <2>3, <2>4, <2>5 DEF Numbered
<1>7. ASSUME NEW s \in PendingOf(ps, holds)
      PROVE  s = number \/ (s \in PendingOf(presses, dueHolds) /\ story[s] # None)
  <2>1. ASSUME NEW r \in PendingOf(presses, dueHolds) PROVE story[r] # None
    BY DEF PendingOf, Entries, Told, PressTold, HoldTold
  <2>2. CASE \E j \in Key : ps[j] # None /\ s = ps[j].seq
    BY <1>4, <2>1, <2>2 DEF PendingOf
  <2>3. CASE \E h \in holds : s = h.seq
    BY <1>3, <2>1, <2>3 DEF PendingOf
  <2> QED BY <2>2, <2>3 DEF PendingOf
<1>8. TimersFit(queue, ps, holds, number, generation)
  <2>1. ASSUME NEW t \in queue
        PROVE  t.generation = generation /\ t.seq <= number /\ Fits(t, ps, holds)
    <3>1. /\ t.generation = generation /\ t.seq <= seq /\ t.seq \in Nat
          /\ Fits(t, presses, dueHolds)
      BY DEF TimersFit, Timer
    <3>2. ASSUME NEW j \in Key, ps[j] # None, TimerDue(ps[j]) # None, ps[j].seq = t.seq
          PROVE  t.key = j /\ t.due = TimerDue(ps[j])
      BY <1>1, <1>4, <3>1, <3>2 DEF Fits
    <3>3. ASSUME NEW h \in holds, h.seq = t.seq PROVE h.key = t.key /\ h.due = t.due
      BY <1>3, <3>1, <3>3 DEF Fits
    <3> QED BY <1>1, <3>1, <3>2, <3>3 DEF Fits
  <2> QED BY <2>1 DEF TimersFit
<1>9. ASSUME NEW h \in holds PROVE Asked(h.key, h.seq, h.due, generation) \in queue
  <2>1. CASE h \in dueHolds
    BY <2>1 DEF Covers
  <2>2. CASE h \notin dueHolds
    <3>1. /\ h.key = k /\ presses[k] # None /\ presses[k].phase = "held"
          /\ h.seq = presses[k].seq /\ TimerDue(presses[k]) = h.due /\ h.due # None
      BY <1>3, <2>2
    <3> QED BY <3>1 DEF Covers
  <2> QED BY <2>1, <2>2
<1>10. \A j \in Key : ps[j] # None /\ TimerDue(ps[j]) # None =>
          \/ ps[j].seq = number
          \/ Asked(j, ps[j].seq, TimerDue(ps[j]), generation) \in queue
          \/ ps[j].phase = "second" /\ story[ps[j].seq].refused
  BY <1>4 DEF Covers
<1> QED BY <1>6, <1>7, <1>8, <1>9, <1>10

(* A press that the event dropped is pending no more.                         *)
LEMMA Dropped ==
    ASSUME GestureAssumption, TypeOK, Entries,
           NEW k \in Key, NEW number, number = seq + 1, NEW ps, NEW holds,
           Decides(k, ps, holds, number),
           NEW j \in Key, presses[j] # None, ps[j] # presses[j],
           j = k => holds \subseteq dueHolds
    PROVE  presses[j].seq \notin PendingOf(ps, holds)
<1>1. /\ seq \in Nat /\ presses \in [Key -> HeldPress \cup SecondPress \cup {None}]
      /\ dueHolds \subseteq DueHold /\ Numbered(presses, dueHolds, seq)
      /\ number > seq /\ number \in Nat
  BY GestureAssumption DEF TypeOK, Entries, Told
<1>2. \A i \in Key : presses[i] # None => presses[i].seq \in Nat /\ presses[i].seq <= seq
  BY <1>1 DEF Numbered, HeldPress, SecondPress
<1>3. ASSUME NEW i \in Key, ps[i] # None PROVE presses[j].seq # ps[i].seq
  <2>1. CASE ps[i] = presses[i]
    BY <1>1, <1>3, <2>1 DEF Numbered
  <2>2. CASE ps[i] # presses[i]
    <3>1. ps[i].seq = number
      BY <1>3, <2>2 DEF Decides
    <3> QED BY <1>1, <1>2, <3>1
  <2> QED BY <2>1, <2>2
<1>4. ASSUME NEW h \in holds PROVE presses[j].seq # h.seq
  <2>1. CASE h \in dueHolds
    BY <1>1, <2>1 DEF Numbered
  <2>2. CASE h \notin dueHolds
    BY <1>1, <2>2 DEF Numbered, Decides
  <2> QED BY <2>1, <2>2
<1> QED BY <1>3, <1>4 DEF PendingOf

(* What a key event decides and tells agrees: the presses and Holds with their*)
(* stories, what it fires with the clock, and the timer that it asks for with *)
(* the press that waits for it.                                               *)
EventTold(k, number, due, ps, holds, told, fired, rec) ==
    /\ told \in [1 .. MaxSeq -> Story \cup {None}]
    /\ \A j \in Key : ps[j] # None => PressTold(j, ps[j], told[ps[j].seq], rec, now)
    /\ \A h \in holds : HoldTold(h, told[h.seq], now)
    /\ Ends(told, fired, PendingOf(ps, holds), now)
    /\ \A f \in fired : f[2] # "hold"
    /\ \A s \in PendingOf(ps, holds) :
          s # number /\ story[s] # None /\ story[s].refused => told[s].refused
    /\ \A j \in Key : ps[j] # None /\ ps[j].seq = number => TimerDue(ps[j]) = due
    /\ due # None => /\ ps[k] # None /\ ps[k].seq = number
                     /\ ps[k].phase = "held" => now < due

(* The step of a key event, from what it decides and tells.                   *)
LEMMA KeyEvent ==
    ASSUME GestureAssumption, IInv, NEW k \in Key,
           NEW number \in 1 .. MaxSeq, number = seq + 1, NEW due \in Deadline,
           NEW ps, NEW holds, NEW told, NEW fired, NEW rec,
           Decides(k, ps, holds, number),
           EventTold(k, number, due, ps, holds, told, fired, rec),
           StartTimer(k, number, due, ps, holds, told, fired),
           now' = now, generation' = generation, seq' = number, record' = rec,
           rec \in [Key -> {"Unknown", "Passed", "Suppressed"}],
           active' \subseteq Key, loop' \in {"drain", "dispatch"}
    PROVE  IInv'
<1>0. /\ told \in [1 .. MaxSeq -> Story \cup {None}]
      /\ \A j \in Key : ps[j] # None => PressTold(j, ps[j], told[ps[j].seq], rec, now)
      /\ \A h \in holds : HoldTold(h, told[h.seq], now)
      /\ Ends(told, fired, PendingOf(ps, holds), now)
      /\ \A f \in fired : f[2] # "hold"
      /\ \A s \in PendingOf(ps, holds) :
            s # number /\ story[s] # None /\ story[s].refused => told[s].refused
      /\ \A j \in Key : ps[j] # None /\ ps[j].seq = number => TimerDue(ps[j]) = due
      /\ due # None => /\ ps[k] # None /\ ps[k].seq = number
                       /\ ps[k].phase = "held" => now < due
  BY DEF EventTold
<1>1. TypeOK /\ Entries /\ Timers
  BY DEF IInv
<1>2. /\ TimersFit(queue, presses, dueHolds, seq, generation)
      /\ Covers(queue, presses, dueHolds, story, generation)
      /\ armed # None => wake = armed
  BY <1>1 DEF Timers, WakeRight
<1>3. /\ Numbered(ps, holds, number)
      /\ \A s \in PendingOf(ps, holds) :
            s = number \/ (s \in PendingOf(presses, dueHolds) /\ story[s] # None)
      /\ TimersFit(queue, ps, holds, number, generation)
      /\ \A h \in holds : Asked(h.key, h.seq, h.due, generation) \in queue
      /\ \A j \in Key : ps[j] # None /\ TimerDue(ps[j]) # None =>
            \/ ps[j].seq = number
            \/ Asked(j, ps[j].seq, TimerDue(ps[j]), generation) \in queue
            \/ ps[j].phase = "second" /\ story[ps[j].seq].refused
  BY <1>1, <1>2, Decided
<1>4. ASSUME NEW j \in Key, ps[j] # None, TimerDue(ps[j]) # None
      PROVE  \/ ps[j].seq = number
             \/ Asked(j, ps[j].seq, TimerDue(ps[j]), generation) \in queue
             \/ ps[j].phase = "second" /\ told[ps[j].seq].refused
  <2>1. ps[j].seq \in PendingOf(ps, holds)
    BY <1>4 DEF PendingOf
  <2> QED BY <1>0, <1>3, <1>4, <2>1
<1>5. Told(ps, holds, told, number, rec, now)
  BY <1>0, <1>3 DEF Told, Decides
<1>6. /\ Told(presses', dueHolds', story', number, rec, now)
      /\ \A s \in 1 .. MaxSeq : story'[s] # None => s \in PendingOf(presses', dueHolds')
      /\ TimersFit(queue', presses', dueHolds', number, generation)
      /\ Covers(queue', presses', dueHolds', story', generation)
      /\ armed' # None => wake' = armed'
      /\ armed' \in Deadline /\ wake' \in Deadline
      /\ \A e \in settled' :
           /\ e.story # None /\ e.outcome = Verdict(e.story, e.at)
           /\ e.outcome = "hold" => \E f \in fired : f[2] = "hold"
  BY <1>0, <1>1, <1>2, <1>3, <1>4, <1>5, Starts
<1>7. Entries'
  BY <1>6 DEF Entries, Storied
<1>8. Timers'
  <2>1. WakeRight'
    BY <1>6 DEF WakeRight
  <2> QED BY <1>6, <2>1 DEF Timers
<1>9. TypeOK'
  <2>1. /\ presses' \in [Key -> HeldPress \cup SecondPress \cup {None}]
        /\ dueHolds' \subseteq DueHold /\ queue' \subseteq Timer
    BY <1>6 DEF Told, TimersFit
  <2>2. number \in 0 .. MaxSeq
    BY <1>1 DEF TypeOK
  <2> QED BY <1>1, <1>6, <2>1, <2>2 DEF TypeOK
<1>10. OutcomeByClock'
  <2>1. \A e \in settled' : e.story # None /\ e.outcome = Verdict(e.story, e.at)
                              /\ e.outcome # "hold"
    BY <1>0, <1>6
  <2> QED BY <2>1 DEF OutcomeByClock
<1> QED BY <1>7, <1>8, <1>9, <1>10 DEF IInv
-----------------------------------------------------------------------------
(* A key-down.                                                                *)
LEMMA KeyDownStep ==
    ASSUME GestureAssumption, IInv, NEW k \in Key, NEW group \in Group \cup {None},
           group # None => group.key = k, NEW swallow \in BOOLEAN,
           KeyDown(k, group, swallow)
    PROVE  IInv'
<1> DEFINE earlier == presses[k]
           double  == Completes(earlier, group)
           arms    == group # None /\ ~double
           ended   == IF earlier = None THEN {}
                      ELSE IF double THEN {<<earlier.seq, "double">>}
                      ELSE IF earlier.phase = "second" /\ earlier.tapWaits
                      THEN {<<earlier.seq, "tap">>} ELSE {}
           base    == ToldDown(k, group)
<1>1. PICK number, due, ps, holds, told, fired, rec :
        /\ number = seq + 1
        /\ due = IF arms THEN After(group.hold) ELSE None
        /\ ps = [Uncancelled(k) EXCEPT ![k] = IF arms THEN Arm(group, number) ELSE None]
        /\ holds = IF earlier # None /\ earlier.phase = "held" /\ Reached(earlier.hold)
                   THEN dueHolds \cup DueOf(k, earlier) ELSE dueHolds
        /\ told = IF arms THEN [base EXCEPT ![number] = NewStory(group, ~swallow)] ELSE base
        /\ fired = TapsOfOthers(k) \cup ended
        /\ rec = [record EXCEPT ![k] = IF swallow THEN "Suppressed" ELSE "Passed"]
  OBVIOUS
<1>2. /\ seq < MaxSeq
      /\ active' = active \cup {k} /\ record' = rec /\ seq' = number
      /\ StartTimer(k, number, due, ps, holds, told, fired)
      /\ loop' = IF loop = "wait" THEN "dispatch" ELSE loop
      /\ now' = now /\ generation' = generation
  BY <1>1 DEF KeyDown, Delivered
<1>3. /\ TypeOK /\ Entries /\ now \in Time /\ seq \in Nat
      /\ presses \in [Key -> HeldPress \cup SecondPress \cup {None}]
      /\ dueHolds \subseteq DueHold /\ story \in [1 .. MaxSeq -> Story \cup {None}]
      /\ record \in [Key -> {"Unknown", "Passed", "Suppressed"}]
      /\ Numbered(presses, dueHolds, seq)
      /\ \A j \in Key : presses[j] # None =>
            PressTold(j, presses[j], story[presses[j].seq], record, now)
      /\ \A h \in dueHolds : HoldTold(h, story[h.seq], now)
  BY GestureAssumption DEF IInv, TypeOK, Entries, Told
<1>4. number \in 1 .. MaxSeq /\ number > seq /\ number = seq + 1
  BY GestureAssumption, <1>1, <1>2, <1>3
<1>5. /\ base \in [1 .. MaxSeq -> Story \cup {None}]
      /\ \A s \in 1 .. MaxSeq :
           /\ story[s] = None => base[s] = None
           /\ story[s] # None =>
                base[s] \in Story /\ DownTo(k, group, story[s], base[s], now)
  BY <1>3, DownStories

(* What the key-down decides of each press and of the Holds.                  *)
<1>6. /\ \A j \in Key \ {k} :
            ps[j] = IF Cancels(k, presses[j]) THEN None ELSE presses[j]
      /\ ps[k] = IF arms THEN Arm(group, number) ELSE None
      /\ ps = [j \in Key |-> ps[j]]
  BY <1>1 DEF Uncancelled
<1>7. \A h \in holds \ dueHolds :
         /\ h = [key |-> k, seq |-> earlier.seq, due |-> earlier.hold]
         /\ earlier # None /\ earlier.phase = "held" /\ Reached(earlier.hold)
  BY <1>1 DEF DueOf
<1>8. /\ dueHolds \subseteq holds
      /\ earlier # None /\ earlier.phase = "held" /\ Reached(earlier.hold) =>
            [key |-> k, seq |-> earlier.seq, due |-> earlier.hold] \in holds
  BY <1>1 DEF DueOf
<1>9. rec \in [Key -> {"Unknown", "Passed", "Suppressed"}]
      /\ (\A j \in Key \ {k} : rec[j] = record[j])
      /\ (rec[k] = "Passed" <=> ~swallow)
  BY <1>1, <1>3
<1>10. /\ \A s \in 1 .. MaxSeq : s # number => told[s] = base[s]
       /\ arms => told[number] = NewStory(group, ~swallow)
       /\ ~arms => told = base
  BY <1>1, <1>4, <1>5
<1>11. /\ due = IF arms THEN After(group.hold) ELSE None
       /\ fired = TapsOfOthers(k) \cup ended
  BY <1>1
<1>12. arms => /\ group \in Group /\ group.key = k
               /\ NewStory(group, ~swallow) \in Story
               /\ Arm(group, number) \in HeldPress
               /\ Arm(group, number).seq = number
               /\ TimerDue(Arm(group, number)) = After(group.hold)
               /\ PressTold(k, Arm(group, number), NewStory(group, ~swallow), rec, now)
  <2> SUFFICES ASSUME arms
               PROVE  /\ group \in Group /\ group.key = k
                      /\ NewStory(group, ~swallow) \in Story
                      /\ Arm(group, number) \in HeldPress
                      /\ Arm(group, number).seq = number
                      /\ TimerDue(Arm(group, number)) = After(group.hold)
                      /\ PressTold(k, Arm(group, number), NewStory(group, ~swallow), rec, now)
    OBVIOUS
  <2>1. group \in Group /\ group.key = k
    OBVIOUS
  <2>2. PICK passed \in BOOLEAN : passed = ~swallow
    OBVIOUS
  <2>3. passed <=> rec[group.key] = "Passed"
    BY <1>9, <2>1, <2>2
  <2>4. /\ NewStory(group, passed) \in Story
        /\ Arm(group, number) \in HeldPress
        /\ Arm(group, number).seq = number
        /\ TimerDue(Arm(group, number)) = After(group.hold)
        /\ PressTold(group.key, Arm(group, number), NewStory(group, passed), rec, now)
    BY <1>3, <1>4, <2>1, <2>3, Arms
  <2>5. NewStory(group, passed) = NewStory(group, ~swallow)
    BY <2>2
  <2> QED BY <2>1, <2>4, <2>5
<1>13. earlier # None => /\ earlier \in HeldPress \cup SecondPress
                         /\ earlier.seq \in 1 .. seq /\ earlier.seq \in 1 .. MaxSeq
  <2>1. earlier # None => earlier \in HeldPress \cup SecondPress /\ earlier.seq <= seq
    BY <1>3 DEF Numbered
  <2> QED BY <1>3, <2>1 DEF HeldPress, SecondPress
<1>14. \A j \in Key : presses[j] # None =>
          /\ presses[j] \in HeldPress \cup SecondPress
          /\ presses[j].seq \in 1 .. MaxSeq /\ presses[j].seq <= seq
          /\ presses[j].seq # number
          /\ story[presses[j].seq] \in Story
          /\ DownTo(k, group, story[presses[j].seq], told[presses[j].seq], now)
          /\ told[presses[j].seq] \in Story
  <2> SUFFICES ASSUME NEW j \in Key, presses[j] # None
               PROVE  /\ presses[j] \in HeldPress \cup SecondPress
                      /\ presses[j].seq \in 1 .. MaxSeq /\ presses[j].seq <= seq
                      /\ presses[j].seq # number
                      /\ story[presses[j].seq] \in Story
                      /\ DownTo(k, group, story[presses[j].seq], told[presses[j].seq], now)
                      /\ told[presses[j].seq] \in Story
    OBVIOUS
  <2>1. presses[j] \in HeldPress \cup SecondPress /\ presses[j].seq <= seq
    BY <1>3 DEF Numbered
  <2>2. presses[j].seq \in 1 .. MaxSeq
    BY <2>1 DEF HeldPress, SecondPress
  <2>3. presses[j].seq # number
    BY <1>3, <1>4, <2>1, <2>2
  <2>4. story[presses[j].seq] # None
    BY <1>3 DEF PressTold
  <2> HIDE DEF base
  <2> QED BY <1>3, <1>5, <1>10, <2>1, <2>2, <2>3, <2>4
<1>15. \A h \in dueHolds :
          /\ h.seq \in 1 .. MaxSeq /\ h.seq <= seq /\ h.seq # number
          /\ story[h.seq] \in Story
          /\ DownTo(k, group, story[h.seq], told[h.seq], now)
          /\ told[h.seq] \in Story
  <2> SUFFICES ASSUME NEW h \in dueHolds
               PROVE  /\ h.seq \in 1 .. MaxSeq /\ h.seq <= seq /\ h.seq # number
                      /\ story[h.seq] \in Story
                      /\ DownTo(k, group, story[h.seq], told[h.seq], now)
                      /\ told[h.seq] \in Story
    OBVIOUS
  <2>1. h.seq \in 1 .. MaxSeq /\ h.seq <= seq
    BY <1>3 DEF Numbered, DueHold
  <2>2. h.seq # number
    BY <1>3, <1>4, <2>1
  <2>3. story[h.seq] # None
    BY <1>3 DEF HoldTold
  <2> HIDE DEF base
  <2> QED BY <1>3, <1>5, <1>10, <2>1, <2>2, <2>3
<1> HIDE DEF base
<1>16. Decides(k, ps, holds, number)
  <2>1. ps \in [Key -> HeldPress \cup SecondPress \cup {None}]
    <3>1. \A j \in Key : ps[j] \in HeldPress \cup SecondPress \cup {None}
      <4> HIDE DEF arms
      <4> QED BY <1>3, <1>6, <1>12
    <3> QED BY <1>6, <3>1
  <2>2. ASSUME NEW h \in holds \ dueHolds
        PROVE  /\ h \in DueHold
               /\ h.key = k /\ presses[k] # None /\ presses[k].phase = "held"
               /\ h.seq = presses[k].seq /\ h.due = presses[k].hold /\ h.due # None
               /\ ps[k] # None => ps[k].seq = number
    <3>1. /\ h = [key |-> k, seq |-> earlier.seq, due |-> earlier.hold]
          /\ earlier # None /\ earlier.phase = "held" /\ Reached(earlier.hold)
      BY <1>7
    <3>2. earlier \in HeldPress /\ earlier.hold \in Deadline /\ earlier.hold # None
      BY <1>13, <3>1 DEF HeldPress, SecondPress, Reached
    <3>3. ps[k] # None => ps[k].seq = number
      <4> HIDE DEF arms
      <4> QED BY <1>6, <1>12
    <3> QED BY <1>13, <3>1, <3>2, <3>3 DEF DueHold, Deadline
  <2>3. ps[k] # None => ps[k].seq = number
    <3> HIDE DEF arms
    <3> QED BY <1>6, <1>12
  <2> QED BY <1>3, <1>6, <2>1, <2>2, <2>3 DEF Decides
<1>17. told \in [1 .. MaxSeq -> Story \cup {None}]
  BY <1>1, <1>5, <1>12 DEF base
<1> HIDE DEF arms
<1>18. ASSUME NEW j \in Key, ps[j] # None
       PROVE  PressTold(j, ps[j], told[ps[j].seq], rec, now)
  <2>1. CASE j = k
    BY <1>6, <1>10, <1>12, <1>18, <2>1
  <2>2. CASE j # k
    <3>1. ps[j] = presses[j] /\ ~Cancels(k, presses[j]) /\ presses[j] # None
      BY <1>6, <1>18, <2>2
    <3>2. PICK p, st, new : p = presses[j] /\ st = story[p.seq] /\ new = told[p.seq]
      OBVIOUS
    <3>3. /\ p \in HeldPress \cup SecondPress /\ st \in Story /\ new \in Story
          /\ PressTold(j, p, st, record, now) /\ DownTo(k, group, st, new, now)
          /\ ~Cancels(k, p) /\ rec[j] = record[j] /\ j \in Key \ {k}
      BY <1>3, <1>9, <1>14, <2>2, <3>1, <3>2
    <3>4. PressTold(j, p, new, rec, now)
      BY <1>3, <3>3, OtherStays
    <3> QED BY <3>1, <3>2, <3>4
  <2> QED BY <2>1, <2>2

(* How the press of k ends, or that its Hold is due.                          *)
<1>19. earlier # None =>
         /\ earlier.phase = "second" =>
              Verdict(told[earlier.seq], now) =
                IF double THEN "double" ELSE IF earlier.tapWaits THEN "tap" ELSE "nothing"
         /\ earlier.phase = "held" =>
              IF Reached(earlier.hold)
              THEN HoldTold([key |-> k, seq |-> earlier.seq, due |-> earlier.hold],
                            told[earlier.seq], now)
              ELSE Verdict(told[earlier.seq], now) = "nothing"
  <2> SUFFICES ASSUME earlier # None
               PROVE  /\ earlier.phase = "second" =>
                           Verdict(told[earlier.seq], now) =
                             IF double THEN "double"
                             ELSE IF earlier.tapWaits THEN "tap" ELSE "nothing"
                      /\ earlier.phase = "held" =>
                           IF Reached(earlier.hold)
                           THEN HoldTold([key |-> k, seq |-> earlier.seq,
                                          due |-> earlier.hold], told[earlier.seq], now)
                           ELSE Verdict(told[earlier.seq], now) = "nothing"
    OBVIOUS
  <2>1. PICK p, st, new : p = earlier /\ st = story[p.seq] /\ new = told[p.seq]
    OBVIOUS
  <2>2. /\ p \in HeldPress \cup SecondPress /\ st \in Story /\ new \in Story
        /\ PressTold(k, p, st, record, now) /\ DownTo(k, group, st, new, now)
    BY <1>3, <1>14, <2>1
  <2>3. /\ p.phase = "second" =>
             Verdict(new, now) = IF Completes(p, group) THEN "double"
                                 ELSE IF p.tapWaits THEN "tap" ELSE "nothing"
        /\ p.phase = "held" =>
             IF Reached(p.hold)
             THEN HoldTold([key |-> k, seq |-> p.seq, due |-> p.hold], new, now)
             ELSE Verdict(new, now) = "nothing"
    <3>1. k \in Key /\ group \in Group \cup {None} /\ now \in Time
      BY <1>3
    <3> QED BY ONLY <2>2, <3>1, GestureAssumption, OwnEnds
  <2> QED BY <2>1, <2>3
<1>20. ASSUME NEW h \in holds PROVE HoldTold(h, told[h.seq], now)
  <2>1. CASE h \in dueHolds
    <3>1. PICK st, new : st = story[h.seq] /\ new = told[h.seq]
      OBVIOUS
    <3>2. /\ h \in DueHold /\ st \in Story /\ new \in Story
          /\ HoldTold(h, st, now) /\ DownTo(k, group, st, new, now)
      BY <1>3, <1>15, <2>1, <3>1
    <3>3. HoldTold(h, new, now)
      BY <1>3, <3>2, HoldStays
    <3> QED BY <3>1, <3>3
  <2>2. CASE h \notin dueHolds
    BY <1>7, <1>19, <2>2
  <2> QED BY <2>1, <2>2
<1>21. ASSUME NEW j \in Key \ {k}, presses[j] # None, Cancels(k, presses[j])
       PROVE  /\ Verdict(told[presses[j].seq], now) =
                    IF presses[j].phase = "second" /\ presses[j].tapWaits
                    THEN "tap" ELSE "nothing"
              /\ presses[j].seq \notin PendingOf(ps, holds)
  <2>1. PICK p, st, new : p = presses[j] /\ st = story[p.seq] /\ new = told[p.seq]
    OBVIOUS
  <2>2. /\ p \in HeldPress \cup SecondPress /\ st \in Story /\ new \in Story
        /\ PressTold(j, p, st, record, now) /\ DownTo(k, group, st, new, now)
        /\ Cancels(k, p)
    BY <1>3, <1>14, <1>21, <2>1
  <2>3. Verdict(new, now) = IF p.phase = "second" /\ p.tapWaits THEN "tap" ELSE "nothing"
    BY <1>3, <2>2, OtherEnds
  <2>4. ps[j] # presses[j]
    BY <1>6, <1>21
  <2>5. presses[j].seq \notin PendingOf(ps, holds)
    BY <1>3, <1>4, <1>16, <1>21, <2>4, Dropped
  <2> QED BY <2>1, <2>3, <2>5
<1>22. ASSUME earlier # None, ~(earlier.phase = "held" /\ Reached(earlier.hold))
       PROVE  earlier.seq \notin PendingOf(ps, holds)
  <2>1. holds \subseteq dueHolds
    BY <1>7, <1>22
  <2>2. ps[k] # presses[k]
    BY <1>3, <1>4, <1>6, <1>12, <1>13, <1>22
  <2> QED BY <1>3, <1>4, <1>16, <1>22, <2>1, <2>2, Dropped
<1>23. Ends(told, fired, PendingOf(ps, holds), now)
  <2>1. ASSUME NEW f \in fired
        PROVE  /\ f[1] \in 1 .. MaxSeq /\ f[1] \notin PendingOf(ps, holds)
               /\ told[f[1]] # None /\ f[2] = Verdict(told[f[1]], now)
    <3>1. CASE f \in TapsOfOthers(k)
      <4>1. PICK j \in Key \ {k} : /\ Cancels(k, presses[j]) /\ presses[j].phase = "second"
                                   /\ presses[j].tapWaits
                                   /\ f = <<presses[j].seq, "tap">>
        BY <3>1 DEF TapsOfOthers
      <4>2. presses[j] # None
        BY <4>1 DEF Cancels
      <4>3. told[presses[j].seq] # None /\ presses[j].seq \in 1 .. MaxSeq
        BY <1>14, <4>2, NotNone
      <4> QED BY <1>21, <4>1, <4>2, <4>3
    <3>2. CASE f \in ended
      <4>1. /\ earlier # None
            /\ \/ double /\ f = <<earlier.seq, "double">>
               \/ ~double /\ earlier.phase = "second" /\ earlier.tapWaits
                  /\ f = <<earlier.seq, "tap">>
        BY <3>2
      <4>2. earlier.phase = "second"
        BY <4>1 DEF Completes
      <4>3. told[earlier.seq] # None /\ earlier.seq \in 1 .. MaxSeq
        BY <1>14, <4>1, NotNone
      <4> HIDE DEF double, ended
      <4> QED BY <1>19, <1>22, <4>1, <4>2, <4>3
    <3> QED BY <1>11, <3>1, <3>2
  <2>2. ASSUME NEW s \in 1 .. MaxSeq, told[s] # None, s \notin PendingOf(ps, holds),
               \A f \in fired : f[1] # s
        PROVE  Verdict(told[s], now) = "nothing"
    <3>1. story[s] # None /\ s # number
      <4>1. CASE s = number
        <5>1. story[number] = None
          <6>1. number \notin PendingOf(presses, dueHolds)
            BY <1>14, <1>15 DEF PendingOf
          <6> QED BY <1>3, <1>4, <6>1 DEF Entries, Storied
        <5>2. arms
          BY <1>4, <1>5, <1>10, <2>2, <4>1, <5>1
        <5>3. ps[k] # None /\ ps[k].seq = number
          BY <1>6, <1>12, <5>2, NotNone
        <5> QED BY <2>2, <4>1, <5>3 DEF PendingOf
      <4>2. CASE s # number
        BY <1>5, <1>10, <2>2, <4>2
      <4> QED BY <4>1, <4>2
    <3>2. s \in PendingOf(presses, dueHolds)
      BY <1>3, <3>1 DEF Entries, Storied
    <3>3. ~\E h \in dueHolds : h.seq = s
      BY <1>8, <2>2 DEF PendingOf
    <3>4. PICK j \in Key : presses[j] # None /\ presses[j].seq = s
      BY <3>2, <3>3 DEF PendingOf
    <3>5. CASE j = k
      <4>1. CASE earlier.phase = "second"
        <5>1. ~double /\ ~earlier.tapWaits
          <6>1. CASE double
            <7>1. <<earlier.seq, "double">> \in fired
              BY <1>11, <3>4, <3>5, <6>1
            <7> QED BY <2>2, <3>4, <3>5, <7>1
          <6>2. CASE ~double /\ earlier.tapWaits
            <7>1. <<earlier.seq, "tap">> \in fired
              BY <1>11, <3>4, <3>5, <4>1, <6>2
            <7> QED BY <2>2, <3>4, <3>5, <7>1
          <6> QED BY <6>1, <6>2
        <5> HIDE DEF double
        <5> QED BY <1>19, <3>4, <3>5, <4>1, <5>1
      <4>2. CASE earlier.phase = "held"
        <5>1. ~Reached(earlier.hold)
          <6> SUFFICES ASSUME Reached(earlier.hold) PROVE FALSE
            OBVIOUS
          <6>1. [key |-> k, seq |-> earlier.seq, due |-> earlier.hold] \in holds
            BY <1>8, <3>4, <3>5, <4>2
          <6> QED BY <2>2, <3>4, <3>5, <6>1 DEF PendingOf
        <5> QED BY <1>19, <3>4, <3>5, <4>2, <5>1
      <4> QED BY <1>13, <3>4, <3>5, <4>1, <4>2 DEF HeldPress, SecondPress
    <3>6. CASE j # k
      <4>1. Cancels(k, presses[j])
        BY <1>6, <2>2, <3>4, <3>6 DEF PendingOf
      <4>2. ~(presses[j].phase = "second" /\ presses[j].tapWaits)
        <5> SUFFICES ASSUME presses[j].phase = "second", presses[j].tapWaits PROVE FALSE
          OBVIOUS
        <5>1. <<presses[j].seq, "tap">> \in TapsOfOthers(k)
          BY <3>6, <4>1 DEF TapsOfOthers
        <5> QED BY <1>11, <2>2, <3>4, <5>1
      <4> QED BY <1>21, <3>4, <3>6, <4>1, <4>2
    <3> QED BY <3>5, <3>6
  <2> QED BY <2>1, <2>2 DEF Ends
<1>24. \A f \in fired : f[2] # "hold"
  BY <1>11 DEF TapsOfOthers
<1>25. ASSUME NEW s \in PendingOf(ps, holds), s # number, story[s] # None, story[s].refused
       PROVE  told[s].refused
  <2>1. s \in 1 .. MaxSeq
    BY <1>16, <1>25 DEF PendingOf, Decides, HeldPress, SecondPress, DueHold
  <2> QED BY <1>5, <1>10, <1>25, <2>1 DEF DownTo
<1>26. due \in Deadline
  <2>1. arms => group.hold \in Term
    BY <1>12, GroupFields DEF Term
  <2>2. arms => After(group.hold) \in Deadline
    BY <1>3, <2>1, AfterNow
  <2> QED BY <1>11, <2>2 DEF Deadline
<1>27. ASSUME NEW j \in Key, ps[j] # None, ps[j].seq = number PROVE TimerDue(ps[j]) = due
  <2>1. j = k
    BY <1>6, <1>14, <1>27
  <2> QED BY <1>6, <1>11, <1>12, <1>27, <2>1
<1>28. ASSUME due # None
       PROVE  ps[k] # None /\ ps[k].seq = number /\ now < due
  <2>1. arms /\ due = After(group.hold)
    BY <1>11, <1>28
  <2>2. group.hold \in 1 .. MaxTime
    <3>1. group.hold \in Term
      BY <1>12, <2>1, GroupFields DEF Term
    <3> QED BY <1>28, <2>1, <3>1 DEF After, Term
  <2>3. now < due
    BY <1>3, <2>1, <2>2, GestureAssumption DEF After, Time
  <2> QED BY <1>6, <1>12, <2>1, <2>3, NotNone
<1>29. active' \subseteq Key /\ loop' \in {"drain", "dispatch"}
  BY <1>2, <1>3 DEF TypeOK
<1>30. EventTold(k, number, due, ps, holds, told, fired, rec)
  BY <1>17, <1>18, <1>20, <1>23, <1>24, <1>25, <1>27, <1>28 DEF EventTold
<1> HIDE DEF earlier, double, ended
<1> QED BY <1>2, <1>4, <1>9, <1>16, <1>26, <1>29, <1>30, KeyEvent
-----------------------------------------------------------------------------
(* A press that a key-up of k leaves alone: another key's, or a second press. *)
LEMMA UpStays ==
    ASSUME now \in Time, NEW k \in Key, NEW j \in Key, NEW p \in HeldPress \cup SecondPress,
           NEW st \in Story, NEW new \in Story, NEW rec,
           PressTold(j, p, st, record, now), UpTo(k, st, new, now),
           j # k \/ p.phase = "second", j # k => rec[j] = record[j]
    PROVE  PressTold(j, p, new, rec, now)
<1>1. new # None /\ st.up \in Time \cup {None}
  BY NotNone DEF Story
<1>2. CASE p.phase = "held"
  BY <1>1, <1>2 DEF PressTold, HeldTold, Deadlines, UpTo
<1>3. CASE p.phase = "second"
  BY <1>1, <1>3 DEF PressTold, SecondTold, UpTo
<1> QED BY <1>2, <1>3 DEF HeldPress, SecondPress

(* The second press that a held one waits for.                                *)
SecondOf(p, number, tap, passed) ==
    [phase |-> "second", seq |-> number, group |-> p.group, due |-> p.double,
     tapWaits |-> tap, passed |-> passed]

(* The held press of k under its key-up: a Hold that is due, a second press   *)
(* that may come, a Tap, or nothing.                                          *)
LEMMA OwnUp ==
    ASSUME GestureAssumption, now \in Time, NEW k \in Key,
           NEW p \in HeldPress, NEW st \in Story, NEW new \in Story,
           NEW rec, NEW number \in 1 .. MaxSeq,
           PressTold(k, p, st, record, now), UpTo(k, st, new, now)
    PROVE  LET second == SecondOf(p, number, Open(p.tap), record[k] = "Passed")
           IN  IF Reached(p.hold)
               THEN HoldTold([key |-> k, seq |-> p.seq, due |-> p.hold], new, now)
               ELSE IF Open(p.double)
               THEN /\ second \in SecondPress /\ second.seq = number
                    /\ TimerDue(second) = IF Open(p.tap) THEN p.double ELSE None
                    /\ PressTold(k, second, new, rec, now)
               ELSE Verdict(new, now) = IF Open(p.tap) THEN "tap" ELSE "nothing"
<1>1. p # None /\ new # None /\ now # None
  BY NotNone, GestureAssumption DEF Time
<1>2. st.group \in Group /\ new.group = st.group /\ st.group.key = k /\ p.phase = "held"
  BY DEF Story, UpTo, PressTold, HeldPress
<1>3. /\ st.group.tap \in (1 .. MaxTime) \cup {None}
      /\ st.group.hold \in (1 .. MaxTime) \cup {None}
      /\ st.group.double \in (1 .. MaxTime) \cup {None}
  BY <1>2, GroupFields
<1>4. p.hold \in Deadline /\ p.tap \in Deadline /\ p.double \in Deadline
  BY DEF HeldPress
<1>5. /\ st.up = None /\ st.again = None /\ ~st.outside /\ st.down <= now
      /\ (st.other # None => st.other <= now) /\ Deadlines(p, st) /\ p.group = st.group
      /\ st.passed <=> record[k] = "Passed"
      /\ st.passed /\ st.other # None => p.hold # None /\ st.other >= p.hold
  BY <1>2 DEF PressTold, HeldTold
<1>6. /\ new.up = now /\ new.again = None /\ ~new.outside /\ new.down = st.down
      /\ new.other = st.other /\ (new.passed <=> st.passed)
      /\ (new.refused <=> st.refused)
  BY <1>2, <1>5 DEF UpTo
<1>7. /\ st.other \in Time \cup {None} /\ st.down \in Time /\ now \in Nat
  BY DEF Story, Time
<1>8. ASSUME Reached(p.hold)
      PROVE  HoldTold([key |-> k, seq |-> p.seq, due |-> p.hold], new, now)
  BY <1>1, <1>2, <1>3, <1>4, <1>5, <1>6, <1>7, <1>8
     DEF Deadlines, HoldTold, EndsFrom, Reached, Time, Deadline
<1>9. ASSUME ~Reached(p.hold)
      PROVE  /\ st.passed => st.other = None
             /\ st.refused \/ st.group.hold = None \/ now < st.down + st.group.hold
  BY <1>2, <1>3, <1>4, <1>5, <1>7, <1>9 DEF Deadlines, Reached, Time, Deadline
<1>10. /\ Open(p.tap) <=> st.group.tap # None /\ now < st.down + st.group.tap
       /\ Open(p.double) <=> st.group.double # None /\ now < st.down + st.group.double
  BY <1>3, <1>4, <1>5, <1>7, GestureAssumption DEF Deadlines, Open, Time, Deadline
<1>11. ASSUME ~Reached(p.hold), Open(p.double)
       PROVE  LET second == SecondOf(p, number, Open(p.tap), record[k] = "Passed")
              IN  /\ second \in SecondPress /\ second.seq = number
                  /\ TimerDue(second) = IF Open(p.tap) THEN p.double ELSE None
                  /\ PressTold(k, second, new, rec, now)
  <2> DEFINE second == SecondOf(p, number, Open(p.tap), record[k] = "Passed")
  <2>1. /\ second.phase = "second" /\ second.seq = number /\ second.group = p.group
        /\ second.due = p.double /\ (second.tapWaits <=> Open(p.tap))
        /\ (second.passed <=> record[k] = "Passed")
    BY DEF SecondOf
  <2>2. p.double \in 0 .. 2 * MaxTime /\ p.group \in Group
    BY <1>4, <1>11 DEF Open, Deadline, HeldPress
  <2>3. second \in SecondPress
    <3>1. PICK tap \in BOOLEAN : tap <=> Open(p.tap)
      OBVIOUS
    <3>2. PICK passed \in BOOLEAN : passed <=> record[k] = "Passed"
      OBVIOUS
    <3>3. SecondOf(p, number, tap, passed) \in SecondPress
      BY <2>2 DEF SecondOf, SecondPress
    <3>4. Open(p.tap) = tap /\ (record[k] = "Passed") = passed
      BY <3>1, <3>2 DEF Open
    <3> QED BY <3>3, <3>4
  <2> HIDE DEF second
  <2>4. TimerDue(second) = IF Open(p.tap) THEN p.double ELSE None
    BY <2>1 DEF TimerDue
  <2>5. SecondTold(second, new)
    BY <1>1, <1>2, <1>5, <1>6, <1>9, <1>10, <1>11, <2>1 DEF SecondTold, Deadlines
  <2>6. PressTold(k, second, new, rec, now)
    BY <1>1, <1>2, <1>5, <1>6, <1>7, <2>1, <2>5 DEF PressTold
  <2>7. /\ second \in SecondPress /\ second.seq = number
        /\ TimerDue(second) = IF Open(p.tap) THEN p.double ELSE None
        /\ PressTold(k, second, new, rec, now)
    BY <2>1, <2>3, <2>4, <2>6
  <2> QED BY <2>7 DEF second
<1>12. ASSUME ~Reached(p.hold), ~Open(p.double)
       PROVE  Verdict(new, now) = IF Open(p.tap) THEN "tap" ELSE "nothing"
  <2>1. ~HeldOut(new, now)
    BY <1>2, <1>3, <1>6, <1>7, <1>9, <1>12, HeldOutIs DEF EndsFrom, Time
  <2>2. /\ new.up # None /\ ~(new.passed /\ new.other # None)
        /\ ~InTerm(new, new.group.double)
        /\ InTerm(new, new.group.tap) <=> Open(p.tap)
    BY <1>1, <1>2, <1>6, <1>9, <1>10, <1>12 DEF InTerm
  <2> HIDE DEF Open
  <2> QED BY <2>1, <2>2 DEF Verdict
<1> QED BY <1>8, <1>11, <1>12

(* A key-up.                                                                  *)
LEMMA KeyUpStep ==
    ASSUME GestureAssumption, IInv, NEW k \in Key, KeyUp(k)
    PROVE  IInv'
<1> DEFINE p      == presses[k]
           isHeld == p # None /\ p.phase = "held"
           held   == isHeld /\ Reached(p.hold)
           tap    == isHeld /\ ~held /\ Open(p.tap)
           waits  == isHeld /\ ~held /\ Open(p.double)
           base   == ToldUp(k)
           second(number) == SecondOf(p, number, tap, record[k] = "Passed")
<1>1. PICK number, due, ps, holds, told, fired, rec :
        /\ number = seq + 1
        /\ due = IF waits /\ tap THEN p.double ELSE None
        /\ ps = [presses EXCEPT ![k] = IF waits THEN second(number)
                                       ELSE IF isHeld THEN None ELSE p]
        /\ holds = IF held THEN dueHolds \cup DueOf(k, p) ELSE dueHolds
        /\ told = IF waits THEN [base EXCEPT ![number] = base[p.seq], ![p.seq] = None]
                  ELSE base
        /\ fired = IF tap /\ ~waits THEN {<<p.seq, "tap">>} ELSE {}
        /\ rec = [record EXCEPT ![k] = "Unknown"]
  OBVIOUS
<1>2. /\ seq < MaxSeq
      /\ active' = active \ {k} /\ record' = rec /\ seq' = number
      /\ StartTimer(k, number, due, ps, holds, told, fired)
      /\ loop' = IF loop = "wait" THEN "dispatch" ELSE loop
      /\ now' = now /\ generation' = generation
  BY <1>1 DEF KeyUp, Delivered, SecondOf
<1>3. /\ TypeOK /\ Entries /\ now \in Time /\ seq \in Nat
      /\ presses \in [Key -> HeldPress \cup SecondPress \cup {None}]
      /\ dueHolds \subseteq DueHold /\ story \in [1 .. MaxSeq -> Story \cup {None}]
      /\ record \in [Key -> {"Unknown", "Passed", "Suppressed"}]
      /\ Numbered(presses, dueHolds, seq)
      /\ \A j \in Key : presses[j] # None =>
            PressTold(j, presses[j], story[presses[j].seq], record, now)
      /\ \A h \in dueHolds : HoldTold(h, story[h.seq], now)
  BY GestureAssumption DEF IInv, TypeOK, Entries, Told
<1>4. number \in 1 .. MaxSeq /\ number > seq /\ number = seq + 1
  BY GestureAssumption, <1>1, <1>2, <1>3
<1>5. /\ base \in [1 .. MaxSeq -> Story \cup {None}]
      /\ \A s \in 1 .. MaxSeq :
           /\ story[s] = None => base[s] = None
           /\ story[s] # None => base[s] \in Story /\ UpTo(k, story[s], base[s], now)
  BY <1>3, UpStories
<1>6. /\ \A j \in Key \ {k} : ps[j] = presses[j]
      /\ ps[k] = IF waits THEN second(number) ELSE IF isHeld THEN None ELSE p
      /\ ps = [j \in Key |-> ps[j]]
  BY <1>1, <1>3
<1>7. \A h \in holds \ dueHolds : held /\ h = [key |-> k, seq |-> p.seq, due |-> p.hold]
  BY <1>1 DEF DueOf
<1>8. /\ dueHolds \subseteq holds
      /\ held => [key |-> k, seq |-> p.seq, due |-> p.hold] \in holds
  BY <1>1 DEF DueOf
<1>9. /\ rec \in [Key -> {"Unknown", "Passed", "Suppressed"}]
      /\ \A j \in Key \ {k} : rec[j] = record[j]
  BY <1>1, <1>3
<1>10. /\ due = IF waits /\ tap THEN p.double ELSE None
       /\ fired = IF tap /\ ~waits THEN {<<p.seq, "tap">>} ELSE {}
  BY <1>1
<1>11. \A j \in Key : presses[j] # None =>
          /\ presses[j] \in HeldPress \cup SecondPress
          /\ presses[j].seq \in 1 .. MaxSeq /\ presses[j].seq <= seq
          /\ presses[j].seq # number
          /\ story[presses[j].seq] \in Story /\ base[presses[j].seq] \in Story
          /\ UpTo(k, story[presses[j].seq], base[presses[j].seq], now)
  <2> SUFFICES ASSUME NEW j \in Key, presses[j] # None
               PROVE  /\ presses[j] \in HeldPress \cup SecondPress
                      /\ presses[j].seq \in 1 .. MaxSeq /\ presses[j].seq <= seq
                      /\ presses[j].seq # number
                      /\ story[presses[j].seq] \in Story /\ base[presses[j].seq] \in Story
                      /\ UpTo(k, story[presses[j].seq], base[presses[j].seq], now)
    OBVIOUS
  <2>1. presses[j] \in HeldPress \cup SecondPress /\ presses[j].seq <= seq
    BY <1>3 DEF Numbered
  <2>2. presses[j].seq \in 1 .. MaxSeq
    BY <2>1 DEF HeldPress, SecondPress
  <2>3. presses[j].seq # number
    BY <1>3, <1>4, <2>1, <2>2
  <2>4. story[presses[j].seq] # None
    BY <1>3 DEF PressTold
  <2> HIDE DEF base
  <2> QED BY <1>3, <1>5, <2>1, <2>2, <2>3, <2>4
<1>12. \A h \in dueHolds :
          /\ h.seq \in 1 .. MaxSeq /\ h.seq <= seq /\ h.seq # number
          /\ story[h.seq] \in Story /\ base[h.seq] \in Story
          /\ UpTo(k, story[h.seq], base[h.seq], now)
  <2> SUFFICES ASSUME NEW h \in dueHolds
               PROVE  /\ h.seq \in 1 .. MaxSeq /\ h.seq <= seq /\ h.seq # number
                      /\ story[h.seq] \in Story /\ base[h.seq] \in Story
                      /\ UpTo(k, story[h.seq], base[h.seq], now)
    OBVIOUS
  <2>1. h.seq \in 1 .. MaxSeq /\ h.seq <= seq
    BY <1>3 DEF Numbered, DueHold
  <2>2. h.seq # number
    BY <1>3, <1>4, <2>1
  <2>3. story[h.seq] # None
    BY <1>3 DEF HoldTold
  <2> HIDE DEF base
  <2> QED BY <1>3, <1>5, <2>1, <2>2, <2>3
<1>13. isHeld => /\ p \in HeldPress /\ p.seq \in 1 .. MaxSeq /\ p.seq # number
                 /\ base[p.seq] \in Story
  BY <1>11 DEF HeldPress, SecondPress
<1>14. /\ waits => told[number] = base[p.seq] /\ told[p.seq] = None
       /\ ~waits => told = base
       /\ \A s \in 1 .. MaxSeq : s # number /\ (waits => s # p.seq) => told[s] = base[s]
       /\ told \in [1 .. MaxSeq -> Story \cup {None}]
  <2> HIDE DEF base
  <2> QED BY <1>1, <1>4, <1>5, <1>13
<1> HIDE DEF base

(* What becomes of the press of k.                                            *)
<1>15. isHeld =>
          IF held THEN HoldTold([key |-> k, seq |-> p.seq, due |-> p.hold], base[p.seq], now)
          ELSE IF waits
          THEN /\ second(number) \in SecondPress /\ second(number).seq = number
               /\ TimerDue(second(number)) = IF tap THEN p.double ELSE None
               /\ PressTold(k, second(number), base[p.seq], rec, now)
          ELSE Verdict(base[p.seq], now) = IF tap THEN "tap" ELSE "nothing"
  <2> SUFFICES ASSUME isHeld
               PROVE  IF held
                      THEN HoldTold([key |-> k, seq |-> p.seq, due |-> p.hold],
                                    base[p.seq], now)
                      ELSE IF waits
                      THEN /\ second(number) \in SecondPress /\ second(number).seq = number
                           /\ TimerDue(second(number)) = IF tap THEN p.double ELSE None
                           /\ PressTold(k, second(number), base[p.seq], rec, now)
                      ELSE Verdict(base[p.seq], now) = IF tap THEN "tap" ELSE "nothing"
    OBVIOUS
  <2>1. PICK q, st, new : q = p /\ st = story[q.seq] /\ new = base[q.seq]
    OBVIOUS
  <2>2. /\ q \in HeldPress /\ st \in Story /\ new \in Story
        /\ PressTold(k, q, st, record, now) /\ UpTo(k, st, new, now)
        /\ GestureAssumption /\ now \in Time /\ k \in Key /\ number \in 1 .. MaxSeq
    BY <1>3, <1>4, <1>11, <1>13, <2>1
  <2>3. LET s2 == SecondOf(q, number, Open(q.tap), record[k] = "Passed")
        IN  IF Reached(q.hold)
            THEN HoldTold([key |-> k, seq |-> q.seq, due |-> q.hold], new, now)
            ELSE IF Open(q.double)
            THEN /\ s2 \in SecondPress /\ s2.seq = number
                 /\ TimerDue(s2) = IF Open(q.tap) THEN q.double ELSE None
                 /\ PressTold(k, s2, new, rec, now)
            ELSE Verdict(new, now) = IF Open(q.tap) THEN "tap" ELSE "nothing"
    BY ONLY <2>2, OwnUp
  <2>4. /\ held <=> Reached(q.hold)
        /\ ~Reached(q.hold) => (waits <=> Open(q.double)) /\ (tap <=> Open(q.tap))
    BY <2>1
  <2>5. ~Reached(q.hold) => tap = Open(q.tap)
    BY <2>1, <2>4 DEF Open
  <2>6. ~Reached(q.hold) =>
           second(number) = SecondOf(q, number, Open(q.tap), record[k] = "Passed")
    BY <2>1, <2>5
  <2> HIDE DEF held, waits, tap, second
  <2>7. CASE Reached(q.hold)
    BY <2>1, <2>3, <2>4, <2>7
  <2>8. CASE ~Reached(q.hold) /\ Open(q.double)
    <3>1. held = FALSE /\ waits = TRUE
      BY <2>4, <2>8
    <3> QED BY <2>1, <2>3, <2>4, <2>6, <2>8, <3>1
  <2>9. CASE ~Reached(q.hold) /\ ~Open(q.double)
    BY <2>1, <2>3, <2>4, <2>9
  <2> QED BY <2>7, <2>8, <2>9
<1>16. /\ waits => isHeld /\ ~held
       /\ tap => isHeld /\ ~held
       /\ held => isHeld
  OBVIOUS
<1>17. isHeld <=> p # None /\ p.phase = "held"
  OBVIOUS
<1>18. held => Reached(p.hold)
  OBVIOUS
<1> HIDE DEF second, waits, held, tap, isHeld
<1>19. Decides(k, ps, holds, number)
  <2>1. \A j \in Key : ps[j] \in HeldPress \cup SecondPress \cup {None}
    BY <1>3, <1>6, <1>15, <1>16
  <2>2. ASSUME NEW h \in holds \ dueHolds
        PROVE  /\ h \in DueHold
               /\ h.key = k /\ presses[k] # None /\ presses[k].phase = "held"
               /\ h.seq = presses[k].seq /\ h.due = presses[k].hold /\ h.due # None
               /\ ps[k] # None => ps[k].seq = number
    <3>1. held /\ h = [key |-> k, seq |-> p.seq, due |-> p.hold]
      BY <1>7
    <3>2. p \in HeldPress /\ p.hold \in Deadline /\ p.hold # None
      BY <1>13, <1>16, <1>18, <3>1 DEF HeldPress, Reached
    <3> QED BY <1>6, <1>13, <1>16, <1>17, <3>1, <3>2 DEF DueHold, Deadline
  <2>3. ps[k] # None => ps[k].seq = number \/ ps[k] = presses[k]
    BY <1>6, <1>15, <1>16
  <2>4. ps \in [Key -> HeldPress \cup SecondPress \cup {None}]
    BY <1>6, <2>1
  <2> QED BY <1>3, <1>6, <2>2, <2>3, <2>4 DEF Decides
<1>20. ASSUME isHeld, ~held PROVE p.seq \notin PendingOf(ps, holds)
  <2>1. holds \subseteq dueHolds
    BY <1>7, <1>20
  <2>2. ps[k] # presses[k] /\ presses[k] # None
    BY <1>6, <1>13, <1>15, <1>17, <1>20
  <2> QED BY <1>3, <1>4, <1>19, <2>1, <2>2, Dropped
<1>21. ASSUME NEW j \in Key, ps[j] # None
       PROVE  PressTold(j, ps[j], told[ps[j].seq], rec, now)
  <2>1. CASE j = k /\ isHeld
    BY <1>6, <1>14, <1>15, <1>16, <1>21, <2>1
  <2>2. CASE j # k \/ ~isHeld
    <3>1. ps[j] = presses[j] /\ presses[j] # None /\ (j # k \/ presses[j].phase = "second")
      BY <1>6, <1>11, <1>16, <1>17, <1>21, <2>2 DEF HeldPress, SecondPress
    <3>2. ps[j].seq \in PendingOf(ps, holds)
      BY <1>21 DEF PendingOf
    <3>3. told[ps[j].seq] = base[ps[j].seq]
      BY <1>11, <1>14, <1>16, <1>20, <3>1, <3>2
    <3>4. PICK q, st, new : q = presses[j] /\ st = story[q.seq] /\ new = base[q.seq]
      OBVIOUS
    <3>5. /\ q \in HeldPress \cup SecondPress /\ st \in Story /\ new \in Story
          /\ PressTold(j, q, st, record, now) /\ UpTo(k, st, new, now)
          /\ j # k \/ q.phase = "second"
          /\ j # k => rec[j] = record[j]
      BY <1>3, <1>9, <1>11, <3>1, <3>4
    <3>6. PressTold(j, q, new, rec, now)
      BY <1>3, <3>5, UpStays
    <3> QED BY <3>1, <3>3, <3>4, <3>6
  <2> QED BY <2>1, <2>2
<1>22. ASSUME NEW h \in holds PROVE HoldTold(h, told[h.seq], now)
  <2>1. h.seq \in PendingOf(ps, holds)
    BY DEF PendingOf
  <2>2. CASE h \in dueHolds
    <3>1. told[h.seq] = base[h.seq]
      BY <1>12, <1>14, <1>16, <1>20, <2>1, <2>2
    <3>2. PICK st, new : st = story[h.seq] /\ new = base[h.seq]
      OBVIOUS
    <3>3. /\ h \in DueHold /\ st \in Story /\ new \in Story
          /\ HoldTold(h, st, now) /\ UpTo(k, st, new, now)
      BY <1>3, <1>12, <2>2, <3>2
    <3>4. HoldTold(h, new, now)
      BY <1>3, <3>3, HoldStays
    <3> QED BY <3>1, <3>2, <3>4
  <2>3. CASE h \notin dueHolds
    <3>1. held /\ h = [key |-> k, seq |-> p.seq, due |-> p.hold]
      BY <1>7, <2>3
    <3>2. ~waits /\ isHeld
      BY <1>16, <3>1
    <3> QED BY <1>14, <1>15, <3>1, <3>2
  <2> QED BY <2>2, <2>3
<1>23. Ends(told, fired, PendingOf(ps, holds), now)
  <2>1. ASSUME NEW f \in fired
        PROVE  /\ f[1] \in 1 .. MaxSeq /\ f[1] \notin PendingOf(ps, holds)
               /\ told[f[1]] # None /\ f[2] = Verdict(told[f[1]], now)
    <3>1. tap /\ ~waits /\ f = <<p.seq, "tap">>
      BY <1>10
    <3>2. isHeld /\ ~held
      BY <1>16, <3>1
    <3> QED BY <1>13, <1>14, <1>15, <1>20, <3>1, <3>2, NotNone
  <2>2. ASSUME NEW s \in 1 .. MaxSeq, told[s] # None, s \notin PendingOf(ps, holds),
               \A f \in fired : f[1] # s
        PROVE  Verdict(told[s], now) = "nothing"
    <3>1. story[s] # None /\ s # number /\ (waits => s # p.seq)
      <4>1. CASE s = number
        <5>1. number \notin PendingOf(presses, dueHolds)
          BY <1>11, <1>12 DEF PendingOf
        <5>2. story[number] = None
          BY <1>3, <1>4, <5>1 DEF Entries, Storied
        <5>3. waits
          BY <1>4, <1>5, <1>14, <2>2, <4>1, <5>2
        <5>4. ps[k] # None /\ ps[k].seq = number
          BY <1>6, <1>15, <1>16, <5>3, NotNone
        <5> QED BY <2>2, <4>1, <5>4 DEF PendingOf
      <4>2. CASE s # number
        BY <1>5, <1>14, <2>2, <4>2
      <4> QED BY <4>1, <4>2
    <3>2. s \in PendingOf(presses, dueHolds) /\ told[s] = base[s]
      BY <1>3, <1>14, <3>1 DEF Entries, Storied
    <3>3. ~\E h \in dueHolds : h.seq = s
      BY <1>8, <2>2 DEF PendingOf
    <3>4. PICK j \in Key : presses[j] # None /\ presses[j].seq = s
      BY <3>2, <3>3 DEF PendingOf
    <3>5. j = k /\ isHeld
      <4>1. CASE j # k \/ ~isHeld
        <5>1. ps[j] = presses[j]
          BY <1>6, <1>16, <4>1
        <5> QED BY <2>2, <3>4, <5>1 DEF PendingOf
      <4> QED BY <4>1
    <3>6. ~held
      <4>1. ASSUME held PROVE FALSE
        BY <1>8, <2>2, <3>4, <3>5, <4>1 DEF PendingOf
      <4> QED BY <4>1
    <3>7. ~waits
      BY <3>1, <3>4, <3>5
    <3>8. ~tap
      <4>1. ASSUME tap PROVE FALSE
        <5>1. <<p.seq, "tap">> \in fired
          BY <1>10, <3>7, <4>1
        <5> QED BY <2>2, <3>4, <3>5, <5>1
      <4> QED BY <4>1
    <3> QED BY <1>15, <3>2, <3>4, <3>5, <3>6, <3>7, <3>8
  <2> QED BY <2>1, <2>2 DEF Ends
<1>24. ASSUME NEW s \in PendingOf(ps, holds), s # number, story[s] # None, story[s].refused
       PROVE  told[s].refused
  <2>1. s \in 1 .. MaxSeq
    BY <1>19, <1>24 DEF PendingOf, Decides, HeldPress, SecondPress, DueHold
  <2>2. told[s] = base[s]
    BY <1>14, <1>16, <1>20, <1>24, <2>1
  <2> QED BY <1>5, <1>24, <2>1, <2>2 DEF UpTo
<1>25. due \in Deadline
  <2>1. waits => p.double \in Deadline
    BY <1>13, <1>16 DEF HeldPress
  <2> QED BY <1>10, <2>1 DEF Deadline
<1>26. ASSUME NEW j \in Key, ps[j] # None, ps[j].seq = number PROVE TimerDue(ps[j]) = due
  <2>1. j = k /\ waits
    BY <1>6, <1>11, <1>26
  <2> QED BY <1>6, <1>10, <1>15, <1>16, <2>1
<1>27. ASSUME due # None
       PROVE  ps[k] # None /\ ps[k].seq = number /\ ps[k].phase # "held"
  <2>1. waits
    BY <1>10, <1>27
  <2>2. ps[k] = second(number) /\ second(number) \in SecondPress /\ second(number).seq = number
    BY <1>6, <1>15, <1>16, <2>1
  <2> QED BY <2>2, NotNone DEF SecondPress
<1>28. \A f \in fired : f[2] # "hold"
  BY <1>10
<1>29. active' \subseteq Key /\ loop' \in {"drain", "dispatch"}
  BY <1>2, <1>3 DEF TypeOK
<1>30. EventTold(k, number, due, ps, holds, told, fired, rec)
  BY <1>14, <1>21, <1>22, <1>23, <1>24, <1>26, <1>27, <1>28 DEF EventTold
<1> HIDE DEF p
<1> QED BY <1>2, <1>4, <1>9, <1>19, <1>25, <1>29, <1>30, KeyEvent
-----------------------------------------------------------------------------
(* A press or a Hold whose timer is due ends as the clock says.               *)
LEMMA TimerEnds ==
    ASSUME GestureAssumption, now \in Time, NEW k \in Key,
           NEW p \in HeldPress \cup SecondPress, NEW st \in Story, NEW rec,
           PressTold(k, p, st, rec, now), TimerDue(p) # None, TimerDue(p) <= now
    PROVE  /\ p.phase = "held" => /\ Verdict(st, now) = "hold"
                                  /\ st.down + st.group.hold = TimerDue(p)
           /\ p.phase = "second" => Verdict(st, now) = "tap"
<1>1. p # None /\ st.group \in Group /\ p.group = st.group
  BY NotNone DEF Story, PressTold
<1>2. /\ st.group.tap \in (1 .. MaxTime) \cup {None}
      /\ st.group.hold \in (1 .. MaxTime) \cup {None}
      /\ st.group.double \in (1 .. MaxTime) \cup {None}
  BY <1>1, GroupFields
<1>3. /\ st.other \in Time \cup {None} /\ st.up \in Time \cup {None}
      /\ st.down \in Time /\ now \in Nat
  BY DEF Story, Time
<1>4. ASSUME p.phase = "held"
      PROVE  Verdict(st, now) = "hold" /\ st.down + st.group.hold = TimerDue(p)
  <2>1. TimerDue(p) = p.hold /\ p.hold # None /\ p.hold <= now
    BY <1>4 DEF TimerDue
  <2>2. /\ st.group.hold # None /\ ~st.refused /\ p.hold = st.down + st.group.hold
        /\ st.up = None /\ st.again = None
        /\ st.passed /\ st.other # None => st.other >= p.hold
    BY <1>4, <2>1 DEF PressTold, HeldTold, Deadlines
  <2>3. HeldOut(st, now)
    BY <1>2, <1>3, <2>1, <2>2, HeldOutIs DEF EndsFrom, Time
  <2> QED BY <2>1, <2>2, <2>3 DEF Verdict
<1>5. ASSUME p.phase = "second" PROVE Verdict(st, now) = "tap"
  <2>1. p \in SecondPress
    BY <1>5 DEF HeldPress
  <2>2. p.tapWaits /\ TimerDue(p) = p.due /\ p.due <= now
    BY <1>5, <2>1 DEF TimerDue, SecondPress
  <2>3. ~HeldOut(st, now)
    BY <1>1, <1>2, <1>3, <1>5, HeldOutIs DEF PressTold, SecondTold, EndsFrom, Time
  <2>4. /\ st.up # None /\ ~(st.passed /\ st.other # None) /\ st.again = None
        /\ InTerm(st, st.group.tap) /\ now >= st.down + st.group.double
    BY <1>2, <1>3, <1>5, <2>2 DEF PressTold, SecondTold, InTerm, Time
  <2> QED BY <2>3, <2>4 DEF Verdict
<1> QED BY <1>4, <1>5

(* A Hold that is due is one by the clock too.                                *)
LEMMA HoldEnds ==
    ASSUME GestureAssumption, now \in Time, NEW h \in DueHold, NEW st \in Story,
           HoldTold(h, st, now)
    PROVE  Verdict(st, now) = "hold" /\ st.down + st.group.hold = h.due
<1>1. HeldOut(st, now)
  BY HeldOutIs DEF HoldTold, DueHold, Time
<1> QED BY <1>1 DEF Verdict, HoldTold

(* A timer that is taken.                                                     *)
LEMMA TakeTimerStep ==
    ASSUME GestureAssumption, IInv, TakeTimer
    PROVE  IInv'
<1>1. PICK t \in queue : /\ t.due <= now /\ First(t)
                         /\ queue' = queue \ {t} /\ OnTimer(t)
  BY DEF TakeTimer, DueTimers
<1>2. /\ loop = "drain" /\ now' = now /\ active' = active /\ record' = record /\ seq' = seq
      /\ generation' = generation /\ armed' = armed /\ wake' = wake /\ loop' = loop
  BY DEF TakeTimer
<1> DEFINE isHold == HoldsOf(t) # {}
           own    == IF isHold THEN {} ELSE {k \in Key : WaitsFor(k, t)}
           fires  == t.generation = generation /\ (isHold \/ own # {})
           closed == {k \in Key \ own : Closed(k, t)}
           gone   == IF fires THEN own \cup closed ELSE {}
           what(k) == IF presses[k].phase = "held" THEN "hold" ELSE "tap"
<1>3. /\ TypeOK /\ Entries /\ Timers /\ now \in Time /\ seq \in Nat
      /\ presses \in [Key -> HeldPress \cup SecondPress \cup {None}]
      /\ dueHolds \subseteq DueHold /\ story \in [1 .. MaxSeq -> Story \cup {None}]
      /\ Numbered(presses, dueHolds, seq)
      /\ \A k \in Key : presses[k] # None =>
            PressTold(k, presses[k], story[presses[k].seq], record, now)
      /\ \A h \in dueHolds : HoldTold(h, story[h.seq], now)
  BY GestureAssumption DEF IInv, TypeOK, Entries, Told
<1>4. /\ t \in Timer /\ t.generation = generation /\ Fits(t, presses, dueHolds)
  BY <1>3 DEF Timers, TimersFit
<1>5. PICK ps, holds, fired :
        /\ ps = [k \in Key |-> IF k \in gone THEN None ELSE presses[k]]
        /\ holds = IF fires THEN dueHolds \ HoldsOf(t) ELSE dueHolds
        /\ fired = {<<presses[k].seq, what(k)>> : k \in gone}
                     \cup IF fires THEN {<<h.seq, "hold">> : h \in HoldsOf(t)} ELSE {}
  OBVIOUS
<1>6. presses' = ps /\ dueHolds' = holds /\ Settle(story, fired)
  BY <1>1, <1>5 DEF OnTimer
<1>7. /\ \A k \in Key : ps[k] = IF k \in gone THEN None ELSE presses[k]
      /\ ps = [k \in Key |-> ps[k]]
      /\ \A h \in dueHolds : h \in holds \/ (fires /\ h \in HoldsOf(t))
      /\ holds \subseteq dueHolds
      /\ \A h \in holds : h \notin HoldsOf(t)
      /\ HoldsOf(t) # {} => fires
      /\ HoldsOf(t) = {h \in dueHolds : h.key = t.key /\ h.seq = t.seq}
  <2>1. HoldsOf(t) # {} => fires
    BY <1>4
  <2>2. HoldsOf(t) \subseteq dueHolds
    BY DEF HoldsOf
  <2> HIDE DEF gone, fires
  <2> QED BY <1>5, <2>1, <2>2 DEF HoldsOf
<1>8. \A k \in gone : /\ k \in Key /\ presses[k] # None /\ TimerDue(presses[k]) # None
                      /\ TimerDue(presses[k]) <= now
                      /\ presses[k].phase = "held" => TimerDue(presses[k]) = t.due
  <2> SUFFICES ASSUME NEW k \in gone
               PROVE  /\ k \in Key /\ presses[k] # None /\ TimerDue(presses[k]) # None
                      /\ TimerDue(presses[k]) <= now
                      /\ presses[k].phase = "held" => TimerDue(presses[k]) = t.due
    OBVIOUS
  <2>1. CASE k \in own
    <3>1. k \in Key /\ WaitsFor(k, t)
      BY <2>1
    <3> QED BY <1>1, <1>4, <3>1 DEF WaitsFor, Fits
  <2>2. CASE k \in closed
    <3>1. k \in Key /\ Closed(k, t)
      BY <2>2
    <3>2. presses[k] \in SecondPress
      BY <1>3, <3>1 DEF Closed, HeldPress
    <3>3. TimerDue(presses[k]) = presses[k].due /\ presses[k].due \in Nat
          /\ t.due \in Nat /\ now \in Nat
      BY <1>3, <1>4, <3>1, <3>2, GestureAssumption
         DEF Closed, TimerDue, SecondPress, Timer, Time
    <3> QED BY <1>1, <3>1, <3>3, GestureAssumption DEF Closed
  <2> QED BY <2>1, <2>2
<1>9. ASSUME NEW k \in Key, presses[k] # None, TimerDue(presses[k]) # None, fires,
             k \notin gone
      PROVE  TimerDue(presses[k]) >= t.due
  <2>1. CASE Asked(k, presses[k].seq, TimerDue(presses[k]), generation) \in queue
    <3>1. TimerDue(presses[k]) \in Nat /\ t.due \in Nat
      BY <1>3, <1>4, <2>1 DEF Timers, TimersFit, Timer, Asked
    <3> QED BY <1>1, <2>1, <3>1 DEF First, Asked
  <2>2. CASE presses[k].phase = "second" /\ story[presses[k].seq].refused
    <3>1. presses[k] \in SecondPress
      BY <1>3, <1>9, <2>2 DEF HeldPress
    <3>2. presses[k].tapWaits /\ TimerDue(presses[k]) = presses[k].due
          /\ presses[k].due \in Nat /\ t.due \in Nat
      BY <1>4, <1>9, <2>2, <3>1 DEF TimerDue, SecondPress, Timer
    <3>3. ~Closed(k, t)
      BY <1>9
    <3> QED BY <1>9, <2>2, <3>2, <3>3 DEF Closed
  <2> QED BY <1>3, <1>9, <2>1, <2>2 DEF Timers, Covers
<1>10. ASSUME NEW k \in Key, WaitsFor(k, t) PROVE k \in gone
  <2>1. HoldsOf(t) = {}
    <3> SUFFICES ASSUME NEW h \in HoldsOf(t) PROVE FALSE
      OBVIOUS
    <3> QED BY <1>3, <1>10 DEF HoldsOf, WaitsFor, Numbered
  <2> QED BY <1>4, <1>10, <2>1
<1>11. fired = {<<presses[k].seq, what(k)>> : k \in gone}
                 \cup IF fires THEN {<<h.seq, "hold">> : h \in HoldsOf(t)} ELSE {}
  BY <1>5
<1>12. gone # {} => fires
  OBVIOUS
<1> HIDE DEF gone, fires
<1>13. /\ ps \in [Key -> HeldPress \cup SecondPress \cup {None}]
       /\ \A k \in Key : ps[k] # None => ps[k] = presses[k] /\ k \notin gone
  <2>1. \A k \in Key : ps[k] \in HeldPress \cup SecondPress \cup {None}
    BY <1>3, <1>7
  <2> QED BY <1>7, <2>1
<1>14. Told(ps, holds, story, seq, record, now)
  <2>1. Numbered(ps, holds, seq)
    BY <1>3, <1>7, <1>13 DEF Numbered
  <2> QED BY <1>3, <1>7, <1>13, <2>1 DEF Told
<1>15. PendingOf(ps, holds) \subseteq PendingOf(presses, dueHolds)
  BY <1>7, <1>13 DEF PendingOf
<1>16. ASSUME NEW k \in gone
       PROVE  /\ presses[k].seq \in 1 .. MaxSeq /\ presses[k].seq \notin PendingOf(ps, holds)
              /\ story[presses[k].seq] # None
              /\ Verdict(story[presses[k].seq], now) = what(k)
              /\ what(k) = "hold" =>
                   story[presses[k].seq].down + story[presses[k].seq].group.hold = t.due
  <2>1. k \in Key /\ presses[k] # None /\ presses[k] \in HeldPress \cup SecondPress
    BY <1>3, <1>8
  <2>2. presses[k].seq \in 1 .. MaxSeq
    BY <2>1 DEF HeldPress, SecondPress
  <2>3. presses[k].seq \notin PendingOf(ps, holds)
    <3>1. ASSUME NEW j \in Key, ps[j] # None PROVE ps[j].seq # presses[k].seq
      BY <1>3, <1>13, <2>1, <3>1 DEF Numbered
    <3>2. ASSUME NEW h \in holds PROVE h.seq # presses[k].seq
      BY <1>3, <1>7, <2>1 DEF Numbered
    <3> QED BY <3>1, <3>2 DEF PendingOf
  <2>4. PICK p, st : p = presses[k] /\ st = story[p.seq]
    OBVIOUS
  <2>5. /\ p \in HeldPress \cup SecondPress /\ st \in Story /\ st # None
        /\ PressTold(k, p, st, record, now) /\ TimerDue(p) # None /\ TimerDue(p) <= now
        /\ p.phase = "held" => TimerDue(p) = t.due
    BY <1>3, <1>8, <2>1, <2>2, <2>4 DEF PressTold
  <2>6. /\ p.phase = "held" => /\ Verdict(st, now) = "hold"
                               /\ st.down + st.group.hold = TimerDue(p)
        /\ p.phase = "second" => Verdict(st, now) = "tap"
    BY <1>3, <2>1, <2>5, TimerEnds
  <2>7. p.phase = "held" \/ p.phase = "second"
    BY <2>5 DEF HeldPress, SecondPress
  <2> QED BY <2>2, <2>3, <2>4, <2>5, <2>6, <2>7
<1>17. ASSUME NEW h \in HoldsOf(t), fires
       PROVE  /\ h.seq \in 1 .. MaxSeq /\ h.seq \notin PendingOf(ps, holds)
              /\ story[h.seq] # None /\ Verdict(story[h.seq], now) = "hold"
              /\ story[h.seq].down + story[h.seq].group.hold = t.due
  <2>1. h \in dueHolds /\ h \in DueHold /\ h.seq \in 1 .. MaxSeq /\ h.due = t.due
    BY <1>3, <1>4 DEF HoldsOf, DueHold, Fits
  <2>2. h.seq \notin PendingOf(ps, holds)
    <3>1. ASSUME NEW j \in Key, ps[j] # None PROVE ps[j].seq # h.seq
      BY <1>3, <1>13, <2>1, <3>1 DEF Numbered
    <3>2. ASSUME NEW g \in holds PROVE g.seq # h.seq
      <4>1. g \in dueHolds /\ g # h
        BY <1>7
      <4> QED BY <1>3, <2>1, <4>1 DEF Numbered
    <3> QED BY <3>1, <3>2 DEF PendingOf
  <2>3. PICK st : st = story[h.seq]
    OBVIOUS
  <2>4. st \in Story /\ HoldTold(h, st, now) /\ st # None
    BY <1>3, <2>1, <2>3 DEF HoldTold
  <2>5. Verdict(st, now) = "hold" /\ st.down + st.group.hold = h.due
    BY <1>3, <2>1, <2>4, HoldEnds
  <2> QED BY <2>1, <2>2, <2>3, <2>4, <2>5
<1>18. ASSUME NEW f \in fired
       PROVE  /\ f[1] \in 1 .. MaxSeq /\ f[1] \notin PendingOf(ps, holds)
              /\ story[f[1]] # None /\ f[2] = Verdict(story[f[1]], now)
              /\ f[2] = "hold" => story[f[1]].down + story[f[1]].group.hold = t.due
              /\ fires
  <2>1. CASE \E k \in gone : f = <<presses[k].seq, what(k)>>
    <3>1. PICK k \in gone : f = <<presses[k].seq, what(k)>>
      BY <2>1
    <3>2. f[1] = presses[k].seq /\ f[2] = what(k)
      BY <3>1
    <3> HIDE DEF what
    <3> QED BY <1>12, <1>16, <3>2
  <2>2. CASE fires /\ \E h \in HoldsOf(t) : f = <<h.seq, "hold">>
    <3>1. PICK h \in HoldsOf(t) : f = <<h.seq, "hold">>
      BY <2>2
    <3>2. f[1] = h.seq /\ f[2] = "hold"
      BY <3>1
    <3> QED BY <1>17, <2>2, <3>2
  <2> QED BY <1>11, <2>1, <2>2
<1>19. Ends(story, fired, PendingOf(ps, holds), now)
  <2>1. ASSUME NEW s \in 1 .. MaxSeq, story[s] # None, s \notin PendingOf(ps, holds),
               \A f \in fired : f[1] # s
        PROVE  FALSE
    <3>1. s \in PendingOf(presses, dueHolds)
      BY <1>3, <2>1 DEF Entries, Storied
    <3>2. CASE \E k \in Key : presses[k] # None /\ presses[k].seq = s
      <4>1. PICK k \in Key : presses[k] # None /\ presses[k].seq = s
        BY <3>2
      <4>2. k \in gone
        BY <1>7, <2>1, <4>1 DEF PendingOf
      <4>3. <<presses[k].seq, what(k)>> \in fired
        BY <1>11, <4>2
      <4> HIDE DEF what
      <4> QED BY <2>1, <4>1, <4>3
    <3>3. CASE \E h \in dueHolds : h.seq = s
      <4>1. PICK h \in dueHolds : h.seq = s
        BY <3>3
      <4>2. h \notin holds
        BY <2>1, <4>1 DEF PendingOf
      <4>3. fires /\ h \in HoldsOf(t)
        BY <1>7, <4>2
      <4>4. <<h.seq, "hold">> \in fired
        BY <1>11, <4>3
      <4> QED BY <2>1, <4>1, <4>4
    <3> QED BY <3>1, <3>2, <3>3 DEF PendingOf
  <2> QED BY <1>18, <2>1 DEF Ends
<1>20. PICK told, n, rec : told = story /\ n = seq /\ rec = record
  OBVIOUS
<1>21. /\ Told(ps, holds, told, n, rec, now) /\ Settle(told, fired)
       /\ Ends(told, fired, PendingOf(ps, holds), now)
  BY <1>6, <1>14, <1>19, <1>20
<1>22. Settled(ps, holds, told, fired, n, rec)
  BY <1>2, <1>6, <1>21, SettledAll
<1>23. Settled(ps, holds, story, fired, seq, record)
  BY <1>20, <1>22
<1>24. Entries'
  BY <1>2, <1>23 DEF Settled, Entries, Storied
<1>25. Timers'
  <2>1. TimersFit(queue', presses', dueHolds', seq', generation')
    <3>1. ASSUME NEW u \in queue, Fits(u, presses, dueHolds) PROVE Fits(u, ps, holds)
      BY <1>7, <1>13, <3>1 DEF Fits
    <3> QED BY <1>1, <1>2, <1>3, <1>6, <3>1 DEF Timers, TimersFit
  <2>2. ASSUME NEW h \in holds
        PROVE  Asked(h.key, h.seq, h.due, generation) \in queue \ {t}
    <3>1. Asked(h.key, h.seq, h.due, generation) \in queue /\ h \in dueHolds
      BY <1>3, <1>7 DEF Timers, Covers
    <3>2. h \notin HoldsOf(t)
      BY <1>7
    <3> QED BY <3>1, <3>2 DEF Asked, HoldsOf
  <2>3. ASSUME NEW k \in Key, ps[k] # None, TimerDue(ps[k]) # None
        PROVE  \/ Asked(k, ps[k].seq, TimerDue(ps[k]), generation) \in queue \ {t}
               \/ ps[k].phase = "second" /\ story'[ps[k].seq].refused
    <3>1. ps[k] = presses[k] /\ k \notin gone
      BY <1>13, <2>3
    <3>2. ~WaitsFor(k, t)
      BY <1>10, <3>1
    <3>3. Asked(k, presses[k].seq, TimerDue(presses[k]), generation) # t
      BY <2>3, <3>1, <3>2 DEF Asked, WaitsFor
    <3>4. ps[k].seq \in PendingOf(ps, holds)
      BY <2>3 DEF PendingOf
    <3>5. story'[ps[k].seq] = story[ps[k].seq]
      BY <1>23, <3>4 DEF Settled
    <3> QED BY <1>3, <2>3, <3>1, <3>3, <3>5 DEF Timers, Covers
  <2>4. Covers(queue', presses', dueHolds', story', generation')
    BY <1>1, <1>2, <1>6, <2>2, <2>3 DEF Covers
  <2>5. WakeRight'
    BY <1>2, <1>3 DEF Timers, WakeRight
  <2> QED BY <2>1, <2>4, <2>5 DEF Timers
<1>26. TypeOK'
  <2>1. queue' \subseteq Timer
    BY <1>1, <1>3 DEF TypeOK
  <2> QED BY <1>2, <1>3, <1>6, <1>7, <1>13, <2>1 DEF TypeOK
<1>27. OutcomeByClock'
  <2>1. ASSUME NEW e \in settled', e.outcome = "hold"
        PROVE  ~Overtaken(e.story.down + e.story.group.hold)'
    <3>1. PICK f \in fired : f[2] = "hold" /\ e.story = story[f[1]]
      BY <1>23, <2>1 DEF Settled
    <3>2. e.story.down + e.story.group.hold = t.due /\ fires
      BY <1>18, <3>1
    <3>3. ASSUME NEW h \in holds PROVE ~(h.due < t.due)
      <4>1. Asked(h.key, h.seq, h.due, generation) \in queue
        BY <1>3, <1>7 DEF Timers, Covers
      <4>2. h.due \in Nat /\ t.due \in Nat
        BY <1>3, <1>4, <1>7 DEF DueHold, Timer
      <4> QED BY <1>1, <4>1, <4>2 DEF First, Asked
    <3>4. ASSUME NEW k \in Key, ps[k] # None, TimerDue(ps[k]) # None
          PROVE  ~(TimerDue(ps[k]) < t.due)
      <4>1. ps[k] = presses[k] /\ k \notin gone
        BY <1>13, <3>4
      <4>2. TimerDue(presses[k]) >= t.due
        BY <1>9, <3>2, <3>4, <4>1
      <4>3. TimerDue(presses[k]) \in Nat /\ t.due \in Nat
        <5>1. presses[k] \in HeldPress \cup SecondPress
          BY <1>3, <3>4, <4>1
        <5>2. TimerDue(presses[k]) \in Deadline
          BY <3>4, <4>1, <5>1 DEF TimerDue, HeldPress, SecondPress, Deadline
        <5> QED BY <1>4, <3>4, <4>1, <5>2 DEF Deadline, Timer
      <4> QED BY <4>1, <4>2, <4>3
    <3> QED BY <1>6, <3>2, <3>3, <3>4 DEF Overtaken
  <2> QED BY <1>23, <2>1 DEF Settled, OutcomeByClock
<1> QED BY <1>24, <1>25, <1>26, <1>27 DEF IInv
-----------------------------------------------------------------------------
(* The drain is over and the wake planned.                                    *)
LEMMA PlanWakeStep ==
    ASSUME GestureAssumption, IInv, PlanWake
    PROVE  IInv'
<1>1. /\ TypeOK /\ Entries /\ Timers /\ now \in Time
      /\ presses \in [Key -> HeldPress \cup SecondPress \cup {None}]
      /\ dueHolds \subseteq DueHold /\ story \in [1 .. MaxSeq -> Story \cup {None}]
      /\ Numbered(presses, dueHolds, seq)
      /\ Told(presses, dueHolds, story, seq, record, now)
  BY DEF IInv, TypeOK, Entries, Told
<1>2. /\ now' = now /\ active' = active /\ record' = record /\ seq' = seq
      /\ generation' = generation /\ loop' = "wait" /\ DueTimers = {}
  BY DEF PlanWake
<1>3. /\ TimersFit(queue, presses, dueHolds, seq, generation)
      /\ Covers(queue, presses, dueHolds, story, generation)
      /\ armed # None => wake = armed
      /\ Planned = KeptOf(queue, presses, dueHolds)
  BY <1>1 DEF Timers, WakeRight, Planned, KeptOf
<1>4. PICK ps, holds, told, n, rec :
        ps = presses /\ holds = dueHolds /\ told = story /\ n = seq /\ rec = record
  OBVIOUS
<1>5. /\ TimersFit(Planned, ps, holds, n, generation)
      /\ \A h \in holds : Asked(h.key, h.seq, h.due, generation) \in queue
                          => Asked(h.key, h.seq, h.due, generation) \in Planned
      /\ \A k \in Key : ps[k] # None /\ TimerDue(ps[k]) # None
           /\ Asked(k, ps[k].seq, TimerDue(ps[k]), generation) \in queue
           => Asked(k, ps[k].seq, TimerDue(ps[k]), generation) \in Planned
  <2>1. PICK q : q = queue
    OBVIOUS
  <2>2. TimersFit(q, ps, holds, n, generation) /\ Planned = KeptOf(q, ps, holds)
    BY <1>3, <1>4, <2>1
  <2>3. LET kept == KeptOf(q, ps, holds)
        IN  /\ TimersFit(kept, ps, holds, n, generation)
            /\ \A h \in holds : Asked(h.key, h.seq, h.due, generation) \in q
                                => Asked(h.key, h.seq, h.due, generation) \in kept
            /\ \A k \in Key : ps[k] # None /\ TimerDue(ps[k]) # None
                 /\ Asked(k, ps[k].seq, TimerDue(ps[k]), generation) \in q
                 => Asked(k, ps[k].seq, TimerDue(ps[k]), generation) \in kept
    BY <2>2, KeptTimers
  <2> QED BY <2>1, <2>2, <2>3
<1>6. Covers(Planned, ps, holds, told, generation)
  BY <1>3, <1>4, <1>5 DEF Covers
<1>7. ASSUME UNCHANGED <<presses, dueHolds>>, Settle(story, {}), queue' = Planned,
             armed' # None => wake' = armed', armed' \in Deadline, wake' \in Deadline,
             \A t \in Planned : wake' # None /\ wake' <= t.due
      PROVE  IInv'
  <2>1. PICK fired : fired = {}
    OBVIOUS
  <2>2. Ends(told, fired, PendingOf(ps, holds), now)
    BY <1>1, <1>4, <2>1 DEF Ends, Entries, Storied
  <2>3. /\ presses' = ps /\ dueHolds' = holds /\ Settle(told, fired)
        /\ Told(ps, holds, told, n, rec, now)
    BY <1>1, <1>4, <1>7, <2>1
  <2>4. Settled(ps, holds, told, fired, n, rec)
    BY <1>2, <2>2, <2>3, SettledAll
  <2>5. Entries'
    BY <1>2, <1>4, <2>4 DEF Settled, Entries, Storied
  <2>6. TimersFit(queue', presses', dueHolds', seq', generation')
    BY <1>2, <1>4, <1>5, <1>7, <2>3
  <2>7. Covers(queue', presses', dueHolds', story', generation')
    <3>1. ASSUME NEW k \in Key, ps[k] # None, TimerDue(ps[k]) # None
          PROVE  \/ Asked(k, ps[k].seq, TimerDue(ps[k]), generation) \in Planned
                 \/ ps[k].phase = "second" /\ story'[ps[k].seq].refused
      <4>1. ps[k].seq \in PendingOf(ps, holds)
        BY <3>1 DEF PendingOf
      <4>2. story'[ps[k].seq] = told[ps[k].seq]
        BY <2>4, <4>1 DEF Settled
      <4> QED BY <1>6, <3>1, <4>2 DEF Covers
    <3> QED BY <1>2, <1>6, <1>7, <2>3, <3>1 DEF Covers
  <2>8. WakeRight'
    BY <1>7 DEF WakeRight
  <2>9. OutcomeByClock'
    BY <2>1, <2>4 DEF Settled, OutcomeByClock
  <2>10. TypeOK'
    <3>1. queue' \subseteq Timer
      BY <1>5, <1>7 DEF TimersFit
    <3> QED BY <1>1, <1>2, <1>7, <3>1 DEF TypeOK
  <2> QED BY <2>5, <2>6, <2>7, <2>8, <2>9, <2>10 DEF IInv, Timers
<1>8. CASE /\ Planned = {} /\ Cancel /\ queue' = {}
           /\ UNCHANGED <<presses, dueHolds>> /\ Settle(story, {})
  <2>1. armed' = None /\ wake' \in {wake, None}
    BY <1>8 DEF Cancel
  <2>2. armed' \in Deadline /\ wake' \in Deadline
    BY <1>1, <2>1 DEF TypeOK, Deadline
  <2> QED BY <1>7, <1>8, <2>1, <2>2
<1>9. ASSUME NEW t \in Planned, \A u \in Planned : t.due <= u.due,
             queue' = Planned, armed' = t.due,
             wake' = IF armed = t.due THEN wake ELSE t.due,
             UNCHANGED <<presses, dueHolds>>, Settle(story, {})
      PROVE  IInv'
  <2>1. t \in Timer /\ t.due \in Nat /\ t.due \in Deadline /\ t.due # None
    BY <1>1, <1>3, GestureAssumption DEF TypeOK, KeptOf, Timer, Deadline
  <2>2. wake' = t.due
    BY <1>3, <1>9, <2>1
  <2> QED BY <1>7, <1>9, <2>1, <2>2
<1>10. ASSUME NEW t \in Planned, NEW seqs, seqs = {u.seq : u \in Planned},
              Refused, queue' = {}, presses' = Forgotten(presses, seqs),
              dueHolds' = {h \in dueHolds : h.seq \notin seqs},
              Settle(ToldRefused(story, seqs), {})
       PROVE  IInv'
  <2>1. holds = {} /\ dueHolds' = holds
    <3>1. ASSUME NEW h \in holds PROVE FALSE
      <4>1. Asked(h.key, h.seq, h.due, generation) \in queue
        BY <1>3, <1>4 DEF Covers
      <4>2. Asked(h.key, h.seq, h.due, generation).due = h.due
        BY DEF Asked
      <4>3. h.due <= now
        BY <1>1, <1>4 DEF Told, HoldTold
      <4> QED BY <1>2, <4>1, <4>2, <4>3 DEF DueTimers
    <3> QED BY <1>4, <1>10, <3>1
  <2>2. ASSUME NEW u \in Planned
        PROVE  /\ u.key \in Key /\ ps[u.key] # None /\ ps[u.key].seq = u.seq
               /\ TimerDue(ps[u.key]) # None /\ u.due = TimerDue(ps[u.key])
               /\ u.due \in Nat /\ now < u.due
    <3>1. u \in Timer /\ u \in queue /\ Live(u, presses, dueHolds)
      BY <1>1, <1>3 DEF TypeOK, KeptOf
    <3>2. Fits(u, ps, holds)
      BY <1>5 DEF TimersFit
    <3>3. /\ u.key \in Key /\ ps[u.key] # None /\ ps[u.key].seq = u.seq
          /\ TimerDue(ps[u.key]) # None
      BY <1>4, <2>1, <3>1 DEF Live, Timer
    <3>4. u.due \in Nat /\ ~(u.due <= now)
      BY <1>2, <3>1 DEF DueTimers, Timer
    <3> QED BY <1>1, <3>2, <3>3, <3>4 DEF Fits, Time
  <2>3. seqs \subseteq PendingOf(ps, holds)
    BY <1>10, <2>2 DEF PendingOf
  <2>4. ASSUME NEW k \in Key, ps[k] # None, ps[k].phase = "held", ps[k].seq \in seqs
        PROVE  ps[k].hold # None /\ now < ps[k].hold
    <3>1. PICK u \in Planned : u.seq = ps[k].seq
      BY <1>10, <2>4
    <3>2. u.key = k
      BY <1>1, <1>4, <2>2, <2>4, <3>1 DEF Numbered
    <3>3. TimerDue(ps[k]) = ps[k].hold
      BY <2>4 DEF TimerDue
    <3> QED BY <2>2, <3>1, <3>2, <3>3
  <2>5. PICK fired : fired = {}
    OBVIOUS
  <2>6. Ends(told, fired, PendingOf(ps, holds), now)
    BY <1>1, <1>4, <2>5 DEF Ends, Entries, Storied
  <2>7. \A h \in holds : h.seq \notin seqs
    BY <2>1
  <2>8. Told(ps, holds, told, n, rec, now)
    BY <1>1, <1>4
  <2> DEFINE qs  == Forgotten(ps, seqs)
             new == ToldRefused(told, seqs)
  <2>9. /\ Told(qs, holds, new, n, rec, now)
        /\ Ends(new, fired, PendingOf(qs, holds), now)
        /\ \A k \in Key : qs[k] # None =>
              /\ ps[k] # None /\ qs[k].seq = ps[k].seq
              /\ ps[k].seq \notin seqs => qs[k] = ps[k]
              /\ ps[k].seq \in seqs /\ TimerDue(qs[k]) # None =>
                    qs[k].phase = "second" /\ new[qs[k].seq].refused
        /\ \A s \in 1 .. MaxSeq : s \notin seqs => new[s] = told[s]
        /\ \A s \in 1 .. MaxSeq : told[s] # None /\ told[s].refused => new[s].refused
    <3>1. \A k \in Key : ps[k] # None /\ ps[k].phase = "held" /\ ps[k].seq \in seqs
                           => ps[k].hold # None /\ now < ps[k].hold
      BY <2>4
    <3>2. now \in Time
      BY <1>1
    <3> QED BY ONLY <2>3, <2>6, <2>7, <2>8, <3>1, <3>2, GestureAssumption, Forgets
  <2>10. presses' = qs /\ Settle(new, fired)
    BY <1>4, <1>10, <2>5
  <2> HIDE DEF qs, new
  <2>11. PICK rs, nw : rs = qs /\ nw = new
    OBVIOUS
  <2>12. /\ presses' = rs /\ dueHolds' = holds /\ now' = now /\ Settle(nw, fired)
         /\ Told(rs, holds, nw, n, rec, now)
         /\ Ends(nw, fired, PendingOf(rs, holds), now)
    BY <1>2, <2>1, <2>9, <2>10, <2>11
  <2>13. Settled(rs, holds, nw, fired, n, rec)
    BY <2>12, SettledAll
  <2>14. Entries'
    BY <1>2, <1>4, <2>13 DEF Settled, Entries, Storied
  <2>15. TimersFit(queue', presses', dueHolds', seq', generation')
    BY <1>10 DEF TimersFit
  <2>16. ASSUME NEW k \in Key, rs[k] # None, TimerDue(rs[k]) # None
         PROVE  rs[k].phase = "second" /\ story'[rs[k].seq].refused
    <3>1. rs[k].seq \in PendingOf(rs, holds) /\ rs[k].seq \in 1 .. MaxSeq
      BY <2>12, <2>16 DEF PendingOf, Told, HeldPress, SecondPress
    <3>2. story'[rs[k].seq] = nw[rs[k].seq]
      BY <2>13, <3>1 DEF Settled
    <3>3. CASE ps[k].seq \in seqs
      BY <2>9, <2>11, <2>16, <3>2, <3>3
    <3>4. CASE ps[k].seq \notin seqs
      <4>1. rs[k] = ps[k] /\ ps[k] # None
        BY <2>9, <2>11, <2>16, <3>4
      <4>2. Asked(k, ps[k].seq, TimerDue(ps[k]), generation) \notin queue
        <5> SUFFICES ASSUME Asked(k, ps[k].seq, TimerDue(ps[k]), generation) \in queue
                     PROVE  FALSE
          OBVIOUS
        <5>1. Asked(k, ps[k].seq, TimerDue(ps[k]), generation) \in Planned
          BY <1>5, <2>16, <4>1
        <5>2. Asked(k, ps[k].seq, TimerDue(ps[k]), generation).seq = ps[k].seq
          BY DEF Asked
        <5> QED BY <1>10, <3>4, <5>1, <5>2
      <4>3. ps[k].phase = "second" /\ told[ps[k].seq].refused
        BY <1>3, <1>4, <2>16, <4>1, <4>2 DEF Covers
      <4>4. nw[ps[k].seq] = told[ps[k].seq]
        BY <2>9, <2>11, <3>1, <3>4, <4>1
      <4> QED BY <3>2, <4>1, <4>3, <4>4
    <3> QED BY <3>3, <3>4
  <2>17. Covers(queue', presses', dueHolds', story', generation')
    BY <2>1, <2>12, <2>16 DEF Covers
  <2>18. armed' = None /\ wake' \in {wake, None}
    BY <1>10 DEF Refused, ArmedWhenRefused
  <2>19. WakeRight'
    BY <1>10, <2>18 DEF WakeRight
  <2>20. OutcomeByClock'
    BY <2>5, <2>13 DEF Settled, OutcomeByClock
  <2>21. TypeOK'
    <3>1. /\ presses' \in [Key -> HeldPress \cup SecondPress \cup {None}]
          /\ dueHolds' \subseteq DueHold
      BY <2>12 DEF Told
    <3> QED BY <1>1, <1>2, <1>10, <2>18, <3>1 DEF TypeOK, Deadline
  <2> QED BY <2>14, <2>15, <2>17, <2>19, <2>20, <2>21 DEF IInv, Timers
<1>11. CASE \E t \in Planned :
              /\ \A u \in Planned : t.due <= u.due
              /\ \/ /\ queue' = Planned
                    /\ armed' = t.due
                    /\ wake' = IF armed = t.due THEN wake ELSE t.due
                    /\ UNCHANGED <<presses, dueHolds>>
                    /\ Settle(story, {})
                 \/ LET seqs == {u.seq : u \in Planned}
                    IN  /\ armed # t.due /\ Refused
                        /\ queue' = {}
                        /\ presses' = Forgotten(presses, seqs)
                        /\ dueHolds' = {h \in dueHolds : h.seq \notin seqs}
                        /\ Settle(ToldRefused(story, seqs), {})
  BY <1>9, <1>10, <1>11
<1> QED BY <1>8, <1>11 DEF PlanWake
-----------------------------------------------------------------------------
(* A reset leaves no entry, no timer and no story.                            *)
LEMMA ResetStep ==
    ASSUME GestureAssumption, IInv, NEW keys \in SUBSET Key,
           NEW records \in [Key -> {"Unknown", "Passed", "Suppressed"}],
           Reset(keys, records)
    PROVE  IInv'
<1>1. TypeOK /\ Timers
  BY DEF IInv
<1>2. /\ now' = now /\ seq' = seq /\ armed' = armed /\ wake' = wake /\ loop' = loop
      /\ loop = "drain" /\ generation < MaxReset /\ generation' = generation + 1
      /\ active' = keys /\ record' = records
      /\ presses' = [k \in Key |-> None] /\ dueHolds' = {} /\ settled' = {}
      /\ story' = [s \in 1 .. MaxSeq |-> None]
  BY DEF Reset
<1>3. queue' = {}
  <2>1. \A t \in queue : t.generation = generation
    BY <1>1 DEF Timers, TimersFit
  <2>2. generation' # generation
    BY <1>1, <1>2, GestureAssumption DEF TypeOK
  <2>3. \A t \in queue' : t \in queue /\ t.generation = generation'
    BY DEF Reset
  <2> QED BY <2>1, <2>2, <2>3
<1>4. TypeOK'
  <2>1. generation' \in 0 .. MaxReset
    BY <1>1, <1>2, GestureAssumption DEF TypeOK
  <2> QED BY <1>1, <1>2, <1>3, <2>1 DEF TypeOK
<1>5. Entries'
  <2>1. Told(presses', dueHolds', story', seq', record', now')
    BY <1>2 DEF Told, Numbered
  <2> QED BY <1>2, <2>1 DEF Entries, Storied
<1>6. Timers'
  <2>1. WakeRight'
    BY <1>1, <1>2 DEF Timers, WakeRight
  <2> QED BY <1>2, <1>3, <2>1 DEF Timers, TimersFit, Covers
<1>7. OutcomeByClock'
  BY <1>2 DEF OutcomeByClock
<1> QED BY <1>4, <1>5, <1>6, <1>7 DEF IInv

(* Time passes: what is told of the past stays true.                          *)
LEMMA TickStep ==
    ASSUME GestureAssumption, IInv, Tick
    PROVE  IInv'
<1>1. TypeOK /\ Entries /\ Timers
  BY DEF IInv
<1>2. /\ now < MaxTime /\ now' = now + 1 /\ settled' = {}
      /\ active' = active /\ record' = record /\ presses' = presses /\ dueHolds' = dueHolds
      /\ seq' = seq /\ generation' = generation /\ queue' = queue /\ armed' = armed
      /\ wake' = wake /\ loop' = loop /\ story' = story
  BY DEF Tick, engineVars, timerVars
<1>3. now \in Nat /\ now' \in Time
  BY <1>1, <1>2, GestureAssumption DEF TypeOK, Time
<1>4. TypeOK'
  BY <1>1, <1>2, <1>3 DEF TypeOK
<1>5. Told(presses, dueHolds, story, seq, record, now + 1)
  <2>1. Told(presses, dueHolds, story, seq, record, now)
    BY <1>1 DEF Entries
  <2>2. ASSUME NEW k \in Key, presses[k] # None
        PROVE  PressTold(k, presses[k], story[presses[k].seq], record, now + 1)
    <3>1. PressTold(k, presses[k], story[presses[k].seq], record, now)
          /\ story[presses[k].seq] \in Story
      BY <2>1, <2>2 DEF Told, PressTold, HeldPress, SecondPress
    <3> QED BY <1>3, <3>1 DEF PressTold, Story, Time
  <2>3. ASSUME NEW h \in dueHolds PROVE HoldTold(h, story[h.seq], now + 1)
    <3>1. HoldTold(h, story[h.seq], now) /\ h \in DueHold
      BY <2>1 DEF Told
    <3> QED BY <1>3, <3>1 DEF HoldTold, DueHold
  <2> QED BY <2>1, <2>2, <2>3 DEF Told
<1>6. Entries'
  BY <1>1, <1>2, <1>5 DEF Entries, Storied
<1>7. Timers'
  BY <1>1, <1>2 DEF Timers, WakeRight, Live
<1>8. OutcomeByClock'
  BY <1>2 DEF OutcomeByClock
<1> QED BY <1>4, <1>6, <1>7, <1>8 DEF IInv

(* The steps that touch neither the entries nor the timers that are queued.   *)
LEMMA QuietStep ==
    ASSUME GestureAssumption, IInv,
           now' = now, record' = record, presses' = presses, dueHolds' = dueHolds,
           seq' = seq, generation' = generation, queue' = queue, story' = story,
           active' \subseteq Key, armed' \in Deadline, wake' \in Deadline,
           loop' \in {"drain", "wait", "dispatch"},
           \/ UNCHANGED <<armed, wake, loop>>
           \/ loop' # "wait" /\ (armed' = None \/ UNCHANGED <<armed, wake>>),
           settled' = {} \/ settled' = settled
    PROVE  IInv'
<1>1. TypeOK /\ Entries /\ Timers /\ OutcomeByClock
  BY DEF IInv
<1>2. TypeOK'
  BY <1>1 DEF TypeOK
<1>3. Entries'
  BY <1>1 DEF Entries, Storied
<1>4. Timers'
  BY <1>1 DEF Timers, WakeRight, Live
<1>5. OutcomeByClock'
  BY <1>1 DEF OutcomeByClock, Overtaken
<1> QED BY <1>2, <1>3, <1>4, <1>5 DEF IInv
-----------------------------------------------------------------------------
(* The invariant holds at the start.                                          *)
LEMMA InitIInv == Init => IInv
<1> SUFFICES ASSUME Init PROVE IInv
  OBVIOUS
<1>1. TypeOK
  BY GestureAssumption DEF Init, TypeOK, Time, Deadline
<1>2. Entries
  <2>1. Told(presses, dueHolds, story, seq, record, now)
    BY DEF Init, Told, Numbered
  <2> QED BY <2>1 DEF Init, Entries, Storied
<1>3. Timers
  BY DEF Init, Timers, TimersFit, Covers, WakeRight
<1>4. OutcomeByClock
  BY DEF Init, OutcomeByClock
<1> QED BY <1>1, <1>2, <1>3, <1>4 DEF IInv

(* Every step keeps it: one case for each action of Next.                     *)
LEMMA NextIInv == IInv /\ [Next]_vars => IInv'
<1> SUFFICES ASSUME IInv, [Next]_vars PROVE IInv'
  OBVIOUS
<1> USE GestureAssumption
<1>1. TypeOK
  BY DEF IInv
<1>2. CASE \E k \in Key : \E group \in {g \in Group : g.key = k} \cup {None},
                             swallow \in BOOLEAN : KeyDown(k, group, swallow)
  <2>0. PICK k \in Key : \E group \in {g \in Group : g.key = k} \cup {None},
                            swallow \in BOOLEAN : KeyDown(k, group, swallow)
    BY <1>2
  <2>1. PICK group \in {g \in Group : g.key = k} \cup {None}, swallow \in BOOLEAN :
           KeyDown(k, group, swallow)
    BY <2>0
  <2>2. group \in Group \cup {None} /\ (group # None => group.key = k)
    OBVIOUS
  <2> QED BY <2>1, <2>2, KeyDownStep
<1>3. CASE \E k \in Key : KeyUp(k)
  BY <1>3, KeyUpStep
<1>4. CASE \E k \in Key : Freed(k)
  <2>1. active' \subseteq Key /\ settled' = {}
        /\ UNCHANGED <<now, record, presses, dueHolds, seq, generation, queue, armed, wake,
                       loop, story>>
    BY <1>1, <1>4 DEF Freed, timerVars, TypeOK
  <2> QED BY <1>1, <2>1, QuietStep DEF TypeOK
<1>5. CASE ResetReloaded \/ ResetInputLeft \/ ResetFromOs
  <2>1. CASE ResetReloaded
    BY <1>1, <2>1, ResetStep DEF ResetReloaded, TypeOK
  <2>2. CASE ResetInputLeft
    BY <1>1, <2>2, ResetStep DEF ResetInputLeft, TypeOK
  <2>3. CASE ResetFromOs
    <3>1. PICK down \in SUBSET Key :
            Reset(down, [k \in Key |-> IF k \in down THEN "Passed"
                                       ELSE IF record[k] = "Suppressed" THEN "Suppressed"
                                       ELSE "Unknown"])
      BY <2>3 DEF ResetFromOs
    <3>2. PICK records : records = [k \in Key |-> IF k \in down THEN "Passed"
                                       ELSE IF record[k] = "Suppressed" THEN "Suppressed"
                                       ELSE "Unknown"]
      OBVIOUS
    <3>3. records \in [Key -> {"Unknown", "Passed", "Suppressed"}]
      BY <3>2
    <3>4. Reset(down, records)
      BY <3>1, <3>2
    <3> QED BY <3>3, <3>4, ResetStep
  <2> QED BY <1>5, <2>1, <2>2, <2>3
<1>6. CASE TakeTimer
  BY <1>6, TakeTimerStep
<1>7. CASE PlanWake
  BY <1>7, PlanWakeStep
<1>8. CASE Wake \/ Message \/ Dispatched
  <2>1. None \in Deadline
    BY DEF Deadline
  <2> QED BY <1>1, <1>8, <2>1, QuietStep
          DEF Wake, Message, Dispatched, engineVars, timerVars, TypeOK
<1>9. CASE Tick
  BY <1>9, TickStep
<1>10. CASE UNCHANGED vars
  BY <1>1, <1>10, QuietStep DEF vars, TypeOK
<1> QED BY <1>2, <1>3, <1>4, <1>5, <1>6, <1>7, <1>8, <1>9, <1>10 DEF Next

(* In every reachable state the entries are as their stories say, and the     *)
(* timers are those they wait for.                                            *)
THEOREM EntriesInvariant == Spec => []IInv
BY InitIInv, NextIInv, PTL DEF Spec

(* The types, and: the timer an entry waits for is queued, except that of a   *)
(* waiting Tap which Windows refused, and the main loop never waits past the  *)
(* due time of a timer that is awaited (GestureTimers, TimerQueue).           *)
THEOREM TimersAreKept == Spec => []EntriesKept
<1>1. IInv => EntriesKept
  <2> SUFFICES ASSUME IInv PROVE EntriesKept
    OBVIOUS
  <2>1. TypeOK /\ Timers
    BY DEF IInv
  <2>2. TimersKept
    BY <2>1 DEF Timers, Covers, WakeRight, TimersKept, Covered, Queued, Asked
  <2> QED BY <2>1, <2>2 DEF EntriesKept
<1> QED BY <1>1, EntriesInvariant, PTL

(* Every press ends once, with the gesture that the times of its key events   *)
(* name or with none, and no Hold overtakes an entry that is due earlier      *)
(* (gestures.rs), whatever timer is late, stale or refused.                   *)
THEOREM GesturesKeepTime == Spec => []OutcomeByClock
<1>1. IInv => OutcomeByClock
  BY DEF IInv
<1> QED BY <1>1, EntriesInvariant, PTL
=============================================================================
