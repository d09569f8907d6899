----------------------------- MODULE MCGestures -----------------------------
(* Gestures with two keys, in two worlds, one of which a behaviour is of from *)
(* the start.  In the wide one key a has a group with every gesture and a     *)
(* Hold alone, and b a Tap and a DoubleTap of a combo that holds a too.  The  *)
(* long one has fewer presses, a long Hold and a window that closes ahead of  *)
(* it, and a modifier that a read may free; there time passes and the main    *)
(* loop goes on.                                                              *)
EXTENDS Gestures

CONSTANTS a, b

VARIABLE world

Every == [key |-> a, combo |-> {a}, tap |-> 2, hold |-> 2, double |-> 3, block |-> FALSE]
Hold  == [key |-> a, combo |-> {a}, tap |-> None, hold |-> 1, double |-> None, block |-> TRUE]
Twice == [key |-> b, combo |-> {a, b}, tap |-> 1, hold |-> None, double |-> 2, block |-> FALSE]

WideGroups == {Every, Hold, Twice}
LongGroups == {[Hold EXCEPT !.hold = 3], Twice}
Groups     == WideGroups \cup LongGroups

LongSeq     == 3
LongTime    == 3
NoModifiers == {}

Wide == INSTANCE Gestures WITH Group <- WideGroups, Modifiers <- NoModifiers

Long == INSTANCE Gestures
    WITH Group <- LongGroups, MaxSeq <- LongSeq, MaxTime <- LongTime

WorldInit ==
    \/ world = "wide" /\ Wide!Init
    \/ world = "long" /\ Long!Init

WorldNext ==
    /\ \/ world = "wide" /\ Wide!Next
       \/ world = "long" /\ Long!Next
    /\ UNCHANGED world

worldVars == <<world, vars>>

WorldSpec ==
    /\ WorldInit /\ [][WorldNext]_worldVars
    /\ WF_worldVars(world = "long" /\ Long!Tick /\ UNCHANGED world)
    /\ WF_worldVars(world = "long" /\ Long!Loop /\ UNCHANGED world)
-----------------------------------------------------------------------------
(* A gesture that waits for a queued timer does not wait for ever             *)
(* (MainThread::run drains, plans and wakes).  Presses are bounded, so that a *)
(* time comes when none waits.                                                *)
Waiting == world = "long" /\ \E s \in 1 .. LongSeq : Long!Awaited(s)
TimersRun == Waiting ~> ~Waiting
=============================================================================
