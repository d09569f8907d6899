------------------------------ MODULE JobQueue ------------------------------
(* What the action executor promises of the slow actions that were fired, as  *)
(* the documentation of src/core/executor/mod.rs and runs.rs has it: they run *)
(* in firing order, each once.  A Paste fired while another one waits may be  *)
(* dropped, and a cancelled action is.                                        *)
EXTENDS Sequences, Naturals

CONSTANT Jobs     \* what can be fired, records with the fields kind and live

VARIABLES
    waiting,      \* the jobs fired and not begun, in firing order
    turn          \* turns over with every job that begins

vars == <<waiting, turn>>

Init == waiting = <<>> /\ turn = FALSE

Fire ==
    /\ \E job \in Jobs : waiting' = Append(waiting, job)
    /\ UNCHANGED turn

(* Only the oldest job begins.                                                *)
Begin ==
    /\ waiting # <<>>
    /\ waiting' = Tail(waiting) /\ turn' = ~turn

(* A cancel is for every job that waits.                                      *)
Cancel ==
    /\ waiting' = [i \in DOMAIN waiting |-> [waiting[i] EXCEPT !.live = FALSE]]
    /\ UNCHANGED turn

Without(from, to) == SubSeq(waiting, 1, from - 1) \o SubSeq(waiting, to + 1, Len(waiting))

(* Cancelled jobs are dropped, next to one another.                           *)
Drop ==
    /\ \E from \in DOMAIN waiting : \E to \in from .. Len(waiting) :
        /\ \A i \in from .. to : ~waiting[i].live
        /\ waiting' = Without(from, to)
    /\ UNCHANGED turn

DropPaste ==
    /\ \E i \in DOMAIN waiting : waiting[i].kind = "paste" /\ waiting' = Without(i, i)
    /\ UNCHANGED turn

(* The executor ends, and what waits goes with it.                            *)
End == waiting' = <<>> /\ UNCHANGED turn

Next == Fire \/ Begin \/ Cancel \/ Drop \/ DropPaste \/ End

Spec == Init /\ [][Next]_vars
=============================================================================
