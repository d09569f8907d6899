----------------------------- MODULE MCWatchdog -----------------------------
(* Watchdog with a hook that lives and with one that is removed, refused and  *)
(* given up on.  `world` is which of the two a behaviour is of, chosen at the *)
(* start: a live hook needs a longer burst of keys to be mistaken for a dead  *)
(* one, and a dead one more attempts.                                         *)
EXTENDS Naturals

CONSTANTS None, LiveEnvironments, DeadEnvironments

VARIABLES world, env, hook, waiting, unposted, queued, ended, watchdog, answered,
          loop, drained, armed, wake, reply, moved, attemptFailed, timerFailing,
          failures, sinceServed, failedQuiet

Live == INSTANCE Watchdog
    WITH Silence <- 2, ActiveFor <- 4, MinEvidence <- 2, BackoffLimit <- 0,
         MaxKeys <- 4, Environments <- LiveEnvironments

Dead == INSTANCE Watchdog
    WITH Silence <- 2, ActiveFor <- 3, MinEvidence <- 2, BackoffLimit <- 2,
         MaxKeys <- 2, Environments <- DeadEnvironments

vars == <<world, Live!vars>>

Init ==
    \/ world = "live" /\ Live!Init
    \/ world = "dead" /\ Dead!Init

Next ==
    /\ \/ world = "live" /\ Live!Next
       \/ world = "dead" /\ Dead!Next
    /\ UNCHANGED world

Spec == Init /\ [][Next]_vars
-----------------------------------------------------------------------------
(* The properties of Watchdog: the true status of a failed attempt            *)
(* (HealthState), with the types, attempts that are spaced out                *)
(* (Watchdog::tick), and a live hook that is never replaced, each with the    *)
(* hook that puts it to the test.                                             *)
StatusTrue ==
    /\ world = "live" => Live!TypeOK
    /\ world = "dead" => Dead!TypeOK /\ Dead!StatusTrue
SpacedOut == [][world = "dead" => Dead!AskedInTime]_vars
LiveHookKept == [][world = "live" => Live!OnlyDeadReplaced]_vars
=============================================================================
