------------------------------ MODULE MCDaemon ------------------------------
(* Daemon with one user of swch and a queue of two requests.                  *)
EXTENDS Daemon

CONSTANTS p

Faulty == {"refuse", "again", "quit", "removed", "stays"}

MCEnvironments ==
    {Faulty, {"swch", "slow", "save"}, {"swch", "lost", "session"},
     {"swch", "removed", "session"}, {"swch", "save", "stuck"}}

MCRestart == {Faulty}
=============================================================================
