----------------------------- MODULE MCKeyPath -----------------------------
(* KeyPath with one Alt key, which counts for the menu mask, and one ordinary *)
(* key: the smallest set in which an event swallowed under a modifier, a      *)
(* modifier swallowed itself and two records interfere.                       *)
EXTENDS KeyPath

CONSTANTS lalt, a

NoPair == [g \in {} |-> {}]
=============================================================================
