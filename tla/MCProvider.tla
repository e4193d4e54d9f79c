------------------------------ MODULE MCProvider ------------------------------
(***************************************************************************)
(* Threads of one node: workers w1, w2 and inbound sessions s1, s2, in the *)
(* combinations the configurations choose.                                 *)
(***************************************************************************)
EXTENDS Provider

CONSTANTS w1, w2, s1, s2

TwoWorkers == {w1, w2}
OneSession == {s1}
===============================================================================
