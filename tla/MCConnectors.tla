---------------------------- MODULE MCConnectors ----------------------------
(* Two calls in a process whose pool they exhaust, one in another process. *)
EXTENDS Connectors

CONSTANTS p, q, a, b, c

MCCall == {a, b, c}
MCHome == [k \in MCCall |-> IF k = c THEN q ELSE p]
=============================================================================
