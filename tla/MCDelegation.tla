---------------------------- MODULE MCDelegation ----------------------------
(* A root that may call two agents, one of which may call a third.  *)
EXTENDS Delegation

CONSTANTS root, a, b, c

MCCall == {root, a, b, c}
MCParent == [k \in {a, b, c} |-> IF k = c THEN a ELSE root]
MCDepth == [k \in MCCall |-> IF k = root THEN 0 ELSE IF k = c THEN 2 ELSE 1]
=============================================================================
