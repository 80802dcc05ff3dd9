---------------------------- MODULE MCAgentSlots ----------------------------
(* Two users' messages u and v; u may call a and b, a may call c, v may     *)
(* call d.                                                                 *)
EXTENDS AgentSlots

CONSTANTS u, v, a, b, c, d

MCCall == {u, v, a, b, c, d}
MCUser == {u, v}
MCParent == [k \in {a, b, c, d} |-> CASE k = c -> a [] k = d -> v [] OTHER -> u]
MCDepth == [k \in MCCall |-> CASE k \in MCUser -> 0 [] k = c -> 2 [] OTHER -> 1]
MCSlots == [q \in Queue |-> 1]
=============================================================================
