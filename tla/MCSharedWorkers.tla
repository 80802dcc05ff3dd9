--------------------------- MODULE MCSharedWorkers --------------------------
(* A function that asks for input and calls another; its job may be run    *)
(* again.                                                                  *)
EXTENDS SharedWorkers

CONSTANTS w, outer, inner, nobody, c

MCProcOf == [e \in Exec |-> w]
MCParent == [e \in Exec |-> IF e = inner THEN outer ELSE nobody]
MCMaxTries == [e \in Exec |-> IF e = outer THEN 2 ELSE 1]

\* Two of these at a time: a request to continue, a second try, the inner call.
TwoAtMost == client[c].pc # "none" /\ tries[outer] > 1 => tries[inner] = 0
=============================================================================
