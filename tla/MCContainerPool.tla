--------------------------- MODULE MCContainerPool --------------------------
(* One worker with two functions or with one and a call of the             *)
(* code_execution tool.                                                    *)
EXTENDS ContainerPool

CONSTANTS w, f, g, x

MCProcOf == [e \in Exec |-> w]

\* Two executions: one of the three never starts.
TwoAtMost == pc[g] = "waiting" \/ pc[x] = "waiting"
=============================================================================
