------------------------------ MODULE MCFiles -------------------------------
(* Two users: one uploads and has an agent, the other uploads and deletes. *)
EXTENDS Files

CONSTANTS u1, u2, w1, w2, d1, q1, ann, bob

MCUserOf == [r \in Request |-> IF r \in {u2, d1} THEN bob ELSE ann]
=============================================================================
