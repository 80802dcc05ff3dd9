----------------------------- MODULE MCPackages -----------------------------
(***************************************************************************)
(* Two packages and the configuration that share a connector, an agent, a  *)
(* query and a store; two requests at once.                                *)
(***************************************************************************)
EXTENDS Packages, TLC

CONSTANTS conn, qry, sto, agt, p1, p2, config, r1, r2

MCSymmetry == Permutations({r1, r2})

MCShips ==
    [m \in {p1, p2, config} |->
        IF m = p1 THEN << <<conn, agt>>, <<conn, sto, agt>> >>
        ELSE IF m = p2 THEN << <<agt>>, <<conn>> >>
        ELSE << <<qry>>, <<sto>> >>]

\* The versions of p1 ship connectors that differ in their description only.
MCHash ==
    [r \in {conn, qry, sto, agt} |-> [m \in {p1, p2, config} |->
        [v \in {1, 2} |-> IF r = conn /\ m = p1 THEN 1 ELSE v]]]

MCDeleteOrder == <<agt, conn, qry, sto>>

\* Three requests and two edits do not meet while two requests are under way.
NotAllAtOnce == requests + edits <= 4 \/ \E i \in Session : request[i].op = "none"
=============================================================================
