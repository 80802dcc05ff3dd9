-------------------------------- MODULE Join --------------------------------
(***************************************************************************)
(* What suspend-on-delegate promises a conversation, with no job, queue or *)
(* checkpoint in sight (services/delegation.py: "parent job suspends on    *)
(* call_agent instead of holding a worker slot; last child re-enqueues     *)
(* it"): a suspension opens on a set of calls, each call is answered at    *)
(* most once, and once all are answered the conversation is woken, once.   *)
(***************************************************************************)
EXTENDS FiniteSets

CONSTANTS
    Suspension,
    Call

VARIABLES
    stage,      \* how far each suspension is
    waiting     \* the calls of it that have no answer yet

vars == <<stage, waiting>>

Stage == {"idle", "open", "due", "woken"}

Init ==
    /\ stage = [r \in Suspension |-> "idle"]
    /\ waiting = [r \in Suspension |-> {}]

Open(r) ==
    /\ stage[r] = "idle"
    /\ stage' = [stage EXCEPT ![r] = "open"]
    /\ \E S \in (SUBSET Call) \ {{}} :
          /\ \A s \in Suspension : S \cap waiting[s] = {}
          /\ waiting' = [waiting EXCEPT ![r] = S]

Answer(r, k) ==
    /\ stage[r] = "open"
    /\ k \in waiting[r]
    /\ waiting' = [waiting EXCEPT ![r] = @ \ {k}]
    /\ stage' = [stage EXCEPT ![r] = IF waiting[r] = {k} THEN "due" ELSE "open"]

Wake(r) ==
    /\ stage[r] = "due"
    /\ stage' = [stage EXCEPT ![r] = "woken"]
    /\ UNCHANGED waiting

Next ==
    \E r \in Suspension :
        Open(r) \/ Wake(r) \/ \E k \in Call : Answer(r, k)

Fairness ==
    \A r \in Suspension : WF_vars(Wake(r)) /\ WF_vars(\E k \in Call : Answer(r, k))

Safety == Init /\ [][Next]_vars

Spec == Safety /\ Fairness

=============================================================================
