----------------------------- MODULE AgentSlots -----------------------------
(***************************************************************************)
(* Block mode (agent_delegate_mode = "block", the default): an agent job   *)
(* that calls other agents keeps its worker slot while it reads the        *)
(* streams of their jobs.  Jobs of depth 0 and delegated jobs have a queue *)
(* and a worker each, so that parents cannot starve their children.        *)
(*                                                                         *)
(*   services/tool_execution.py  execute_agent_tool                        *)
(*   services/message_service.py _handle_tool_calls                        *)
(*   services/queue_service.py   enqueue_agent_message                     *)
(*   services/stream_relay.py    subscribe                                 *)
(*   queue/agent_jobs.py         execute_agent_message_job, _ping_loop     *)
(*   queue/worker.py             AgentWorkerSettings,                      *)
(*                               SubAgentWorkerSettings                    *)
(*                                                                         *)
(* A value of Call is a user's message or a call_agent tool call; each has *)
(* one job.  Of a stream only what ends the reading of it is kept: its     *)
(* terminal event, or its silence.                                         *)
(***************************************************************************)
EXTENDS Integers, FiniteSets

CONSTANTS
    Call,           \* users' messages and the agent calls they may lead to
    User,           \* the users' messages
    Parent,         \* the call whose turn makes a call
    Depth,          \* the depth of a call's job
    MaxDepth,       \* settings.agent_max_delegation_depth, 0 is no limit
    SubQueue,       \* settings.agent_subagent_queue
    Slots,          \* max_jobs of the worker of each queue
    MaxCrashes      \* bound: how many workers' jobs die

Queue == {"agents", "agents:sub"}

ASSUME SlotsAssumption ==
    /\ User \subseteq Call
    /\ Parent \in [Call \ User -> Call]
    /\ Depth \in [Call -> Nat]
    /\ \A c \in User : Depth[c] = 0
    /\ \A c \in Call \ User : Depth[c] = Depth[Parent[c]] + 1
    /\ MaxDepth \in Nat
    /\ SubQueue \in BOOLEAN
    /\ Slots \in [Queue -> Nat \ {0}]
    /\ MaxCrashes \in Nat

VARIABLES
    pc,         \* where the job of each call is
    awaits,     \* the calls a job is waiting for
    said,       \* the terminal event on a job's channel
    crashes     \* how many jobs have died

slotsVars == <<pc, awaits, said, crashes>>

SlotsInit ==
    /\ pc = [c \in Call |-> IF c \in User THEN "queued" ELSE "none"]
    /\ awaits = [c \in Call |-> {}]
    /\ said = [c \in Call |-> "nothing"]
    /\ crashes = 0

\* Wrong: the first level of delegation stays in the main queue.
QueueOfDeeper(c) == IF Depth[c] > 1 /\ SubQueue THEN "agents:sub" ELSE "agents"

\* use_sub_queue
QueueOf(c) == IF Depth[c] > 0 /\ SubQueue THEN "agents:sub" ELSE "agents"

Holds(c) == pc[c] \in {"turn", "waiting"}
Held(q) == {c \in Call : Holds(c) /\ QueueOf(c) = q}

Goto(c, to) == pc' = [pc EXCEPT ![c] = to]

-----------------------------------------------------------------------------

\* The queue's worker has a free slot.
TakeSlot(c) ==
    /\ pc[c] = "queued"
    /\ Cardinality(Held(QueueOf(c))) < Slots[QueueOf(c)]
    /\ Goto(c, "turn")
    /\ UNCHANGED <<awaits, said, crashes>>

\* child_depth_or_error
MayDelegate(c) == MaxDepth = 0 \/ Depth[c] + 1 <= MaxDepth

\* The tool calls of a turn run concurrently and the turn waits for all.
Delegate(c) ==
    /\ pc[c] = "turn"
    /\ MayDelegate(c)
    /\ \E S \in SUBSET {k \in Call \ User : Parent[k] = c /\ pc[k] = "none"} :
          /\ S # {}
          /\ awaits' = [awaits EXCEPT ![c] = S]
          /\ pc' = [k \in Call |-> IF k \in S THEN "called"
                                   ELSE IF k = c THEN "waiting" ELSE pc[k]]
    /\ UNCHANGED <<said, crashes>>

EnqueueCall(c) ==
    /\ pc[c] = "called"
    /\ Goto(c, "queued")
    /\ UNCHANGED <<awaits, said, crashes>>

StopAwaiting(c, k) ==
    /\ awaits' = [awaits EXCEPT ![c] = @ \ {k}]
    /\ pc' = IF awaits[c] = {k} THEN [pc EXCEPT ![c] = "turn"] ELSE pc
    /\ UNCHANGED <<said, crashes>>

\* A done or an error event ends the reading of the child's stream.
Hear(c) ==
    \E k \in awaits[c] : said[k] # "nothing" /\ StopAwaiting(c, k)

\* Wrong: only a child that has died ends the wait.
GiveUpOnDead(c) ==
    \E k \in awaits[c] : /\ pc[k] = "over"
                         /\ said[k] = "nothing"
                         /\ StopAwaiting(c, k)

\* agent_delegate_timeout seconds without an event.  A running child pings,
\* so this is a child that has not started or has died.
GiveUp(c) ==
    \E k \in awaits[c] : /\ pc[k] \in {"queued", "over"}
                         /\ said[k] = "nothing"
                         /\ StopAwaiting(c, k)

\* function_timeout: the calls of the round are cancelled, whatever became of
\* them; one not enqueued yet never will be.
RoundTimeout(c) ==
    /\ pc[c] = "waiting"
    /\ awaits' = [awaits EXCEPT ![c] = {}]
    /\ pc' = [k \in Call |-> IF k = c THEN "turn"
                            ELSE IF k \in awaits[c] /\ pc[k] = "called" THEN "over"
                            ELSE pc[k]]
    /\ UNCHANGED <<said, crashes>>

End(c) ==
    /\ pc[c] = "turn"
    /\ Goto(c, "over")
    /\ \E event \in {"done", "error"} : said' = [said EXCEPT ![c] = event]
    /\ UNCHANGED <<awaits, crashes>>

\* The job is stopped; calls of it not enqueued yet never will be.
Stop(c) ==
    /\ Holds(c)
    /\ pc' = [k \in Call |->
                IF k = c \/ (k \in awaits[c] /\ pc[k] = "called") THEN "over" ELSE pc[k]]
    /\ awaits' = [awaits EXCEPT ![c] = {}]

\* agent_job_timeout: the finally clause publishes an error.
JobTimeout(c) ==
    /\ Stop(c)
    /\ said' = [said EXCEPT ![c] = "error"]
    /\ UNCHANGED crashes

\* The worker dies, nothing is published; max_tries = 1.
WorkerDies(c) ==
    /\ crashes < MaxCrashes
    /\ Stop(c)
    /\ crashes' = crashes + 1
    /\ UNCHANGED said

Step(c) == TakeSlot(c) \/ Delegate(c) \/ EnqueueCall(c) \/ Hear(c) \/ GiveUp(c) \/ End(c)

SlotsNext ==
    \E c \in Call : Step(c) \/ RoundTimeout(c) \/ JobTimeout(c) \/ WorkerDies(c)

\* arq gives free slots to queued jobs in turn, awaited calls return, and a
\* stream that stays silent for the timeout ends the wait.
Fairness == \A c \in Call : SF_slotsVars(TakeSlot(c)) /\ WF_slotsVars(Step(c))

SlotsSpec == SlotsInit /\ [][SlotsNext]_slotsVars /\ Fairness

-----------------------------------------------------------------------------
(***************************************************************************)
(* Properties.                                                             *)
(***************************************************************************)

TypeOK ==
    /\ pc \in [Call -> {"none", "called", "queued", "turn", "waiting", "over"}]
    /\ awaits \in [Call -> SUBSET Call]
    /\ said \in [Call -> {"nothing", "done", "error"}]
    /\ crashes \in Nat

\* All slots of q are held by jobs that wait for a job queued in q.
Starved(q) ==
    /\ Cardinality(Held(q)) >= Slots[q]
    /\ \A c \in Held(q) : \E k \in awaits[c] : pc[k] = "queued" /\ QueueOf(k) = q

\* With the sub-agent queue only delegated jobs that delegate in turn can
\* starve their children: users' jobs never do, nor the deepest ones.
StarvedByDelegated ==
    SubQueue => \A q \in Queue : Starved(q) =>
        \A c \in Held(q) : Depth[c] > 0 /\ (MaxDepth = 0 \/ Depth[c] < MaxDepth)

\* Starvation is not for ever: silence ends every wait, and so every job.
JobsEnd == <>(\A c \in Call : pc[c] \in {"none", "over"})

\* SubAgentWorkerSettings (and enqueue_agent_message): delegated jobs have a
\* queue of their own "so parents blocked on children can never starve them
\* of worker slots".
NeverStarved == SubQueue => \A q \in Queue : ~Starved(q)

=============================================================================
