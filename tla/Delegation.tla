----------------------------- MODULE Delegation -----------------------------
(***************************************************************************)
(* Suspend-on-delegate (agent_delegate_mode = "suspend"): a conversation   *)
(* whose LLM turn calls other agents writes a PendingDelegation checkpoint,*)
(* enqueues one agent job per call and ends its own job; each child job    *)
(* reports its outcome to the checkpoint, and the last report deletes the  *)
(* checkpoint and enqueues the job that resumes the conversation.          *)
(*                                                                         *)
(*   services/delegation.py       suspend_delegations, on_child_complete   *)
(*   queue/agent_jobs.py          execute_agent_message_job and            *)
(*                                execute_agent_delegate_resume_job        *)
(*   services/message_service.py  the suspend block of _handle_tool_calls  *)
(*   services/queue_service.py    enqueue_agent_message and                *)
(*                                enqueue_agent_delegate_resume            *)
(*                                                                         *)
(* A value of Call is a user's message or a call_agent tool call, with the *)
(* conversation it runs in.  Job <<c, 0>> is the message job of c and      *)
(* <<c, k+1>> the delegate-resume job of its k-th suspension; a checkpoint *)
(* carries the identity of the job that wrote it.  A tool call may also    *)
(* continue an older sub-chat (_chat_id): it then has jobs of its own, and *)
(* no property here relates two calls that share a sub-chat.               *)
(* What an LLM turn does apart from delegating (text, regular tools, hooks)*)
(* is one step: the outcome of the turn.                                   *)
(***************************************************************************)
EXTENDS Integers, FiniteSets

CONSTANTS
    Call,           \* a user's message and the agent calls it may lead to
    Root,           \* the user's message
    Parent,         \* the call whose turn makes a call
    Depth,          \* current_delegation_depth of a call's jobs
    MaxDepth,       \* settings.agent_max_delegation_depth, 0 is no limit
    MaxIterations,  \* settings.max_tool_iterations
    FaultKinds,     \* which of AllFaults may strike
    MaxStrikes      \* bound: how often each of them may strike

AllFaults == {"redis", "db", "cancel", "crash"}

ASSUME TreeAssumption ==
    /\ IsFiniteSet(Call)
    /\ Root \in Call
    /\ Parent \in [Call \ {Root} -> Call]
    /\ Depth \in [Call -> Nat]
    /\ Depth[Root] = 0
    /\ \A c \in Call \ {Root} : Depth[c] = Depth[Parent[c]] + 1

ASSUME BoundAssumption ==
    /\ MaxDepth \in Nat
    /\ MaxIterations \in Nat
    /\ FaultKinds \subseteq AllFaults
    /\ MaxStrikes \in Nat

Kids(c) == {k \in Call \ {Root} : Parent[k] = c}

Job == Call \X (0..MaxIterations + 1)

MessageJob(c) == <<c, 0>>
ResumeJob(r) == <<r[1], r[2] + 1>>

\* The jobs that may write a checkpoint: the follow-up of a resume at the
\* iteration limit stops instead of running its tool calls.
Suspender == {j \in Job : j[2] <= MaxIterations}

VARIABLES
    pc,         \* where each job is; its final values are its Redis status
    todo,       \* calls a job in suspend_delegations has yet to enqueue
    asked,      \* the delegations of a suspension
    live,       \* whether the PendingDelegation row of a suspension exists
    pend,       \* its column pending
    left,       \* its column remaining
    results,    \* the calls whose tool-result Message a call's chat has
    resumes,    \* how many delegate-resume jobs a suspension has enqueued
    execution,  \* the root's Execution row, when a batch started it
    strikes     \* how often each kind of fault has struck

row == <<asked, live, pend, left>>
vars == <<pc, todo, asked, live, pend, left, results, resumes, execution, strikes>>

\* A job in one of these runs in a worker.
Running == {"turn", "fanout", "suspending", "finishing", "reporting",
            "failing", "blaming", "waking", "wakingFailed"}
Over == {"suspended", "completed", "failed", "cancelled", "crashed"}
PC == {"none", "queued"} \cup Running \cup Over

Init ==
    /\ pc = [j \in Job |-> IF j = MessageJob(Root) THEN "queued" ELSE "none"]
    /\ todo = [j \in Job |-> {}]
    /\ asked = [j \in Job |-> {}]
    /\ live = [j \in Job |-> FALSE]
    /\ pend = [j \in Job |-> {}]
    /\ left = [j \in Job |-> 0]
    /\ results = [c \in Call |-> {}]
    /\ resumes = [j \in Job |-> 0]
    /\ execution = "PENDING"
    /\ strikes = [f \in FaultKinds |-> 0]

Goto(j, to) == pc' = [pc EXCEPT ![j] = to]

-----------------------------------------------------------------------------
(***************************************************************************)
(* The handler of an agent job, one action per stretch between two points  *)
(* where another process can act or the job can be stopped.                *)
(***************************************************************************)

Start(j) ==
    /\ pc[j] = "queued"
    /\ Goto(j, "turn")
    /\ UNCHANGED <<todo, row, results, resumes, execution, strikes>>

\* The stream ended without delegating.  A message job gets here too when
\* _stream_response raised: send_message_stream turns it into a chunk.
TurnEnds(j) ==
    /\ pc[j] = "turn"
    /\ Goto(j, "finishing")
    /\ UNCHANGED <<todo, row, results, resumes, execution, strikes>>

\* A resume's follow-up turn raised, or a message job's preparation did.
TurnRaises(j) ==
    /\ pc[j] = "turn"
    /\ Goto(j, "failing")
    /\ UNCHANGED <<todo, row, results, resumes, execution, strikes>>

\* Calls c has not made yet.
Fresh(c) == Kids(c) \ UNION {asked[j] : j \in Job}

\* child_depth_or_error
MayDelegate(c) == MaxDepth = 0 \/ Depth[c] + 1 <= MaxDepth

\* The turn called the agents of S (calls that prepare_agent_delegation
\* refused have an error result and are not in S): commit the checkpoint.
TurnDelegates(j) ==
    /\ pc[j] = "turn"
    /\ j \in Suspender
    /\ MayDelegate(j[1])
    /\ \E S \in SUBSET Fresh(j[1]) :
          /\ S # {}
          /\ asked' = [asked EXCEPT ![j] = S]
          /\ live' = [live EXCEPT ![j] = TRUE]
          /\ pend' = [pend EXCEPT ![j] = S]
          /\ left' = [left EXCEPT ![j] = Cardinality(S)]
          /\ todo' = [todo EXCEPT ![j] = S]
    /\ Goto(j, "fanout")
    /\ UNCHANGED <<results, resumes, execution, strikes>>

\* Wrong: the turn goes on after the delegation_pending chunk.
EnqueueChildAndGoOn(j) ==
    /\ pc[j] = "fanout"
    /\ \E k \in todo[j] :
          /\ todo' = [todo EXCEPT ![j] = @ \ {k}]
          /\ pc' = [pc EXCEPT ![MessageJob(k)] = "queued",
                              ![j] = IF todo[j] = {k} THEN "turn" ELSE @]
    /\ UNCHANGED <<row, results, resumes, execution, strikes>>

\* Enqueue one child; after the last, yield the delegation_pending chunk.
EnqueueChild(j) ==
    /\ pc[j] = "fanout"
    /\ \E k \in todo[j] :
          /\ todo' = [todo EXCEPT ![j] = @ \ {k}]
          /\ pc' = [pc EXCEPT ![MessageJob(k)] = "queued",
                              ![j] = IF todo[j] = {k} THEN "suspending" ELSE @]
    /\ UNCHANGED <<row, results, resumes, execution, strikes>>

\* Wrong: a suspended job falls through to the end of the handler.
SuspendAndFinish(j) ==
    /\ pc[j] = "suspending"
    /\ Goto(j, "finishing")
    /\ UNCHANGED <<todo, row, results, resumes, execution, strikes>>

\* Publish the chunk and set the job's status: no done event, no report.
Suspend(j) ==
    /\ pc[j] = "suspending"
    /\ Goto(j, "suspended")
    /\ UNCHANGED <<todo, row, results, resumes, execution, strikes>>

\* publish_done, then status "completed".
Finish(j) ==
    /\ pc[j] = "finishing"
    /\ Goto(j, "reporting")
    /\ UNCHANGED <<todo, row, results, resumes, execution, strikes>>

\* Wrong: a failed child does not report.
FailSilently(j) ==
    /\ pc[j] = "failing"
    /\ Goto(j, "failed")
    /\ UNCHANGED <<todo, row, results, resumes, execution, strikes>>

\* The except clause: publish_error, then status "failed".
Fail(j) ==
    /\ pc[j] = "failing"
    /\ Goto(j, "blaming")
    /\ UNCHANGED <<todo, row, results, resumes, execution, strikes>>

-----------------------------------------------------------------------------
(***************************************************************************)
(* The end of a job: the root terminates its Execution row, an agent call  *)
(* reports to the checkpoint it belongs to (on_child_complete).            *)
(***************************************************************************)

Delivering(j) == pc[j] \in {"reporting", "blaming"}
AfterReport(j) == IF pc[j] = "reporting" THEN "completed" ELSE "failed"
Outcome(j) == IF pc[j] = "reporting" THEN "COMPLETED" ELSE "FAILED"
AfterLastReport(j) == IF pc[j] = "reporting" THEN "waking" ELSE "wakingFailed"

\* _terminate_execution_row: no look at the status the row already has.
TerminateExecution(j) ==
    /\ Delivering(j)
    /\ j[1] = Root
    /\ execution' = Outcome(j)
    /\ Goto(j, AfterReport(j))
    /\ UNCHANGED <<todo, row, results, resumes, strikes>>

\* Wrong: one report early, one report late.
IsLastEarly(r) == left[r] - 1 <= 1
IsLastLate(r) == left[r] - 1 < 0

\* row.remaining - 1 <= 0
IsLast(r) == left[r] - 1 <= 0

\* Wrong: the last report leaves the row, or pending keeps the call.
RecordResultKeepingRow(r, k) ==
    /\ results' = [results EXCEPT ![r[1]] = @ \cup {k}]
    /\ pend' = [pend EXCEPT ![r] = @ \ {k}]
    /\ left' = [left EXCEPT ![r] = @ - 1]
    /\ UNCHANGED live

RecordResultStillPending(r, k) ==
    /\ results' = [results EXCEPT ![r[1]] = @ \cup {k}]
    /\ UNCHANGED pend
    /\ left' = [left EXCEPT ![r] = @ - 1]
    /\ live' = [live EXCEPT ![r] = ~IsLast(r)]

\* The transaction on_child_complete runs under SELECT ... FOR UPDATE for
\* tool call k of checkpoint r.  It does not ask whether k is still pending.
RecordResult(r, k) ==
    /\ results' = [results EXCEPT ![r[1]] = @ \cup {k}]
    /\ pend' = [pend EXCEPT ![r] = @ \ {k}]
    /\ left' = [left EXCEPT ![r] = @ - 1]
    /\ live' = [live EXCEPT ![r] = ~IsLast(r)]

Report(j) ==
    /\ Delivering(j)
    /\ j[1] # Root
    /\ \E r \in Job :
          /\ j[1] \in asked[r]
          /\ live[r]
          /\ RecordResult(r, j[1])
          /\ Goto(j, IF IsLast(r) THEN AfterLastReport(j) ELSE AfterReport(j))
    /\ UNCHANGED <<todo, asked, resumes, execution, strikes>>

\* "parent already resumed or cleaned up": the report is dropped.
ReportToNobody(j) ==
    /\ Delivering(j)
    /\ j[1] # Root
    /\ \A r \in Job : ~(j[1] \in asked[r] /\ live[r])
    /\ Goto(j, AfterReport(j))
    /\ UNCHANGED <<todo, row, results, resumes, execution, strikes>>

Waking(j) == pc[j] \in {"waking", "wakingFailed"}

\* enqueue_agent_delegate_resume, after the commit that deleted the row.
EnqueueResume(j) ==
    /\ Waking(j)
    /\ \E r \in Suspender :
          /\ j[1] \in asked[r]
          /\ resumes' = [resumes EXCEPT ![r] = @ + 1]
          /\ pc' = [pc EXCEPT ![ResumeJob(r)] = "queued",
                              ![j] = IF @ = "waking" THEN "completed" ELSE "failed"]
    /\ UNCHANGED <<todo, row, results, execution, strikes>>

-----------------------------------------------------------------------------
(***************************************************************************)
(* What can stop a job.                                                    *)
(***************************************************************************)

Strike(f) ==
    /\ f \in FaultKinds
    /\ strikes[f] < MaxStrikes
    /\ strikes' = [strikes EXCEPT ![f] = @ + 1]

\* Where an exception from Redis leaves the handler.  Before the handler's
\* try nothing reacts; in the except clause only the finally clause does;
\* while a message job enqueues children, send_message_stream swallows it.
AfterRedisError(j) ==
    CASE pc[j] = "queued" -> "crashed"
      [] pc[j] = "fanout" /\ j[2] = 0 -> "finishing"
      [] pc[j] = "failing" -> "cancelled"
      [] pc[j] = "wakingFailed" -> "failed"
      [] OTHER -> "failing"

RedisError(j) ==
    /\ Strike("redis")
    /\ pc[j] \in {"queued", "turn", "fanout", "suspending", "finishing", "failing",
                  "waking", "wakingFailed"}
    /\ Goto(j, AfterRedisError(j))
    /\ UNCHANGED <<todo, row, results, resumes, execution>>

\* The transaction that delivers the outcome raised, or for the root what the
\* batch does after it: the except clause delivers a failure instead, and an
\* exception there is logged (or escapes) and given up.
DatabaseError(j) ==
    /\ Strike("db")
    /\ Delivering(j)
    /\ Goto(j, IF pc[j] = "reporting" THEN "failing" ELSE "failed")
    /\ \/ UNCHANGED execution
       \/ j[1] = Root /\ execution' = Outcome(j)
    /\ UNCHANGED <<todo, row, results, resumes>>

\* CancelledError at an await (job_timeout, worker shutdown): only the
\* finally clause runs, and it does not report.
Cancel(j) ==
    /\ Strike("cancel")
    /\ pc[j] \in Running
    /\ Goto(j, "cancelled")
    /\ UNCHANGED <<todo, row, results, resumes, execution>>

\* The worker process dies; with max_tries = 1 the job is not run again.
Crash(j) ==
    /\ Strike("crash")
    /\ pc[j] \in Running
    /\ Goto(j, "crashed")
    /\ UNCHANGED <<todo, row, results, resumes, execution>>

-----------------------------------------------------------------------------

Turn(j) == TurnEnds(j) \/ TurnRaises(j) \/ TurnDelegates(j)

Deliver(j) == TerminateExecution(j) \/ Report(j) \/ ReportToNobody(j)

Step(j) ==
    \/ Start(j) \/ Turn(j) \/ EnqueueChild(j) \/ Suspend(j)
    \/ Finish(j) \/ Fail(j) \/ Deliver(j) \/ EnqueueResume(j)

Fault(j) == RedisError(j) \/ DatabaseError(j) \/ Cancel(j) \/ Crash(j)

Next == \E j \in Job : Step(j) \/ Fault(j)

\* arq runs every queued job and an awaited call returns (job_timeout
\* bounds it), so a job that is not stopped takes its next step.
Fairness == \A j \in Job : WF_vars(Step(j))

Spec == Init /\ [][Next]_vars /\ Fairness

-----------------------------------------------------------------------------
(***************************************************************************)
(* Properties.                                                             *)
(***************************************************************************)

TypeOK ==
    /\ pc \in [Job -> PC]
    /\ todo \in [Job -> SUBSET Call]
    /\ asked \in [Job -> SUBSET Call]
    /\ live \in [Job -> BOOLEAN]
    /\ pend \in [Job -> SUBSET Call]
    /\ left \in [Job -> Int]
    /\ results \in [Call -> SUBSET Call]
    /\ resumes \in [Job -> Nat]
    /\ execution \in {"PENDING", "COMPLETED", "FAILED"}
    /\ strikes \in [FaultKinds -> Nat]

Quiet(F) == \A f \in F \cap FaultKinds : strikes[f] = 0

\* A checkpoint that exists waits for someone: its count is positive and
\* never above the number of calls its pending column lists (models/
\* pending_delegation.py: "Outstanding count ... 0 -> resume").
CheckpointWaits ==
    \A r \in Job : live[r] =>
        /\ pend[r] \subseteq asked[r]
        /\ left[r] \in 1..Cardinality(pend[r])

\* However many children report at once, and whatever stops them, a
\* suspension enqueues at most one job that resumes the conversation, and
\* none before its checkpoint is gone (on_child_complete's FOR UPDATE).
ResumeOnce ==
    \A r \in Job : /\ resumes[r] <= 1
                   /\ live[r] => resumes[r] = 0

\* A conversation is resumed only with the results of all the calls it was
\* suspended on, or the next LLM turn sees calls without results.
AllResultsPersisted ==
    \A r \in Job : resumes[r] > 0 => asked[r] \subseteq results[r[1]]

\* AllResultsPersisted holds as long as no Redis call of a handler raises.
ResumeHasResults == Quiet({"redis"}) => AllResultsPersisted

Awaited(k) == \E r \in Job : k \in asked[r] /\ live[r] /\ k \in pend[r]

\* A job of k that has yet to report, a checkpoint or a wake-up that leads
\* to one: something that will end in a report for k.
Underway(k) ==
    \/ \E r \in Job : k \in todo[r]
    \/ \E j \in Job : /\ j[1] = k
                      /\ \/ pc[j] \in {"queued", "turn", "finishing", "reporting",
                                       "failing", "blaming"}
                         \/ live[j]
                         \/ \E w \in Job : Waking(w) /\ w[1] \in asked[j]

\* Absent faults a checkpoint waits exactly for the calls that are still
\* going to be answered: no call is forgotten, none is answered twice.
CallsAnsweredOnce == Quiet(AllFaults) => \A k \in Call \ {Root} : Awaited(k) <=> Underway(k)

\* Two jobs of a call never run an LLM turn at the same time, although a
\* resume may start before the suspending job has ended.
OneTurn ==
    \A i, j \in Job : pc[i] = "turn" /\ pc[j] = "turn" /\ i[1] = j[1] => i = j

\* The batch row of the root is terminal only when the root is done: none of
\* its suspensions is open and no job of it has work left, except that one
\* which suspended may still have to publish that it did, and that one whose
\* delivery raised turns the row to FAILED.
ExecutionEndsLast ==
    execution # "PENDING" /\ Quiet({"redis"}) =>
        \A j \in Job : j[1] = Root =>
            /\ ~live[j]
            /\ \/ pc[j] \in Over \cup {"none", "suspending"}
               \/ ~Quiet({"db"}) /\ pc[j] \in {"failing", "blaming"}

\* A suspension seen as a Join: the wake-up is the enqueued resume job.
Stage(r) ==
    CASE resumes[r] > 0 -> "woken"
      [] live[r] -> "open"
      [] asked[r] = {} -> "idle"
      [] OTHER -> "due"

J == INSTANCE Join WITH
        Suspension <- Job,
        Call <- Call \ {Root},
        stage <- [r \in Job |-> Stage(r)],
        waiting <- [r \in Job |-> pend[r]]

\* Until a Redis call raises, whatever else fails, checkpoints keep the
\* promise of Join: each call is answered once, at most, the checkpoint goes
\* with the last answer, and one resume follows.
JoinSteps == [][Quiet({"redis"}) => J!Next]_(J!vars)

\* Absent faults they keep all of it: every call is answered and every
\* suspension woken.
JoinImplemented == J!Spec

\* Absent faults the root's row gets its terminal status, however deep the
\* delegation and however the agents in it fail: a batch of agents ends.
ExecutionTerminates == <>(execution # "PENDING" \/ ~Quiet(AllFaults))

=============================================================================
