------------------------------- MODULE Batch --------------------------------
(***************************************************************************)
(* A batch of function executions: the rows are committed, then enqueued   *)
(* one by one; each child's worker commits the outcome, POSTs the child's  *)
(* callback and then looks whether it was the last; the one that wins the  *)
(* compare-and-set on batches.finished_at POSTs the batch summary.  Users  *)
(* cancel the batch or a job, and resume children that wait for input.     *)
(*                                                                         *)
(*   services/batch_service.py     submit_function_batch, cancel_batch,    *)
(*                                 on_execution_terminated                 *)
(*   services/execution_engine.py  execute_function, resume_execution      *)
(*   services/queue_service.py     cancel_job                              *)
(*   queue/worker.py               execute_function_job, WorkerSettings    *)
(*                                                                         *)
(* A row is its status: results, timings and messages are left out.  What  *)
(* _count_by_status returns is kept as the statuses it counted.            *)
(***************************************************************************)
EXTENDS Integers, Sequences, FiniteSets

CONSTANTS
    Size,           \* len(inputs)
    Canceller,      \* requests to cancel the batch
    Tries,          \* settings.queue_max_retries, arq's max_tries
    MaxResumes,     \* bound: how often a child is resumed
    FaultKinds,     \* which of AllFaults may happen, each of them once
    MaxFaults       \* bound: how many of them in one behaviour

AllFaults == {"submit", "rerun", "timeout", "count", "cancel_job"}

ASSUME BatchAssumption ==
    /\ Size \in Nat \ {0}
    /\ Tries \in Nat \ {0}
    /\ MaxResumes \in Nat
    /\ FaultKinds \subseteq AllFaults
    /\ MaxFaults \in Nat

Child == 1..Size

ExecutionStatus == {"PENDING", "RUNNING", "AWAITING_INPUT",
                    "COMPLETED", "FAILED", "CANCELLED"}
TERMINAL_EXEC_STATUSES == {"COMPLETED", "FAILED", "CANCELLED"}
BatchStatus == {"QUEUED", "RUNNING", "COMPLETED", "PARTIAL", "FAILED", "CANCELLED"}

VARIABLES
    status,     \* executions.status of each child
    batch,      \* batches.status
    finished,   \* whether batches.finished_at is set
    pc,         \* where the job of each child is
    tries,      \* arq's job_try of each child
    verdict,    \* the outcome a child's job is delivering
    told,       \* the callbacks POSTed for each child, in order
    tally,      \* the row statuses each child's job counted
    posted,     \* the batch summaries POSTed, in order
    submitting, \* whether submit_function_batch still runs
    canceller,  \* where each cancel request is
    resumer,    \* where the resume request of each child is
    resumed,    \* how often each child was resumed
    faults      \* the kinds of fault that have happened

vars == <<status, batch, finished, pc, tries, verdict, told, tally, posted,
          submitting, canceller, resumer, resumed, faults>>

Init ==
    /\ status = [c \in Child |-> "PENDING"]
    /\ batch = "QUEUED"
    /\ finished = FALSE
    /\ pc = [c \in Child |-> "row"]
    /\ tries = [c \in Child |-> 0]
    /\ verdict = [c \in Child |-> "none"]
    /\ told = [c \in Child |-> <<>>]
    /\ tally = [c \in Child |-> <<>>]
    /\ posted = <<>>
    /\ submitting = TRUE
    /\ canceller = [x \in Canceller |-> "idle"]
    /\ resumer = [c \in Child |-> "idle"]
    /\ resumed = [c \in Child |-> 0]
    /\ faults = {}

Goto(c, to) == pc' = [pc EXCEPT ![c] = to]
SetStatus(c, to) == status' = [status EXCEPT ![c] = to]

batchRow == <<batch, finished>>
jobs == <<pc, tries, verdict, told, tally>>
users == <<canceller, resumer, resumed>>

-----------------------------------------------------------------------------
(***************************************************************************)
(* submit_function_batch, after the commit of the rows.                    *)
(***************************************************************************)

Enqueue(c) ==
    /\ submitting
    /\ pc[c] = "row"
    /\ \A d \in 1..(c - 1) : pc[d] # "row"
    /\ Goto(c, "queued")
    /\ submitting' = (c < Size)
    /\ UNCHANGED <<status, batchRow, tries, verdict, told, tally, posted, users, faults>>

-----------------------------------------------------------------------------
(***************************************************************************)
(* execute_function for a child, from the worker's execute_function_job.   *)
(* The row of a batch child stays PENDING while the function runs.         *)
(***************************************************************************)

Start(c) ==
    /\ pc[c] = "queued"
    /\ Goto(c, "running")
    /\ tries' = [tries EXCEPT ![c] = @ + 1]
    /\ UNCHANGED <<status, batchRow, verdict, told, tally, posted, submitting, users, faults>>

\* The outcome is committed over whatever status the row has by now.
Complete(c) ==
    /\ pc[c] = "running"
    /\ SetStatus(c, "COMPLETED")
    /\ verdict' = [verdict EXCEPT ![c] = "success"]
    /\ Goto(c, "telling")
    /\ UNCHANGED <<batchRow, tries, told, tally, posted, submitting, users, faults>>

\* The except clause; "failing" is how the code after Complete gets there.
Fail(c) ==
    /\ pc[c] \in {"running", "failing"}
    /\ SetStatus(c, "FAILED")
    /\ verdict' = [verdict EXCEPT ![c] = "failure"]
    /\ Goto(c, "telling")
    /\ UNCHANGED <<batchRow, tries, told, tally, posted, submitting, users, faults>>

\* Wrong: no early return.
PauseAndTell(c) ==
    /\ pc[c] = "running"
    /\ SetStatus(c, "AWAITING_INPUT")
    /\ Goto(c, "telling")
    /\ UNCHANGED <<batchRow, tries, verdict, told, tally, posted, submitting, users, faults>>

\* The function called input(): the job ends, the batch is not told.
Pause(c) ==
    /\ pc[c] = "running"
    /\ SetStatus(c, "AWAITING_INPUT")
    /\ Goto(c, "over")
    /\ UNCHANGED <<batchRow, tries, verdict, told, tally, posted, submitting, users, faults>>

\* Wrong: the except clause does not tell the batch.
TellAndForgetFailures(c) ==
    /\ pc[c] = "telling"
    /\ told' = [told EXCEPT ![c] = Append(@, verdict[c])]
    /\ Goto(c, IF verdict[c] = "success" THEN "counting" ELSE "over")
    /\ UNCHANGED <<status, batchRow, tries, verdict, tally, posted, submitting, users, faults>>

\* _fire_callback swallows what goes wrong with the POST.
Tell(c) ==
    /\ pc[c] = "telling"
    /\ told' = [told EXCEPT ![c] = Append(@, verdict[c])]
    /\ Goto(c, "counting")
    /\ UNCHANGED <<status, batchRow, tries, verdict, tally, posted, submitting, users, faults>>

-----------------------------------------------------------------------------
(***************************************************************************)
(* on_execution_terminated: two counts, then the compare-and-set.          *)
(***************************************************************************)

\* Wrong: a child that waits for input does not count.
PendingButPaused == {c \in Child : status[c] \in {"PENDING", "RUNNING"}}

Pending == {c \in Child : status[c] \notin TERMINAL_EXEC_STATUSES}

\* _derive_terminal_status
DeriveStatus(s) ==
    LET ended == {c \in Child : s[c] \in TERMINAL_EXEC_STATUSES}
        Only(x) == \A c \in ended : s[c] = x
    IN CASE ended = {} -> "FAILED"
         [] ended # {} /\ Only("CANCELLED") -> "CANCELLED"
         [] ended # {} /\ Only("COMPLETED") -> "COMPLETED"
         [] ended # {} /\ Only("FAILED") -> "FAILED"
         [] OTHER -> "PARTIAL"

CountPending(c) ==
    /\ pc[c] = "counting"
    /\ Goto(c, IF Pending = {} THEN "tallying" ELSE "bumping")
    /\ UNCHANGED <<status, batchRow, tries, verdict, told, tally, posted, submitting, users, faults>>

\* Wrong: no WHERE on the status.
BumpAlways(c) ==
    /\ pc[c] = "bumping"
    /\ batch' = "RUNNING"
    /\ Goto(c, "over")
    /\ UNCHANGED <<status, finished, tries, verdict, told, tally, posted, submitting, users, faults>>

\* UPDATE ... WHERE status = QUEUED
Bump(c) ==
    /\ pc[c] = "bumping"
    /\ batch' = IF batch = "QUEUED" THEN "RUNNING" ELSE batch
    /\ Goto(c, "over")
    /\ UNCHANGED <<status, finished, tries, verdict, told, tally, posted, submitting, users, faults>>

Tally(c) ==
    /\ pc[c] = "tallying"
    /\ tally' = [tally EXCEPT ![c] = status]
    /\ Goto(c, "claiming")
    /\ UNCHANGED <<status, batchRow, tries, verdict, told, posted, submitting, users, faults>>

\* Wrong: no WHERE on finished_at.
ClaimAlways(c) ==
    /\ pc[c] = "claiming"
    /\ finished' = TRUE
    /\ batch' = DeriveStatus(tally[c])
    /\ Goto(c, "posting")
    /\ UNCHANGED <<status, tries, verdict, told, tally, posted, submitting, users, faults>>

\* UPDATE ... WHERE finished_at IS NULL; rowcount says who won.
Claim(c) ==
    /\ pc[c] = "claiming"
    /\ finished' = TRUE
    /\ batch' = IF finished THEN batch ELSE DeriveStatus(tally[c])
    /\ Goto(c, IF finished THEN "over" ELSE "posting")
    /\ UNCHANGED <<status, tries, verdict, told, tally, posted, submitting, users, faults>>

\* The summary has the status of the row read now and the counts of Tally.
Post(c) ==
    /\ pc[c] = "posting"
    /\ posted' = Append(posted, [status |-> batch, counts |-> tally[c]])
    /\ Goto(c, "over")
    /\ UNCHANGED <<status, batchRow, tries, verdict, told, tally, submitting, users, faults>>

-----------------------------------------------------------------------------
(***************************************************************************)
(* cancel_batch: read the row, look at finished_at, update the children    *)
(* and the row in one commit, then count and POST.                         *)
(***************************************************************************)

GotoCancel(x, to) == canceller' = [canceller EXCEPT ![x] = to]

CancelRead(x) ==
    /\ canceller[x] = "idle"
    /\ GotoCancel(x, IF finished THEN "over" ELSE "writing")
    /\ UNCHANGED <<status, batchRow, jobs, posted, submitting, resumer, resumed, faults>>

CancelWrite(x) ==
    /\ canceller[x] = "writing"
    /\ status' = [c \in Child |-> IF status[c] \in {"PENDING", "AWAITING_INPUT"}
                                  THEN "CANCELLED" ELSE status[c]]
    /\ batch' = "CANCELLED"
    /\ finished' = TRUE
    /\ GotoCancel(x, "counting")
    /\ UNCHANGED <<jobs, posted, submitting, resumer, resumed, faults>>

CancelCount(x) ==
    /\ canceller[x] = "counting"
    /\ GotoCancel(x, IF Pending = {} THEN "posting" ELSE "over")
    /\ UNCHANGED <<status, batchRow, jobs, posted, submitting, resumer, resumed, faults>>

CancelPost(x) ==
    /\ canceller[x] = "posting"
    /\ posted' = Append(posted, [status |-> "CANCELLED", counts |-> status])
    /\ GotoCancel(x, "over")
    /\ UNCHANGED <<status, batchRow, jobs, submitting, resumer, resumed, faults>>

Cancel(x) == CancelRead(x) \/ CancelWrite(x) \/ CancelCount(x) \/ CancelPost(x)

-----------------------------------------------------------------------------
(***************************************************************************)
(* resume_execution: a request of the API, past the queue.  It never calls *)
(* on_execution_terminated and sends no callback.                          *)
(***************************************************************************)

ResumeCheck(c) ==
    /\ resumer[c] = "idle"
    /\ resumed[c] < MaxResumes
    /\ status[c] = "AWAITING_INPUT"
    /\ resumer' = [resumer EXCEPT ![c] = "checked"]
    /\ resumed' = [resumed EXCEPT ![c] = @ + 1]
    /\ UNCHANGED <<status, batchRow, jobs, posted, submitting, canceller, faults>>

ResumeStart(c) ==
    /\ resumer[c] = "checked"
    /\ SetStatus(c, "RUNNING")
    /\ resumer' = [resumer EXCEPT ![c] = "running"]
    /\ UNCHANGED <<batchRow, jobs, posted, submitting, canceller, resumed, faults>>

ResumeEnds(c) ==
    /\ resumer[c] = "running"
    /\ \E s \in {"AWAITING_INPUT", "COMPLETED", "FAILED"} : SetStatus(c, s)
    /\ resumer' = [resumer EXCEPT ![c] = "idle"]
    /\ UNCHANGED <<batchRow, jobs, posted, submitting, canceller, resumed, faults>>

Resume(c) == ResumeCheck(c) \/ ResumeStart(c) \/ ResumeEnds(c)

-----------------------------------------------------------------------------
(***************************************************************************)
(* What goes wrong.                                                        *)
(***************************************************************************)

Happens(f) ==
    /\ f \in FaultKinds \ faults
    /\ Cardinality(faults) < MaxFaults
    /\ faults' = faults \cup {f}

\* An enqueue raised: the children not reached stay rows.
SubmitRaises ==
    /\ Happens("submit")
    /\ submitting
    /\ submitting' = FALSE
    /\ UNCHANGED <<status, batchRow, jobs, posted, users>>

Busy(c) == pc[c] \notin {"row", "queued", "over"}

\* The worker died or was stopped: arq runs the job again, up to max_tries.
Rerun(c) ==
    /\ Happens("rerun")
    /\ Busy(c)
    /\ Goto(c, IF tries[c] < Tries THEN "queued" ELSE "over")
    /\ UNCHANGED <<status, batchRow, tries, verdict, told, tally, posted, submitting, users>>

\* job_timeout (a CancelledError) or load_function raised: no one touches
\* the row.
Timeout(c) ==
    /\ Happens("timeout")
    /\ Busy(c)
    /\ Goto(c, "over")
    /\ UNCHANGED <<status, batchRow, tries, verdict, told, tally, posted, submitting, users>>

\* on_execution_terminated raised.  After Complete the except clause turns
\* the row to FAILED, if the session can still be used.
CountRaises(c) ==
    /\ Happens("count")
    /\ pc[c] \in {"counting", "bumping", "tallying", "claiming", "posting"}
    /\ \/ Goto(c, "over")
       \/ verdict[c] = "success" /\ Goto(c, "failing")
    /\ UNCHANGED <<status, batchRow, tries, verdict, told, tally, posted, submitting, users>>

\* cancel_job of the child's job: no look at the status, nor at the batch.
CancelJob(c) ==
    /\ Happens("cancel_job")
    /\ pc[c] # "row"
    /\ SetStatus(c, "CANCELLED")
    /\ UNCHANGED <<batchRow, jobs, posted, submitting, users>>

Fault(c) == Rerun(c) \/ Timeout(c) \/ CountRaises(c) \/ CancelJob(c)

-----------------------------------------------------------------------------

OnTerminated(c) == CountPending(c) \/ Bump(c) \/ Tally(c) \/ Claim(c) \/ Post(c)

Job(c) == Start(c) \/ Complete(c) \/ Fail(c) \/ Pause(c) \/ Tell(c) \/ OnTerminated(c)

Next ==
    \/ \E c \in Child : Enqueue(c) \/ Job(c) \/ Resume(c) \/ Fault(c)
    \/ \E x \in Canceller : Cancel(x)
    \/ SubmitRaises

\* The submission loop and the workers go on until stopped; nobody is
\* obliged to cancel or to answer an input prompt.
Fairness ==
    /\ \A c \in Child : WF_vars(Enqueue(c)) /\ WF_vars(Job(c))

Spec == Init /\ [][Next]_vars /\ Fairness

-----------------------------------------------------------------------------
(***************************************************************************)
(* Properties.                                                             *)
(***************************************************************************)

Job_PC == {"row", "queued", "running", "telling", "failing", "counting", "bumping",
           "tallying", "claiming", "posting", "over"}

Verdict == {"none", "success", "failure"}

Counts == {<<>>} \cup [Child -> ExecutionStatus]

TypeOK ==
    /\ status \in [Child -> ExecutionStatus]
    /\ batch \in BatchStatus
    /\ finished \in BOOLEAN
    /\ pc \in [Child -> Job_PC]
    /\ tries \in [Child -> Nat]
    /\ verdict \in [Child -> Verdict]
    /\ told \in [Child -> Seq(Verdict)]
    /\ tally \in [Child -> Counts]
    /\ posted \in Seq([status : BatchStatus, counts : Counts])
    /\ submitting \in BOOLEAN
    /\ canceller \in [Canceller -> {"idle", "writing", "counting", "posting", "over"}]
    /\ resumer \in [Child -> {"idle", "checked", "running"}]
    /\ resumed \in [Child -> Nat]
    /\ faults \subseteq FaultKinds

Cancelled == \E x \in Canceller : canceller[x] \notin {"idle", "writing"}
Quiet(F) == faults \cap F = {}

\* on_execution_terminated: "fires the batch callback exactly once (race-
\* safe via CAS on finished_at)": at most once, whichever children end
\* together, are run again or are cancelled, until the batch is cancelled.
PostedOnce == ~Cancelled => Len(posted) <= 1

\* A summary is posted, by whichever child, only with the final status of
\* every child, those that wait for input included.
SummaryIsFinal ==
    ~Cancelled /\ Quiet({"rerun", "count", "cancel_job"}) =>
        \A i \in DOMAIN posted : /\ posted[i].counts = status
                                 /\ posted[i].status = DeriveStatus(status)

\* A child that counted too early bumps the batch late: that must not
\* reopen a batch the last child, or a cancel, has finished meanwhile.
NeverReopened ==
    [][finished => finished' /\ batch' \in {batch, "CANCELLED"}]_<<batch, finished>>

\* Callbacks of a child: a single one, that agrees with the row, unless the
\* job was run again or its count raised after the callback.
ToldOnce ==
    \A c \in Child : Quiet({"rerun", "count"}) =>
        /\ Len(told[c]) <= 1
        /\ Quiet({"cancel_job"}) /\ ~Cancelled /\ told[c] # <<>> =>
              status[c] = IF told[c][1] = "success" THEN "COMPLETED" ELSE "FAILED"

Paused == \E c \in Child : resumed[c] > 0 \/ status[c] = "AWAITING_INPUT"

\* Whoever looks last sees all the others: without cancels, faults and
\* pauses a batch finishes and its summary is posted.
BatchEnds ==
    <>(Len(posted) = 1 \/ Cancelled \/ Paused \/ faults # {})

=============================================================================
