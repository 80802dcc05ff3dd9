------------------------------ MODULE JobQueue ------------------------------
(***************************************************************************)
(* One function job in the queue: who enqueues it and waits for it, the    *)
(* worker that runs it, cancellation, and the dead letter queue.           *)
(*                                                                         *)
(*   services/queue_service.py  QueueService                               *)
(*   queue/worker.py            execute_function_job, WorkerSettings       *)
(*                                                                         *)
(* Every Redis command is a step.  What arq does with a job is external:   *)
(* it runs a job again when its worker dies, and may when it fails, up to  *)
(* max_tries; it refuses an id that is queued, runs, or whose result it    *)
(* still keeps.  Jobs do not touch each other's keys: the module has one.  *)
(***************************************************************************)
EXTENDS Integers, Sequences

CONSTANTS
    Waited,         \* TRUE for enqueue_and_wait, FALSE for enqueue_function
    Retrier,        \* requests to retry the job from the dead letter queue
    MaxRetries,     \* settings.queue_max_retries
    MaxCancels,     \* bound: cancel_job calls
    MaxFlushes,     \* bound: flush_dlq calls
    MaxFaults       \* bound: crashes of workers and Redis errors

ASSUME QueueAssumption ==
    /\ Waited \in BOOLEAN
    /\ MaxRetries \in Nat \ {0}
    /\ MaxCancels \in Nat /\ MaxFlushes \in Nat /\ MaxFaults \in Nat

VARIABLES
    status,     \* sinas:job:status, the status in it
    result,     \* is there a sinas:job:result
    dlq,        \* entries of the job in the dead letter queue
    arq,        \* the job in arq: none, queued, running, or its result kept
    tries,      \* job_try
    run,        \* where execute_function_job is
    waiter,     \* where enqueue_and_wait is
    inbox,      \* what its subscription has received
    cancel,     \* where cancel_job is
    retry,      \* where each retry request is
    returned,   \* history: the function has returned
    cancelled,  \* history: the job was cancelled
    unheard,    \* history: nobody was told how the last run ended
    cancels, flushes, faults

keys == <<status, result, dlq>>
job == <<arq, tries, run>>
caller == <<waiter, inbox>>
history == <<returned, cancelled, unheard>>
bounds == <<cancels, flushes, faults>>
vars == <<keys, job, caller, cancel, retry, history, bounds>>

Init ==
    /\ status = "none" /\ result = FALSE /\ dlq = 0
    /\ arq = "none" /\ tries = 0 /\ run = "none"
    /\ waiter = IF Waited THEN "new" ELSE "subscribed"
    /\ inbox = <<>>
    /\ cancel = "none"
    /\ retry = [r \in Retrier |-> "none"]
    /\ returned = FALSE /\ cancelled = FALSE /\ unheard = FALSE
    /\ cancels = 0 /\ flushes = 0 /\ faults = 0

Fault == faults < MaxFaults /\ faults' = faults + 1

\* A message reaches the caller while it is subscribed.
Publish(message) ==
    /\ inbox' = IF Waited /\ waiter \in {"subscribed", "marked", "waiting"}
                THEN Append(inbox, message) ELSE inbox
    /\ UNCHANGED waiter

-----------------------------------------------------------------------------
(***************************************************************************)
(* enqueue_and_wait and enqueue_function.                                  *)
(***************************************************************************)

Subscribe ==
    /\ waiter = "new"
    /\ waiter' = "subscribed"
    /\ UNCHANGED <<keys, job, inbox, cancel, retry, history, bounds>>

SetQueued ==
    /\ waiter = "subscribed"
    /\ status' = "queued"
    /\ waiter' = "marked"
    /\ UNCHANGED <<result, dlq, job, inbox, cancel, retry, history, bounds>>

\* arq's enqueue_job
Enqueue ==
    IF arq = "none" THEN arq' = "queued" /\ tries' = 0 /\ UNCHANGED run
    ELSE UNCHANGED job

\* Wrong: what was received before the job is enqueued is not listened to.
EnqueueAndSubscribe ==
    /\ waiter = "marked"
    /\ \/ /\ arq = "none" /\ Enqueue
          /\ UNCHANGED <<waiter, inbox>>
       \/ /\ arq # "none"
          /\ waiter' = "waiting" /\ inbox' = <<>>
          /\ UNCHANGED job
    /\ UNCHANGED <<keys, cancel, retry, history, bounds>>

EnqueueJob ==
    /\ waiter = "marked"
    /\ Enqueue
    /\ waiter' = IF Waited THEN "waiting" ELSE "gone"
    /\ UNCHANGED <<keys, inbox, cancel, retry, history, bounds>>

GetMessage ==
    /\ waiter = "waiting" /\ inbox # <<>>
    /\ waiter' = IF Head(inbox) = "completed" THEN "value" ELSE "raised"
    /\ inbox' = <<>>
    /\ UNCHANGED <<keys, job, cancel, retry, history, bounds>>

\* After a second without a message the status is looked at.
CheckStatus ==
    /\ waiter = "waiting"
    /\ \/ status = "completed" /\ waiter' = "told"
       \/ status = "failed" /\ waiter' = "raised"
    /\ UNCHANGED <<keys, job, inbox, cancel, retry, history, bounds>>

ReadResult ==
    /\ waiter = "told"
    /\ waiter' = IF result THEN "value" ELSE "nothing"
    /\ UNCHANGED <<keys, job, inbox, cancel, retry, history, bounds>>

WaitTimeout ==
    /\ waiter = "waiting"
    /\ waiter' = "timed out"
    /\ UNCHANGED <<keys, job, inbox, cancel, retry, history, bounds>>

-----------------------------------------------------------------------------
(***************************************************************************)
(* The worker: execute_function_job.                                       *)
(***************************************************************************)

\* arq takes the job and calls execute_function_job.
Dequeue ==
    /\ arq = "queued" /\ tries < MaxRetries
    /\ arq' = "running" /\ tries' = tries + 1
    /\ run' = "dequeued"
    /\ unheard' = FALSE
    /\ UNCHANGED <<keys, caller, cancel, retry, returned, cancelled, bounds>>

\* After a GET of the old status, on which nothing here depends.
SetRunning ==
    /\ run = "dequeued"
    /\ status' = "running"
    /\ run' = "executing"
    /\ UNCHANGED <<result, dlq, arq, tries, caller, cancel, retry, history, bounds>>

\* An error or a cancellation at that GET or SET, which precede the try: no
\* clause catches it, and the SET may have been done.
EndsUntold ==
    /\ run = "dequeued"
    /\ status' \in {status, "running"}
    /\ run' = "none" /\ arq' \in {"kept", "queued"}
    /\ unheard' = TRUE
    /\ UNCHANGED <<result, dlq, tries, caller, cancel, retry, returned, cancelled, bounds>>

\* arq gives the job up without calling execute_function_job.
Exhausted ==
    /\ arq = "queued" /\ tries = MaxRetries
    /\ arq' = "kept"
    /\ unheard' = TRUE
    /\ UNCHANGED <<keys, tries, run, caller, cancel, retry, returned, cancelled, bounds>>

\* The function returns or raises, or the job is cancelled by its timeout or
\* by the worker's shutdown.
FunctionEnds ==
    /\ run = "executing"
    /\ \/ run' = "returned" /\ returned' = TRUE
       \/ run' \in {"raised", "interrupted"} /\ UNCHANGED returned
    /\ UNCHANGED <<keys, arq, tries, caller, cancel, retry, cancelled, unheard, bounds>>

\* Wrong: the status is set before the result is stored.
StoreStatusFirst ==
    /\ run = "returned"
    /\ status' = "completed"
    /\ run' = "stored"
    /\ UNCHANGED <<result, dlq, arq, tries, caller, cancel, retry, history, bounds>>

StoreResult ==
    /\ run = "returned"
    /\ result' = TRUE
    /\ run' = "stored"
    /\ UNCHANGED <<status, dlq, arq, tries, caller, cancel, retry, history, bounds>>

SetCompleted ==
    /\ run = "stored"
    /\ status' = "completed"
    /\ run' = "completed"
    /\ UNCHANGED <<result, dlq, arq, tries, caller, cancel, retry, history, bounds>>

PublishCompleted ==
    /\ run = "completed"
    /\ Publish("completed")
    /\ run' = "done"
    /\ UNCHANGED <<keys, arq, tries, cancel, retry, history, bounds>>

\* An error of Redis after the function has returned is a failure like any
\* other; one in the handler of a failure leads to the finally clause.
RedisError ==
    /\ Fault
    /\ \/ run \in {"returned", "stored", "completed"} /\ run' = "raised"
       \/ run \in {"raised", "failed"} /\ run' = "interrupted"
       \/ run = "announced" /\ run' = "ended"
    /\ UNCHANGED <<keys, arq, tries, caller, cancel, retry, history, cancels, flushes>>

SetFailed ==
    /\ run = "raised"
    /\ status' = "failed"
    /\ run' = "failed"
    /\ UNCHANGED <<result, dlq, arq, tries, caller, cancel, retry, history, bounds>>

\* Wrong: every failed try is a dead letter.
Letters == 1

\* The last try becomes a dead letter.
LastLetter == IF tries >= MaxRetries THEN 1 ELSE 0

PublishFailed ==
    /\ run = "failed"
    /\ Publish("failed")
    /\ run' = "announced"
    /\ UNCHANGED <<keys, arq, tries, cancel, retry, history, bounds>>

PushLetter ==
    /\ run = "announced"
    /\ dlq' = dlq + LastLetter
    /\ run' = "ended"
    /\ UNCHANGED <<status, result, arq, tries, caller, cancel, retry, history, bounds>>

\* arq keeps the result of the job; one that raised may be run again.
Record ==
    /\ run \in {"done", "ended"}
    /\ run' = "none"
    /\ \/ arq' = "kept"
       \/ run = "ended" /\ tries < MaxRetries /\ arq' = "queued"
    /\ UNCHANGED <<keys, tries, caller, cancel, retry, history, bounds>>

\* The finally clause of an interrupted job; its errors are swallowed.
Finally ==
    /\ run = "interrupted"
    /\ \/ /\ status' = "failed" /\ Publish("failed")
          /\ UNCHANGED <<unheard, faults>>
       \/ /\ Fault
          /\ unheard' = TRUE
          /\ UNCHANGED <<status, caller>>
    /\ run' = "none" /\ arq' \in {"kept", "queued"}
    /\ UNCHANGED <<result, dlq, tries, cancel, retry, returned, cancelled, cancels, flushes>>

\* A job whose worker died is run again.
Crash ==
    /\ Fault
    /\ run # "none"
    /\ run' = "none" /\ arq' = "queued"
    /\ UNCHANGED <<keys, tries, caller, cancel, retry, history, cancels, flushes>>

-----------------------------------------------------------------------------
(***************************************************************************)
(* cancel_job, also called by flush_stuck_jobs.                            *)
(***************************************************************************)

CancelSet ==
    /\ cancel = "none" /\ status # "none"
    /\ cancels < MaxCancels /\ cancels' = cancels + 1
    /\ status' = "cancelled" /\ cancelled' = TRUE
    /\ cancel' = "set"
    /\ UNCHANGED <<result, dlq, job, caller, retry, returned, unheard, flushes, faults>>

CancelDelete ==
    /\ cancel = "set"
    /\ result' = FALSE
    /\ cancel' = "deleted"
    /\ UNCHANGED <<status, dlq, job, caller, retry, history, bounds>>

CancelPublish ==
    /\ cancel = "deleted"
    /\ Publish("cancelled")
    /\ cancel' = "none"
    /\ UNCHANGED <<keys, job, retry, history, bounds>>

-----------------------------------------------------------------------------
(***************************************************************************)
(* The dead letter queue.                                                  *)
(***************************************************************************)

RetryGoes(r, from, to) == retry[r] = from /\ retry' = [retry EXCEPT ![r] = to]

\* The requests that have read an entry which is no longer there.
Stale == [r \in Retrier |-> IF retry[r] = "found" THEN "stale" ELSE retry[r]]

RetryRead(r) ==
    /\ RetryGoes(r, "none", "found")
    /\ dlq > 0
    /\ UNCHANGED <<keys, job, caller, cancel, history, bounds>>

RetryRemove(r) ==
    /\ retry[r] = "found"
    /\ dlq' = dlq - 1
    /\ retry' = [Stale EXCEPT ![r] = "removed"]
    /\ UNCHANGED <<status, result, job, caller, cancel, history, bounds>>

\* lrem looks for the text that was read: it removes nothing, or a later entry
\* with the same text.
RetryRemoveStale(r) ==
    /\ retry[r] = "stale"
    /\ \/ /\ dlq > 0 /\ dlq' = dlq - 1
          /\ retry' = [Stale EXCEPT ![r] = "removed"]
       \/ /\ retry' = [retry EXCEPT ![r] = "removed"]
          /\ UNCHANGED dlq
    /\ UNCHANGED <<status, result, job, caller, cancel, history, bounds>>

RetrySetQueued(r) ==
    /\ RetryGoes(r, "removed", "marked")
    /\ status' = "queued"
    /\ UNCHANGED <<result, dlq, job, caller, cancel, history, bounds>>

\* Under the same id, whatever arq makes of it.
RetryEnqueue(r) ==
    /\ RetryGoes(r, "marked", "over")
    /\ Enqueue
    /\ UNCHANGED <<keys, caller, cancel, history, bounds>>

FlushDlq ==
    /\ flushes < MaxFlushes /\ flushes' = flushes + 1
    /\ dlq' = 0
    /\ retry' = Stale
    /\ UNCHANGED <<status, result, job, caller, cancel, history, cancels, faults>>

\* arq forgets the job's result an hour later, when requests have long ended.
Forget ==
    /\ arq = "kept"
    /\ \A r \in Retrier : retry[r] \in {"none", "over"}
    /\ arq' = "none"
    /\ UNCHANGED <<keys, tries, run, caller, cancel, retry, history, bounds>>

-----------------------------------------------------------------------------

CallerStep == Subscribe \/ SetQueued \/ EnqueueJob
Wait == GetMessage \/ CheckStatus \/ ReadResult \/ WaitTimeout
Execute == \/ Dequeue \/ SetRunning \/ EndsUntold \/ Exhausted \/ FunctionEnds
           \/ StoreResult \/ SetCompleted \/ PublishCompleted
           \/ SetFailed \/ PublishFailed \/ PushLetter \/ Record \/ Finally
Cancel == CancelSet \/ CancelDelete \/ CancelPublish
Retry(r) == \/ RetryRead(r) \/ RetryRemove(r) \/ RetryRemoveStale(r)
            \/ RetrySetQueued(r) \/ RetryEnqueue(r)

Next ==
    \/ CallerStep \/ Wait \/ Execute \/ RedisError \/ Crash
    \/ Cancel \/ FlushDlq \/ Forget
    \/ \E r \in Retrier : Retry(r)

Spec == Init /\ [][Next]_vars

-----------------------------------------------------------------------------
(***************************************************************************)
(* Properties.                                                             *)
(***************************************************************************)

\* enqueue_and_wait gives its caller a value only when the function returned
\* one, and nothing only when the job was cancelled meanwhile: status and
\* result are two keys, read and written one after the other.
CallerToldTruth ==
    /\ waiter = "value" => returned
    /\ waiter = "nothing" => cancelled

Settled == arq \in {"kept", "none"} /\ run = "none"

\* No lost wake-up: when nothing is left to run, a caller that waits has been
\* sent a message about it, unless the last run could tell nobody: it ended
\* before its try, in arq without being called, or with Redis failing in its
\* finally clause.  Otherwise it never depends on looking at the status, which
\* others overwrite.
NoLostWakeup ==
    waiter = "waiting" /\ Settled => inbox # <<>> \/ unheard

\* A job has one dead letter at most, and while it has one the function is
\* neither running nor about to, however many requests retry it at once.
DeadLetterIsDead ==
    /\ dlq <= 1
    /\ dlq = 1 => /\ run \in {"none", "ended"}
                  /\ arq = "queued" => tries = MaxRetries

=============================================================================
