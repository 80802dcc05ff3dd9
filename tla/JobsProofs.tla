------------------------------ MODULE JobsProofs ------------------------------
(***************************************************************************)
(* The two ways of waiting for a job.                                      *)
(*                                                                         *)
(* JobQueue, a function job that is waited for: for any number of tries,   *)
(* cancellations, flushes, retry requests and faults, the caller is told   *)
(* the truth and not left asleep, and a dead letter is about a job that is *)
(* not running.                                                            *)
(*                                                                         *)
(* AgentSlots, agent jobs that hold a slot while they wait for one another:*)
(* for any calls and slots, a queue's slots starve only of jobs delegated  *)
(* above the depth bound.                                                  *)
(***************************************************************************)
EXTENDS JobQueue, AgentSlots, FiniteSetTheorems, TLAPS

Run_PC == {"none", "dequeued", "executing", "returned", "stored", "completed", "done",
           "raised", "failed", "announced", "ended", "interrupted"}
Retry_PC == {"none", "found", "stale", "removed", "marked", "over"}
Message == {"completed", "failed", "cancelled"}

Typed ==
    /\ arq \in {"none", "queued", "running", "kept"}
    /\ run \in Run_PC
    /\ tries \in Nat /\ tries <= MaxRetries
    /\ dlq \in {0, 1}
    /\ retry \in [Retrier -> Retry_PC]
    /\ inbox \in Seq(Message)
    /\ result \in BOOLEAN /\ returned \in BOOLEAN /\ cancelled \in BOOLEAN /\ unheard \in BOOLEAN

\* Where a value, or the want of one, comes from.
Told ==
    /\ CallerToldTruth
    /\ waiter = "told" => result \/ cancelled
    /\ status = "completed" => result \/ cancelled
    /\ result => returned
    /\ run \in {"returned", "stored", "completed"} => returned
    /\ run \in {"stored", "completed"} => result \/ cancelled
    /\ cancel = "set" => cancelled
    /\ \A i \in 1..Len(inbox) : inbox[i] = "completed" => returned

\* A run is announced before it ends.
Woken ==
    /\ waiter = "waiting" => Waited
    /\ waiter = "waiting" /\ run \in {"done", "announced", "ended"} => inbox # <<>>
    /\ NoLostWakeup

Early == waiter \in {"new", "subscribed", "marked"}

\* What goes on around a dead letter.
Dead ==
    /\ Early => dlq = 0 /\ arq = "none" /\ run = "none" /\ \A r \in Retrier : retry[r] = "none"
    /\ run # "none" => arq = "running"
    /\ DeadLetterIsDead
    /\ dlq = 1 /\ run = "ended" => tries = MaxRetries
    /\ dlq = 1 /\ arq = "none" => \A r \in Retrier : retry[r] \in {"none", "found", "over"}
    /\ \A r \in Retrier : retry[r] = "found" => dlq = 1

IInv == Typed /\ Told /\ Woken /\ Dead

\* The initial states satisfy the invariant.
LEMMA InitIInv == Init => IInv
  <1> SUFFICES ASSUME Init PROVE IInv
    OBVIOUS
  <1> USE QueueAssumption DEF Init
  <1>1. Typed
    <2>1. inbox \in Seq(Message) /\ tries <= MaxRetries /\ retry \in [Retrier -> Retry_PC]
      BY DEF Retry_PC
    <2>2. QED
      BY <2>1 DEF Typed, Run_PC
  <1>2. Told
    BY DEF Told, CallerToldTruth
  <1>3. Woken
    BY DEF Woken, NoLostWakeup
  <1>4. Dead
    BY DEF Dead, DeadLetterIsDead
  <1>5. QED
    BY <1>1, <1>2, <1>3, <1>4 DEF IInv

\* The types are kept.
LEMMA TypedStep ==
  ASSUME IInv, Next
  PROVE  Typed'
  <1> USE QueueAssumption DEF IInv, Typed, Run_PC, Retry_PC, Message, Dead, DeadLetterIsDead, keys, job, caller, history, bounds
  <1>1. CASE Subscribe
    BY <1>1 DEF Subscribe
  <1>2. CASE SetQueued
    BY <1>2 DEF SetQueued
  <1>3. CASE EnqueueJob
    BY <1>3 DEF EnqueueJob, Enqueue
  <1>4. CASE GetMessage
    BY <1>4 DEF GetMessage
  <1>5. CASE CheckStatus
    BY <1>5 DEF CheckStatus
  <1>6. CASE ReadResult
    BY <1>6 DEF ReadResult
  <1>7. CASE WaitTimeout
    BY <1>7 DEF WaitTimeout
  <1>8. CASE Dequeue
    <2>1. tries' \in Nat /\ tries' <= MaxRetries
      BY <1>8 DEF Dequeue
    <2>2. QED
      BY <1>8, <2>1 DEF Dequeue
  <1>9. CASE Exhausted
    BY <1>9 DEF Exhausted
  <1>10. CASE FunctionEnds
    BY <1>10 DEF FunctionEnds
  <1>11. CASE StoreResult
    BY <1>11 DEF StoreResult
  <1>12. CASE SetCompleted
    BY <1>12 DEF SetCompleted
  <1>13. CASE PublishCompleted
    BY <1>13 DEF PublishCompleted, Publish
  <1>14. CASE SetFailed
    BY <1>14 DEF SetFailed
  <1>15. CASE PublishFailed
    BY <1>15 DEF PublishFailed, Publish
  <1>16. CASE PushLetter
    BY <1>16 DEF PushLetter, LastLetter
  <1>17. CASE Record
    BY <1>17 DEF Record
  <1>18. CASE Finally
    <2>1. inbox' \in Seq(Message) /\ unheard' \in BOOLEAN
      <3>1. \/ Publish("failed") /\ UNCHANGED unheard
            \/ unheard' = TRUE /\ UNCHANGED caller
        BY <1>18 DEF Finally
      <3>2. inbox' = Append(inbox, "failed") \/ inbox' = inbox
        BY <3>1 DEF Publish
      <3>3. Append(inbox, "failed") \in Seq(Message)
        OBVIOUS
      <3>4. unheard' \in BOOLEAN
        BY <3>1
      <3>5. QED
        BY <3>2, <3>3, <3>4
    <2>2. QED
      BY <1>18, <2>1 DEF Finally
  <1>19. CASE RedisError
    BY <1>19 DEF RedisError, Fault
  <1>20. CASE Crash
    BY <1>20 DEF Crash, Fault
  <1>21. CASE CancelSet
    BY <1>21 DEF CancelSet
  <1>22. CASE CancelDelete
    BY <1>22 DEF CancelDelete
  <1>23. CASE CancelPublish
    BY <1>23 DEF CancelPublish, Publish
  <1>24. CASE FlushDlq
    BY <1>24 DEF FlushDlq, Stale
  <1>25. CASE Forget
    BY <1>25 DEF Forget
  <1>26. ASSUME NEW r \in Retrier, RetryRead(r) PROVE Typed'
    BY <1>26 DEF RetryRead, RetryGoes
  <1>27. ASSUME NEW r \in Retrier, RetryRemove(r) PROVE Typed'
    BY <1>27 DEF RetryRemove, Stale
  <1>28. ASSUME NEW r \in Retrier, RetryRemoveStale(r) PROVE Typed'
    <2>1. dlq' \in {0, 1} /\ retry' \in [Retrier -> Retry_PC]
      <3>1. CASE dlq > 0 /\ dlq' = dlq - 1 /\ retry' = [Stale EXCEPT ![r] = "removed"]
        BY <3>1 DEF Stale
      <3>2. CASE retry' = [retry EXCEPT ![r] = "removed"] /\ UNCHANGED dlq
        BY <3>2
      <3>3. QED
        BY <1>28, <3>1, <3>2 DEF RetryRemoveStale
    <2>2. QED
      BY <1>28, <2>1 DEF RetryRemoveStale
  <1>29. ASSUME NEW r \in Retrier, RetrySetQueued(r) PROVE Typed'
    BY <1>29 DEF RetrySetQueued, RetryGoes
  <1>30. ASSUME NEW r \in Retrier, RetryEnqueue(r) PROVE Typed'
    BY <1>30 DEF RetryEnqueue, RetryGoes, Enqueue
  <1>31. CASE SetRunning
    BY <1>31 DEF SetRunning
  <1>32. CASE EndsUntold
    BY <1>32 DEF EndsUntold
  <1>33. QED
    BY <1>31, <1>32, <1>1, <1>2, <1>3, <1>4, <1>5, <1>6, <1>7, <1>8, <1>9, <1>10, <1>11, <1>12, <1>13, <1>14, <1>15, <1>16, <1>17, <1>18, <1>19, <1>20, <1>21, <1>22, <1>23, <1>24, <1>25, <1>26, <1>27, <1>28, <1>29, <1>30
    DEF Next, CallerStep, Wait, Execute, Cancel, Retry

\* What the caller is told stays true.
LEMMA ToldStep ==
  ASSUME IInv, Next
  PROVE  Told'
  <1> USE QueueAssumption DEF IInv, Typed, Message, Told, CallerToldTruth, keys, job, caller, history, bounds
  <1>1. CASE Subscribe
    BY <1>1 DEF Subscribe
  <1>2. CASE SetQueued
    BY <1>2 DEF SetQueued
  <1>3. CASE EnqueueJob
    BY <1>3 DEF EnqueueJob, Enqueue
  <1>4. CASE GetMessage
    BY <1>4 DEF GetMessage
  <1>5. CASE CheckStatus
    BY <1>5 DEF CheckStatus
  <1>6. CASE ReadResult
    BY <1>6 DEF ReadResult
  <1>7. CASE WaitTimeout
    BY <1>7 DEF WaitTimeout
  <1>8. CASE Dequeue
    BY <1>8 DEF Dequeue
  <1>9. CASE Exhausted
    BY <1>9 DEF Exhausted
  <1>10. CASE FunctionEnds
    BY <1>10 DEF FunctionEnds
  <1>11. CASE StoreResult
    BY <1>11 DEF StoreResult
  <1>12. CASE SetCompleted
    BY <1>12 DEF SetCompleted
  <1>13. CASE PublishCompleted
    BY <1>13 DEF PublishCompleted, Publish
  <1>14. CASE SetFailed
    BY <1>14 DEF SetFailed
  <1>15. CASE PublishFailed
    BY <1>15 DEF PublishFailed, Publish
  <1>16. CASE PushLetter
    BY <1>16 DEF PushLetter, LastLetter
  <1>17. CASE Record
    BY <1>17 DEF Record
  <1>18. CASE Finally
    BY <1>18 DEF Finally, Publish, Fault
  <1>19. CASE RedisError
    BY <1>19 DEF RedisError, Fault
  <1>20. CASE Crash
    BY <1>20 DEF Crash, Fault
  <1>21. CASE CancelSet
    BY <1>21 DEF CancelSet
  <1>22. CASE CancelDelete
    BY <1>22 DEF CancelDelete
  <1>23. CASE CancelPublish
    BY <1>23 DEF CancelPublish, Publish
  <1>24. CASE FlushDlq
    BY <1>24 DEF FlushDlq, Stale
  <1>25. CASE Forget
    BY <1>25 DEF Forget
  <1>26. ASSUME NEW r \in Retrier, RetryRead(r) PROVE Told'
    BY <1>26 DEF RetryRead, RetryGoes
  <1>27. ASSUME NEW r \in Retrier, RetryRemove(r) PROVE Told'
    BY <1>27 DEF RetryRemove, Stale
  <1>28. ASSUME NEW r \in Retrier, RetryRemoveStale(r) PROVE Told'
    BY <1>28 DEF RetryRemoveStale, Stale
  <1>29. ASSUME NEW r \in Retrier, RetrySetQueued(r) PROVE Told'
    BY <1>29 DEF RetrySetQueued, RetryGoes
  <1>30. ASSUME NEW r \in Retrier, RetryEnqueue(r) PROVE Told'
    BY <1>30 DEF RetryEnqueue, RetryGoes, Enqueue
  <1>31. CASE SetRunning
    BY <1>31 DEF SetRunning
  <1>32. CASE EndsUntold
    BY <1>32 DEF EndsUntold
  <1>33. QED
    BY <1>31, <1>32, <1>1, <1>2, <1>3, <1>4, <1>5, <1>6, <1>7, <1>8, <1>9, <1>10, <1>11, <1>12, <1>13, <1>14, <1>15, <1>16, <1>17, <1>18, <1>19, <1>20, <1>21, <1>22, <1>23, <1>24, <1>25, <1>26, <1>27, <1>28, <1>29, <1>30
    DEF Next, CallerStep, Wait, Execute, Cancel, Retry

\* The caller is woken.
LEMMA WokenStep ==
  ASSUME IInv, Next
  PROVE  Woken'
  <1> USE QueueAssumption DEF IInv, Typed, Message, Woken, NoLostWakeup, Settled, Dead, Early, keys, job, caller, history, bounds
  <1>1. CASE Subscribe
    BY <1>1 DEF Subscribe
  <1>2. CASE SetQueued
    BY <1>2 DEF SetQueued
  <1>3. CASE EnqueueJob
    BY <1>3 DEF EnqueueJob, Enqueue
  <1>4. CASE GetMessage
    BY <1>4 DEF GetMessage
  <1>5. CASE CheckStatus
    BY <1>5 DEF CheckStatus
  <1>6. CASE ReadResult
    BY <1>6 DEF ReadResult
  <1>7. CASE WaitTimeout
    BY <1>7 DEF WaitTimeout
  <1>8. CASE Dequeue
    BY <1>8 DEF Dequeue
  <1>9. CASE Exhausted
    BY <1>9 DEF Exhausted
  <1>10. CASE FunctionEnds
    BY <1>10 DEF FunctionEnds
  <1>11. CASE StoreResult
    BY <1>11 DEF StoreResult
  <1>12. CASE SetCompleted
    BY <1>12 DEF SetCompleted
  <1>13. CASE PublishCompleted
    BY <1>13 DEF PublishCompleted, Publish
  <1>14. CASE SetFailed
    BY <1>14 DEF SetFailed
  <1>15. CASE PublishFailed
    BY <1>15 DEF PublishFailed, Publish
  <1>16. CASE PushLetter
    BY <1>16 DEF PushLetter, LastLetter
  <1>17. CASE Record
    BY <1>17 DEF Record
  <1>18. CASE Finally
    BY <1>18 DEF Finally, Publish, Fault
  <1>19. CASE RedisError
    BY <1>19 DEF RedisError, Fault
  <1>20. CASE Crash
    BY <1>20 DEF Crash, Fault
  <1>21. CASE CancelSet
    BY <1>21 DEF CancelSet
  <1>22. CASE CancelDelete
    BY <1>22 DEF CancelDelete
  <1>23. CASE CancelPublish
    BY <1>23 DEF CancelPublish, Publish
  <1>24. CASE FlushDlq
    BY <1>24 DEF FlushDlq, Stale
  <1>25. CASE Forget
    BY <1>25 DEF Forget
  <1>26. ASSUME NEW r \in Retrier, RetryRead(r) PROVE Woken'
    BY <1>26 DEF RetryRead, RetryGoes
  <1>27. ASSUME NEW r \in Retrier, RetryRemove(r) PROVE Woken'
    BY <1>27 DEF RetryRemove, Stale
  <1>28. ASSUME NEW r \in Retrier, RetryRemoveStale(r) PROVE Woken'
    BY <1>28 DEF RetryRemoveStale, Stale
  <1>29. ASSUME NEW r \in Retrier, RetrySetQueued(r) PROVE Woken'
    BY <1>29 DEF RetrySetQueued, RetryGoes
  <1>30. ASSUME NEW r \in Retrier, RetryEnqueue(r) PROVE Woken'
    BY <1>30 DEF RetryEnqueue, RetryGoes, Enqueue
  <1>31. CASE SetRunning
    BY <1>31 DEF SetRunning
  <1>32. CASE EndsUntold
    BY <1>32 DEF EndsUntold
  <1>33. QED
    BY <1>31, <1>32, <1>1, <1>2, <1>3, <1>4, <1>5, <1>6, <1>7, <1>8, <1>9, <1>10, <1>11, <1>12, <1>13, <1>14, <1>15, <1>16, <1>17, <1>18, <1>19, <1>20, <1>21, <1>22, <1>23, <1>24, <1>25, <1>26, <1>27, <1>28, <1>29, <1>30
    DEF Next, CallerStep, Wait, Execute, Cancel, Retry

\* Dead letters are about jobs that are not running.
LEMMA DeadStep ==
  ASSUME IInv, Next
  PROVE  Dead'
  <1> USE QueueAssumption DEF IInv, Typed, Retry_PC, Dead, DeadLetterIsDead, Early, keys, job, caller, history, bounds
  <1>1. CASE Subscribe
    BY <1>1 DEF Subscribe
  <1>2. CASE SetQueued
    BY <1>2 DEF SetQueued
  <1>3. CASE EnqueueJob
    BY <1>3 DEF EnqueueJob, Enqueue
  <1>4. CASE GetMessage
    BY <1>4 DEF GetMessage
  <1>5. CASE CheckStatus
    BY <1>5 DEF CheckStatus
  <1>6. CASE ReadResult
    BY <1>6 DEF ReadResult
  <1>7. CASE WaitTimeout
    BY <1>7 DEF WaitTimeout
  <1>8. CASE Dequeue
    BY <1>8 DEF Dequeue
  <1>9. CASE Exhausted
    BY <1>9 DEF Exhausted
  <1>10. CASE FunctionEnds
    BY <1>10 DEF FunctionEnds
  <1>11. CASE StoreResult
    BY <1>11 DEF StoreResult
  <1>12. CASE SetCompleted
    BY <1>12 DEF SetCompleted
  <1>13. CASE PublishCompleted
    BY <1>13 DEF PublishCompleted, Publish
  <1>14. CASE SetFailed
    BY <1>14 DEF SetFailed
  <1>15. CASE PublishFailed
    BY <1>15 DEF PublishFailed, Publish
  <1>16. CASE PushLetter
    BY <1>16 DEF PushLetter, LastLetter
  <1>17. CASE Record
    BY <1>17 DEF Record
  <1>18. CASE Finally
    BY <1>18 DEF Finally, Publish, Fault
  <1>19. CASE RedisError
    BY <1>19 DEF RedisError, Fault
  <1>20. CASE Crash
    BY <1>20 DEF Crash, Fault
  <1>21. CASE CancelSet
    BY <1>21 DEF CancelSet
  <1>22. CASE CancelDelete
    BY <1>22 DEF CancelDelete
  <1>23. CASE CancelPublish
    BY <1>23 DEF CancelPublish, Publish
  <1>24. CASE FlushDlq
    BY <1>24 DEF FlushDlq, Stale
  <1>25. CASE Forget
    BY <1>25 DEF Forget
  <1>26. ASSUME NEW r \in Retrier, RetryRead(r) PROVE Dead'
    BY <1>26 DEF RetryRead, RetryGoes
  <1>27. ASSUME NEW r \in Retrier, RetryRemove(r) PROVE Dead'
    BY <1>27 DEF RetryRemove, Stale
  <1>28. ASSUME NEW r \in Retrier, RetryRemoveStale(r) PROVE Dead'
    <2>1. CASE dlq > 0 /\ dlq' = dlq - 1 /\ retry' = [Stale EXCEPT ![r] = "removed"]
      <3>1. dlq' = 0 /\ ~Early /\ \A o \in Retrier : retry'[o] # "found"
        BY <2>1, <1>28 DEF Stale, RetryRemoveStale
      <3>2. QED
        BY <1>28, <3>1 DEF RetryRemoveStale
    <2>2. CASE retry' = [retry EXCEPT ![r] = "removed"] /\ UNCHANGED dlq
      <3>1. \A o \in Retrier : retry'[o] = IF o = r THEN "removed" ELSE retry[o]
        BY <2>2
      <3>2. QED
        BY <1>28, <2>2, <3>1 DEF RetryRemoveStale
    <2>3. QED
      BY <1>28, <2>1, <2>2 DEF RetryRemoveStale
  <1>29. ASSUME NEW r \in Retrier, RetrySetQueued(r) PROVE Dead'
    BY <1>29 DEF RetrySetQueued, RetryGoes
  <1>30. ASSUME NEW r \in Retrier, RetryEnqueue(r) PROVE Dead'
    BY <1>30 DEF RetryEnqueue, RetryGoes, Enqueue
  <1>31. CASE SetRunning
    BY <1>31 DEF SetRunning
  <1>32. CASE EndsUntold
    BY <1>32 DEF EndsUntold
  <1>33. QED
    BY <1>31, <1>32, <1>1, <1>2, <1>3, <1>4, <1>5, <1>6, <1>7, <1>8, <1>9, <1>10, <1>11, <1>12, <1>13, <1>14, <1>15, <1>16, <1>17, <1>18, <1>19, <1>20, <1>21, <1>22, <1>23, <1>24, <1>25, <1>26, <1>27, <1>28, <1>29, <1>30
    DEF Next, CallerStep, Wait, Execute, Cancel, Retry

\* The invariant is inductive.
LEMMA Inductive == IInv /\ [Next]_vars => IInv'
  <1> SUFFICES ASSUME IInv, [Next]_vars PROVE IInv'
    OBVIOUS
  <1>1. CASE Next
    BY <1>1, TypedStep, ToldStep, WokenStep, DeadStep DEF IInv
  <1>2. CASE UNCHANGED vars
    <2> USE <1>2 DEF vars, keys, job, caller, history, bounds
    <2>1. Typed'
      BY DEF IInv, Typed
    <2>2. Told'
      BY DEF IInv, Told, CallerToldTruth
    <2>3. Woken'
      BY DEF IInv, Woken, NoLostWakeup, Settled
    <2>4. Dead'
      BY DEF IInv, Dead, DeadLetterIsDead, Early
    <2>5. QED
      BY <2>1, <2>2, <2>3, <2>4 DEF IInv
  <1>3. QED
    BY <1>1, <1>2

LEMMA Always == Spec => []IInv
  BY InitIInv, Inductive, PTL DEF Spec

(* The caller of enqueue_and_wait gets a value only when the function      *)
(* returned one, and nothing only when the job was cancelled               *)
(* (queue_service.py enqueue_and_wait, worker.py execute_function_job).    *)
THEOREM CallerIsTold == Spec => []CallerToldTruth
  <1>1. IInv => CallerToldTruth
    BY DEF IInv, Told
  <1>2. QED
    BY <1>1, Always, PTL

(* A caller that still waits when nothing is left to run has been sent a   *)
(* message, unless the last run ended before execute_function_job's try,   *)
(* was not called, or could not reach Redis in its finally clause.         *)
THEOREM CallerIsWoken == Spec => []NoLostWakeup
  <1>1. IInv => NoLostWakeup
    BY DEF IInv, Woken
  <1>2. QED
    BY <1>1, Always, PTL

(* A job has at most one dead letter, and none while it runs or may run,   *)
(* however many requests retry it (queue_service.py retry_dlq_job).        *)
THEOREM DeadStaysDead == Spec => []DeadLetterIsDead
  <1>1. IInv => DeadLetterIsDead
    BY DEF IInv, Dead
  <1>2. QED
    BY <1>1, Always, PTL

-----------------------------------------------------------------------------
(* Jobs that wait for jobs.                                                *)

\* A job waits only for its own calls, which it was allowed to create.
AwaitsChildren ==
    \A c \in Call : \A k \in awaits[c] :
        k \in Call \ User /\ Parent[k] = c /\ MayDelegate(c)

SlotsInv == TypeOK /\ AwaitsChildren

LEMMA SlotsInvInit == SlotsInit => SlotsInv
  BY DEF SlotsInit, SlotsInv, TypeOK, AwaitsChildren

LEMMA SlotsInvNext == SlotsInv /\ [SlotsNext]_slotsVars => SlotsInv'
  <1> SUFFICES ASSUME SlotsInv, [SlotsNext]_slotsVars PROVE SlotsInv'
    OBVIOUS
  <1> USE SlotsAssumption DEF SlotsInv, TypeOK, Goto
  <1>1. ASSUME NEW c \in Call, TakeSlot(c) \/ EnqueueCall(c) PROVE SlotsInv'
    BY <1>1 DEF TakeSlot, EnqueueCall, AwaitsChildren, MayDelegate
  <1>2. ASSUME NEW c \in Call, Delegate(c) PROVE SlotsInv'
    <2>1. PICK S \in SUBSET {k \in Call \ User : Parent[k] = c /\ pc[k] = "none"} :
             /\ awaits' = [awaits EXCEPT ![c] = S]
             /\ pc' = [k \in Call |-> IF k \in S THEN "called"
                                      ELSE IF k = c THEN "waiting" ELSE pc[k]]
      BY <1>2 DEF Delegate
    <2>2. MayDelegate(c) /\ UNCHANGED <<said, crashes>>
      BY <1>2 DEF Delegate
    <2>3. TypeOK'
      BY <2>1, <2>2
    <2>4. AwaitsChildren'
      BY <2>1, <2>2 DEF AwaitsChildren, MayDelegate
    <2>5. QED
      BY <2>3, <2>4
  <1>3. ASSUME NEW c \in Call, Hear(c) \/ GiveUp(c) PROVE SlotsInv'
    <2>1. PICK k \in awaits[c] : StopAwaiting(c, k)
      BY <1>3 DEF Hear, GiveUp
    <2>2. TypeOK'
      BY <2>1 DEF StopAwaiting
    <2>3. AwaitsChildren'
      BY <2>1 DEF StopAwaiting, AwaitsChildren, MayDelegate
    <2>4. QED
      BY <2>2, <2>3
  <1>4. ASSUME NEW c \in Call, End(c) PROVE SlotsInv'
    BY <1>4 DEF End, AwaitsChildren, MayDelegate
  <1>5. ASSUME NEW c \in Call, JobTimeout(c) \/ WorkerDies(c) PROVE SlotsInv'
    <2>1. TypeOK'
      BY <1>5 DEF JobTimeout, WorkerDies, Stop
    <2>2. AwaitsChildren'
      BY <1>5 DEF JobTimeout, WorkerDies, Stop, AwaitsChildren, MayDelegate
    <2>3. QED
      BY <2>1, <2>2
  <1>6. ASSUME NEW c \in Call, RoundTimeout(c) PROVE SlotsInv'
    <2>1. TypeOK'
      BY <1>6 DEF RoundTimeout
    <2>2. AwaitsChildren'
      BY <1>6 DEF RoundTimeout, AwaitsChildren, MayDelegate
    <2>3. QED
      BY <2>1, <2>2
  <1>7. CASE UNCHANGED slotsVars
    BY <1>7 DEF slotsVars, AwaitsChildren, MayDelegate
  <1>8. QED
    BY <1>1, <1>2, <1>3, <1>4, <1>5, <1>6, <1>7 DEF SlotsNext, Step

\* The depth of a queued child tells who may be waiting for it.
LEMMA StarvedIsDeep == SlotsInv => StarvedByDelegated
  <1> SUFFICES ASSUME SlotsInv, SubQueue, NEW q \in Queue, Starved(q), NEW c \in Held(q)
               PROVE  Depth[c] > 0 /\ (MaxDepth = 0 \/ Depth[c] < MaxDepth)
    BY DEF StarvedByDelegated
  <1>1. c \in Call /\ QueueOf(c) = q
    BY DEF Held
  <1>2. PICK k \in awaits[c] : QueueOf(k) = q
    BY DEF Starved
  <1>3. k \in Call \ User /\ Parent[k] = c /\ MayDelegate(c)
    BY <1>1, <1>2 DEF SlotsInv, AwaitsChildren
  <1>4. /\ Depth[c] \in Nat /\ MaxDepth \in Nat
        /\ Depth[k] = Depth[c] + 1
    BY <1>1, <1>3, SlotsAssumption
  <1>5. QueueOf(k) = "agents:sub"
    BY <1>4 DEF QueueOf
  <1>6. Depth[c] > 0
    BY <1>1, <1>2, <1>4, <1>5 DEF QueueOf
  <1>7. QED
    BY <1>3, <1>4, <1>6 DEF MayDelegate

\* What a job waits for: an invariant of every instance.
THEOREM SlotsInductive == SlotsSpec => []SlotsInv
  BY SlotsInvInit, SlotsInvNext, PTL DEF SlotsSpec

\* StarvedByDelegated for every instance.
THEOREM OnlyDelegatedStarve == SlotsSpec => []StarvedByDelegated
  BY SlotsInductive, StarvedIsDeep, PTL

\* One level of delegation cannot starve itself: NeverStarved holds then.
THEOREM OneLevelNeverStarves == MaxDepth = 1 => (SlotsSpec => []NeverStarved)
  <1> SUFFICES ASSUME MaxDepth = 1 PROVE SlotsSpec => []NeverStarved
    OBVIOUS
  <1>1. SlotsInv => NeverStarved
    <2> SUFFICES ASSUME SlotsInv, SubQueue, NEW q \in Queue, Starved(q) PROVE FALSE
      BY DEF NeverStarved
    <2>1. StarvedByDelegated
      BY StarvedIsDeep
    <2>2. Held(q) # {}
      <3> SUFFICES ASSUME Held(q) = {} PROVE FALSE
        OBVIOUS
      <3>1. Cardinality(Held(q)) = 0
        BY FS_EmptySet
      <3>2. Slots[q] \in Nat \ {0} /\ Cardinality(Held(q)) >= Slots[q]
        BY SlotsAssumption DEF Starved
      <3>3. QED
        BY <3>1, <3>2
    <2>3. PICK c \in Held(q) : Depth[c] > 0 /\ Depth[c] < 1
      BY <2>1, <2>2 DEF StarvedByDelegated
    <2>4. Depth[c] \in Nat
      BY SlotsAssumption DEF Held
    <2>5. QED
      BY <2>3, <2>4
  <1>2. QED
    BY <1>1, SlotsInductive, PTL

=============================================================================
