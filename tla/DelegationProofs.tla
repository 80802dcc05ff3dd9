-------------------------- MODULE DelegationProofs --------------------------
(***************************************************************************)
(* For every tree of calls, every bound and every mix of faults: a         *)
(* checkpoint waits for some call as long as it exists, and a suspension   *)
(* enqueues at most one resume (IInv). For every call some job is in       *)
(* charge of what becomes of it (CInv), which gives the turns, the         *)
(* answers, the end of the execution, and that the jobs implement Join.    *)
(***************************************************************************)
EXTENDS Delegation, FiniteSetTheorems, TLAPS

\* A job that has not ended its turn has not suspended its conversation.
NotYet ==
    \A j \in Job : pc[j] \in {"none", "queued", "turn"} =>
        asked[j] = {} /\ ~live[j] /\ resumes[j] = 0

\* A call is of one suspension: reports and wake-ups find the one they mean.
OneAsker ==
    /\ \A r \in Job : asked[r] \subseteq Call \ {Root}
    /\ \A r, s \in Job : \A k \in asked[r] : k \in asked[s] => r = s

\* A call has no job before the suspension it is of has enqueued it.
NotEnqueued ==
    /\ \A j \in Job : todo[j] \subseteq asked[j]
    /\ \A k \in Call \ {Root} :
          (\A r \in Job : k \in asked[r] => k \in todo[r]) => pc[MessageJob(k)] = "none"

\* The one that deleted the checkpoint, alone, is to wake the conversation.
OneWaker ==
    /\ \A w \in Job : Waking(w) => \E r \in Job : w[1] \in asked[r]
    /\ \A r, w \in Job : Waking(w) /\ w[1] \in asked[r] => ~live[r] /\ resumes[r] = 0
    /\ \A r, v, w \in Job :
          Waking(v) /\ Waking(w) /\ v[1] \in asked[r] /\ w[1] \in asked[r] => v = w

NotResumed ==
    \A r \in Suspender : resumes[r] = 0 => pc[ResumeJob(r)] = "none"

IInv ==
    /\ TypeOK
    /\ NotYet
    /\ OneAsker
    /\ NotEnqueued
    /\ OneWaker
    /\ NotResumed
    /\ ResumeOnce
    /\ CheckpointWaits

-----------------------------------------------------------------------------

\* Message jobs and resume jobs are jobs, and never the same.
LEMMA JobFacts ==
    /\ \A k \in Call : MessageJob(k) \in Job
    /\ \A r \in Suspender : r \in Job /\ ResumeJob(r) \in Job
    /\ \A j \in Job : j[1] \in Call
    /\ \A k, l \in Call : MessageJob(k) = MessageJob(l) => k = l
    /\ \A r, s \in Suspender : ResumeJob(r) = ResumeJob(s) => r = s
    /\ \A r \in Suspender, k \in Call : ResumeJob(r) # MessageJob(k)
  BY BoundAssumption DEF MessageJob, ResumeJob, Suspender, Job

\* Every value a variable takes is one its column or field can have.
LEMMA TypeInit == Init => TypeOK
  <1> SUFFICES ASSUME Init PROVE TypeOK
    OBVIOUS
  <1>1. pc \in [Job -> PC]
    BY DEF Init, PC
  <1>2. QED
    BY <1>1 DEF Init, TypeOK

LEMMA TypeNext == TypeOK /\ [Next]_vars => TypeOK'
  <1> SUFFICES ASSUME TypeOK, [Next]_vars PROVE TypeOK'
    OBVIOUS
  <1> USE DEF TypeOK, row, Goto
  <1>1. ASSUME NEW j \in Job, Start(j) PROVE TypeOK'
    BY <1>1 DEF Start, PC, Running
  <1>2. ASSUME NEW j \in Job, TurnEnds(j) \/ TurnRaises(j) \/ Suspend(j) \/ Finish(j) \/ Fail(j)
        PROVE TypeOK'
    BY <1>2 DEF TurnEnds, TurnRaises, Suspend, Finish, Fail, PC, Running, Over
  <1>3. ASSUME NEW j \in Job, TurnDelegates(j) PROVE TypeOK'
    <2>1. PICK S \in SUBSET Fresh(j[1]) :
             /\ asked' = [asked EXCEPT ![j] = S]
             /\ live' = [live EXCEPT ![j] = TRUE]
             /\ pend' = [pend EXCEPT ![j] = S]
             /\ left' = [left EXCEPT ![j] = Cardinality(S)]
             /\ todo' = [todo EXCEPT ![j] = S]
      BY <1>3 DEF TurnDelegates
    <2>2. S \subseteq Call
      BY DEF Fresh, Kids
    <2>3. Cardinality(S) \in Int
      BY <2>2, TreeAssumption, FS_Subset, FS_CardinalityType
    <2>4. pc' \in [Job -> PC]
      BY <1>3 DEF TurnDelegates, PC, Running
    <2>5. QED
      BY <1>3, <2>1, <2>2, <2>3, <2>4 DEF TurnDelegates
  <1>4. ASSUME NEW j \in Job, EnqueueChild(j) PROVE TypeOK'
    <2>1. pc' \in [Job -> PC]
      BY <1>4 DEF EnqueueChild, PC, Running
    <2>2. todo' \in [Job -> SUBSET Call]
      BY <1>4 DEF EnqueueChild
    <2>3. QED
      BY <1>4, <2>1, <2>2 DEF EnqueueChild
  <1>5. ASSUME NEW j \in Job, TerminateExecution(j) \/ ReportToNobody(j) PROVE TypeOK'
    BY <1>5 DEF TerminateExecution, ReportToNobody, AfterReport, Outcome, PC, Over
  <1>6. ASSUME NEW j \in Job, Report(j) PROVE TypeOK'
    <2>1. PICK r \in Job : RecordResult(r, j[1]) /\ j[1] \in asked[r]
      BY <1>6 DEF Report
    <2>2. results' \in [Call -> SUBSET Call]
      BY <2>1, JobFacts DEF RecordResult
    <2>3. /\ pend' \in [Job -> SUBSET Call]
          /\ left' \in [Job -> Int]
          /\ live' \in [Job -> BOOLEAN]
      BY <2>1 DEF RecordResult, IsLast
    <2>4. pc' \in [Job -> PC]
      BY <1>6 DEF Report, AfterReport, AfterLastReport, PC, Over, Running
    <2>5. QED
      BY <1>6, <2>2, <2>3, <2>4 DEF Report
  <1>7. ASSUME NEW j \in Job, EnqueueResume(j) PROVE TypeOK'
    <2>1. pc' \in [Job -> PC]
      BY <1>7 DEF EnqueueResume, PC, Over
    <2>2. PICK r \in Suspender : resumes' = [resumes EXCEPT ![r] = @ + 1]
      BY <1>7 DEF EnqueueResume
    <2>3. resumes' \in [Job -> Nat]
      BY <2>2, JobFacts
    <2>4. QED
      BY <1>7, <2>1, <2>3 DEF EnqueueResume
  <1>8. ASSUME NEW j \in Job, Fault(j) PROVE TypeOK'
    <2>1. \E f \in FaultKinds : strikes' = [strikes EXCEPT ![f] = @ + 1]
      BY <1>8 DEF Fault, RedisError, DatabaseError, Cancel, Crash, Strike
    <2>2. strikes' \in [FaultKinds -> Nat]
      BY <2>1
    <2>3. pc' \in [Job -> PC]
      BY <1>8 DEF Fault, RedisError, DatabaseError, Cancel, Crash, AfterRedisError,
                  PC, Over, Running
    <2>4. QED
      BY <1>8, <2>2, <2>3 DEF Fault, RedisError, DatabaseError, Outcome, Cancel, Crash
  <1>9. CASE UNCHANGED vars
    BY <1>9 DEF vars
  <1>10. QED
    BY <1>1, <1>2, <1>3, <1>4, <1>5, <1>6, <1>7, <1>8, <1>9 DEF Next, Step, Turn, Deliver

\* TypeOK holds for every instance.
THEOREM TypeCorrect == Spec => []TypeOK
  BY TypeInit, TypeNext, PTL DEF Spec

-----------------------------------------------------------------------------

LEMMA IInvInit == Init => IInv
  <1> SUFFICES ASSUME Init PROVE IInv
    OBVIOUS
  <1> USE DEF Init
  <1>1. TypeOK
    BY TypeInit
  <1>2. NotYet /\ OneAsker /\ ResumeOnce /\ CheckpointWaits
    BY DEF NotYet, OneAsker, ResumeOnce, CheckpointWaits
  <1>3. NotEnqueued
    BY TreeAssumption, JobFacts DEF NotEnqueued
  <1>4. OneWaker
    BY DEF OneWaker, Waking
  <1>5. NotResumed
    BY TreeAssumption, JobFacts DEF NotResumed
  <1>6. QED
    BY <1>1, <1>2, <1>3, <1>4, <1>5 DEF IInv

\* Most steps only move a job on, to where it delegates and wakes nobody.
LEMMA MoveKeeps ==
  ASSUME IInv, TypeOK', NEW j \in Job, NEW x,
         pc[j] # "none",
         x \notin {"none", "queued", "waking", "wakingFailed"},
         x = "turn" => pc[j] = "queued",
         pc' = [pc EXCEPT ![j] = x],
         UNCHANGED <<todo, row, resumes>>
  PROVE  IInv'
  <1> USE DEF IInv, TypeOK, row
  <1>1. NotYet'
    BY DEF NotYet
  <1>2. OneAsker'
    BY DEF OneAsker
  <1>3. NotEnqueued'
    BY JobFacts DEF NotEnqueued
  <1>4. OneWaker'
    <2>1. \A w \in Job : Waking(w)' => Waking(w)
      BY DEF Waking
    <2>2. QED
      BY <2>1 DEF OneWaker
  <1>5. NotResumed'
    BY JobFacts DEF NotResumed
  <1>6. ResumeOnce' /\ CheckpointWaits'
    BY DEF ResumeOnce, CheckpointWaits
  <1>7. QED
    BY <1>1, <1>2, <1>3, <1>4, <1>5, <1>6

LEMMA DelegatesKeeps ==
  ASSUME IInv, TypeOK', NEW j \in Job, TurnDelegates(j)
  PROVE  IInv'
  <1> USE DEF IInv, TypeOK
  <1>1. PICK S \in SUBSET Fresh(j[1]) :
           /\ S # {}
           /\ asked' = [asked EXCEPT ![j] = S]
           /\ live' = [live EXCEPT ![j] = TRUE]
           /\ pend' = [pend EXCEPT ![j] = S]
           /\ left' = [left EXCEPT ![j] = Cardinality(S)]
           /\ todo' = [todo EXCEPT ![j] = S]
    BY DEF TurnDelegates
  <1>2. /\ pc[j] = "turn"
        /\ pc' = [pc EXCEPT ![j] = "fanout"]
        /\ UNCHANGED resumes
    BY DEF TurnDelegates, Goto
  <1>3. asked[j] = {} /\ ~live[j] /\ resumes[j] = 0
    BY <1>2 DEF NotYet
  <1>4. /\ S \subseteq Call \ {Root}
        /\ \A k \in S : \A r \in Job : k \notin asked[r]
    BY DEF Fresh, Kids
  <1>5. NotYet'
    BY <1>1, <1>2 DEF NotYet
  <1>6. OneAsker'
    BY <1>1, <1>3, <1>4 DEF OneAsker
  <1>7. NotEnqueued'
    <2>1. \A i \in Job : todo'[i] \subseteq asked'[i]
      BY <1>1 DEF NotEnqueued
    <2>2. ASSUME NEW k \in Call \ {Root},
                 \A r \in Job : k \in asked'[r] => k \in todo'[r]
          PROVE  pc'[MessageJob(k)] = "none"
      <3>1. \A r \in Job : k \in asked[r] => k \in todo[r]
        BY <1>1, <1>3, <2>2
      <3>2. pc[MessageJob(k)] = "none"
        BY <3>1 DEF NotEnqueued
      <3>3. QED
        BY <3>2, <1>2, JobFacts
    <2>3. QED
      BY <2>1, <2>2 DEF NotEnqueued
  <1>8. OneWaker'
    <2>1. \A w \in Job : Waking(w)' => Waking(w) /\ w # j
      BY <1>2 DEF Waking
    <2>2. \A w \in Job : Waking(w) => w[1] \notin S
      BY <1>4 DEF OneWaker
    <2>3. \A r \in Job : r # j => asked'[r] = asked[r] /\ live'[r] = live[r]
      BY <1>1
    <2>4. asked'[j] = S
      BY <1>1
    <2>5. \A w \in Job : Waking(w)' => \E r \in Job : w[1] \in asked'[r]
      BY <2>1, <2>3, <1>3 DEF OneWaker
    <2>6. QED
      BY <2>1, <2>2, <2>3, <2>4, <2>5, <1>2 DEF OneWaker
  <1>9. NotResumed'
    BY <1>2, JobFacts DEF NotResumed
  <1>10. ResumeOnce'
    BY <1>1, <1>2, <1>3 DEF ResumeOnce
  <1>11. CheckpointWaits'
    <2>1. Cardinality(S) \in Nat /\ Cardinality(S) # 0
      BY <1>1, <1>4, TreeAssumption, FS_Subset, FS_CardinalityType, FS_EmptySet
    <2>2. \A r \in Job : r # j =>
             asked'[r] = asked[r] /\ live'[r] = live[r] /\ pend'[r] = pend[r] /\ left'[r] = left[r]
      BY <1>1
    <2>3. asked'[j] = S /\ pend'[j] = S /\ left'[j] = Cardinality(S)
      BY <1>1
    <2>4. QED
      BY <2>1, <2>2, <2>3 DEF CheckpointWaits
  <1>12. QED
    BY <1>5, <1>6, <1>7, <1>8, <1>9, <1>10, <1>11

LEMMA EnqueueChildKeeps ==
  ASSUME IInv, TypeOK', NEW j \in Job, EnqueueChild(j)
  PROVE  IInv'
  <1> USE DEF IInv, TypeOK
  <1>1. PICK k \in todo[j] :
           /\ todo' = [todo EXCEPT ![j] = @ \ {k}]
           /\ pc' = [pc EXCEPT ![MessageJob(k)] = "queued",
                               ![j] = IF todo[j] = {k} THEN "suspending" ELSE @]
    BY DEF EnqueueChild
  <1>2. pc[j] = "fanout" /\ UNCHANGED <<asked, live, pend, left, resumes>>
    BY DEF EnqueueChild, row
  <1>3. k \in asked[j] /\ k \in Call \ {Root}
    BY DEF NotEnqueued, OneAsker
  <1>4. pc[MessageJob(k)] = "none"
    BY <1>3 DEF NotEnqueued, OneAsker
  <1>5. \A i \in Job : i # j /\ i # MessageJob(k) => pc'[i] = pc[i]
    BY <1>1
  <1>6. MessageJob(k) \in Job /\ MessageJob(k) # j
    BY <1>2, <1>3, <1>4, JobFacts
  <1>7. pc'[MessageJob(k)] = "queued" /\ pc'[j] \in {"fanout", "suspending"}
    BY <1>1, <1>2, <1>6
  <1>8. NotYet'
    BY <1>2, <1>4, <1>5, <1>6, <1>7 DEF NotYet
  <1>9. OneAsker'
    BY <1>2 DEF OneAsker
  <1>10. NotEnqueued'
    <2>1. \A i \in Job : todo'[i] \subseteq asked'[i]
      BY <1>1, <1>2 DEF NotEnqueued
    <2>2. ASSUME NEW l \in Call \ {Root},
                 \A r \in Job : l \in asked'[r] => l \in todo'[r]
          PROVE  pc'[MessageJob(l)] = "none"
      <3>1. l # k
        BY <1>1, <1>2, <1>3, <2>2
      <3>2. \A r \in Job : l \in asked[r] => l \in todo[r]
        BY <1>1, <1>2, <2>2
      <3>3. pc[MessageJob(l)] = "none"
        BY <3>2 DEF NotEnqueued
      <3>4. MessageJob(l) \in Job /\ MessageJob(l) # MessageJob(k) /\ MessageJob(l) # j
        BY <3>1, <3>3, <1>2, <1>3, JobFacts
      <3>5. QED
        BY <3>3, <3>4, <1>5
    <2>3. QED
      BY <2>1, <2>2 DEF NotEnqueued
  <1>11. OneWaker'
    <2>1. \A w \in Job : Waking(w)' => Waking(w)
      BY <1>5, <1>7 DEF Waking
    <2>2. QED
      BY <2>1, <1>2 DEF OneWaker
  <1>12. NotResumed'
    <2>1. \A r \in Suspender : ResumeJob(r) \in Job /\ ResumeJob(r) # MessageJob(k)
      BY <1>3, JobFacts
    <2>2. \A r \in Suspender : pc[ResumeJob(r)] = "none" => ResumeJob(r) # j
      BY <1>2
    <2>3. QED
      BY <2>1, <2>2, <1>2, <1>5 DEF NotResumed
  <1>13. ResumeOnce' /\ CheckpointWaits'
    BY <1>2 DEF ResumeOnce, CheckpointWaits
  <1>14. QED
    BY <1>8, <1>9, <1>10, <1>11, <1>12, <1>13

LEMMA ReportKeeps ==
  ASSUME IInv, TypeOK', NEW j \in Job, Report(j)
  PROVE  IInv'
  <1> USE DEF IInv, TypeOK
  <1>1. PICK r \in Job :
           /\ j[1] \in asked[r]
           /\ live[r]
           /\ RecordResult(r, j[1])
           /\ pc' = [pc EXCEPT ![j] = IF IsLast(r) THEN AfterLastReport(j) ELSE AfterReport(j)]
    BY DEF Report, Goto
  <1>2. /\ Delivering(j)
        /\ UNCHANGED <<todo, asked, resumes>>
    BY DEF Report
  <1>3. /\ pend' = [pend EXCEPT ![r] = @ \ {j[1]}]
        /\ left' = [left EXCEPT ![r] = @ - 1]
        /\ live' = [live EXCEPT ![r] = ~IsLast(r)]
    BY <1>1 DEF RecordResult
  <1>4. /\ pc[j] \notin {"none", "queued", "turn", "waking", "wakingFailed"}
        /\ pc'[j] \in {"waking", "wakingFailed", "completed", "failed"}
        /\ Waking(j)' => IsLast(r)
        /\ \A i \in Job : i # j => pc'[i] = pc[i]
    BY <1>1, <1>2 DEF Delivering, AfterReport, AfterLastReport, Waking
  <1>5. resumes[r] = 0 /\ \A w \in Job : Waking(w) => w[1] \notin asked[r]
    BY <1>1 DEF ResumeOnce, OneWaker
  <1>6. NotYet'
    BY <1>1, <1>2, <1>3, <1>4 DEF NotYet
  <1>7. OneAsker'
    BY <1>2 DEF OneAsker
  <1>8. NotEnqueued'
    BY <1>2, <1>4, JobFacts DEF NotEnqueued
  <1>9. OneWaker'
    <2>1. \A w \in Job : Waking(w)' => Waking(w) \/ w = j
      BY <1>4 DEF Waking
    <2>2. \A w \in Job : Waking(w)' => \E s \in Job : w[1] \in asked'[s]
      BY <2>1, <1>1, <1>2 DEF OneWaker
    <2>3. \A s \in Job : j[1] \in asked[s] => s = r
      BY <1>1 DEF OneAsker
    <2>4. ASSUME NEW s \in Job, NEW w \in Job, Waking(w)', w[1] \in asked'[s]
          PROVE  ~live'[s] /\ resumes'[s] = 0
      <3>1. CASE w = j
        BY <3>1, <2>3, <2>4, <1>2, <1>3, <1>4, <1>5
      <3>2. CASE w # j
        <4>1. ~live[s] /\ resumes[s] = 0 /\ s # r
          BY <3>2, <2>1, <2>4, <1>1, <1>2 DEF OneWaker
        <4>2. QED
          BY <4>1, <1>2, <1>3
      <3>3. QED
        BY <3>1, <3>2
    <2>5. ASSUME NEW s \in Job, NEW v \in Job, NEW w \in Job,
                 Waking(v)', Waking(w)', v[1] \in asked'[s], w[1] \in asked'[s]
          PROVE  v = w
      <3>1. CASE v = j \/ w = j
        BY <3>1, <2>1, <2>3, <2>5, <1>2, <1>5
      <3>2. CASE v # j /\ w # j
        BY <3>2, <2>1, <2>5, <1>2 DEF OneWaker
      <3>3. QED
        BY <3>1, <3>2
    <2>6. QED
      BY <2>2, <2>4, <2>5 DEF OneWaker
  <1>10. NotResumed'
    BY <1>2, <1>4, JobFacts DEF NotResumed
  <1>11. ResumeOnce'
    BY <1>1, <1>2, <1>3 DEF ResumeOnce
  <1>12. CheckpointWaits'
    <2>1. ASSUME live'[r] PROVE pend'[r] \subseteq asked'[r] /\ left'[r] \in 1..Cardinality(pend'[r])
      <3>1. pend'[r] = pend[r] \ {j[1]} /\ left'[r] = left[r] - 1
        BY <1>3
      <3>2. left[r] \in Int /\ left[r] - 1 > 0
        <4>1. left[r] \in Int
          OBVIOUS
        <4>2. live'[r] = ~IsLast(r)
          BY <1>3
        <4>3. ~(left[r] - 1 <= 0)
          BY <4>2, <2>1 DEF IsLast
        <4>4. QED
          BY <4>1, <4>3
      <3>3. IsFiniteSet(pend[r])
        <4>1. IsFiniteSet(Call) /\ pend[r] \in SUBSET Call
          BY TreeAssumption
        <4>2. QED
          BY ONLY <4>1, FS_Subset
      <3>4. left[r] <= Cardinality(pend[r]) /\ Cardinality(pend[r]) \in Nat
        BY <3>3, <1>1, FS_CardinalityType DEF CheckpointWaits
      <3>5. Cardinality(pend'[r]) \in Nat /\ Cardinality(pend'[r]) >= Cardinality(pend[r]) - 1
        <4>1. /\ IsFiniteSet(pend[r] \ {j[1]})
              /\ Cardinality(pend[r] \ {j[1]}) =
                    IF j[1] \in pend[r] THEN Cardinality(pend[r]) - 1 ELSE Cardinality(pend[r])
          BY ONLY <3>3, FS_RemoveElement
        <4>2. QED
          BY <4>1, <3>1, <3>4, FS_CardinalityType
      <3>6. pend'[r] \subseteq asked'[r]
        BY <3>1, <1>1, <1>2 DEF CheckpointWaits
      <3>7. left'[r] \in 1..Cardinality(pend'[r])
        BY <3>1, <3>2, <3>4, <3>5
      <3>8. QED
        BY <3>6, <3>7
    <2>2. \A s \in Job : s # r =>
             live'[s] = live[s] /\ pend'[s] = pend[s] /\ left'[s] = left[s] /\ asked'[s] = asked[s]
      BY <1>2, <1>3
    <2>3. QED
      BY <2>1, <2>2 DEF CheckpointWaits
  <1>13. QED
    BY <1>6, <1>7, <1>8, <1>9, <1>10, <1>11, <1>12

LEMMA EnqueueResumeKeeps ==
  ASSUME IInv, TypeOK', NEW j \in Job, EnqueueResume(j)
  PROVE  IInv'
  <1> USE DEF IInv, TypeOK
  <1>1. PICK r \in Suspender :
           /\ j[1] \in asked[r]
           /\ resumes' = [resumes EXCEPT ![r] = @ + 1]
           /\ pc' = [pc EXCEPT ![ResumeJob(r)] = "queued",
                               ![j] = IF @ = "waking" THEN "completed" ELSE "failed"]
    BY DEF EnqueueResume
  <1>2. Waking(j) /\ UNCHANGED <<todo, asked, live, pend, left>>
    BY DEF EnqueueResume, row
  <1>3. r \in Job /\ ResumeJob(r) \in Job
    BY JobFacts
  <1>4. ~live[r] /\ resumes[r] = 0
    BY <1>1, <1>2, <1>3 DEF OneWaker
  <1>5. pc[ResumeJob(r)] = "none"
    BY <1>4 DEF NotResumed
  <1>6. j # ResumeJob(r) /\ pc[j] \notin {"none", "queued", "turn"}
    BY <1>2, <1>5 DEF Waking
  <1>7. pc'[ResumeJob(r)] = "queued" /\ pc'[j] \in {"completed", "failed"}
    BY <1>1, <1>3, <1>6
  <1>8. \A i \in Job : i # j /\ i # ResumeJob(r) => pc'[i] = pc[i]
    BY <1>1
  <1>9. pc[r] \notin {"none", "queued", "turn"}
    BY <1>1, <1>3 DEF NotYet
  <1>10. r # ResumeJob(r)
    BY <1>5, <1>9
  <1>11. resumes'[r] = 1 /\ \A s \in Job : s # r => resumes'[s] = resumes[s]
    BY <1>1, <1>3, <1>4
  <1>12. NotYet'
    <2>1. asked[ResumeJob(r)] = {} /\ ~live[ResumeJob(r)] /\ resumes[ResumeJob(r)] = 0
      BY <1>3, <1>5 DEF NotYet
    <2>2. pc'[r] \notin {"none", "queued", "turn"}
      BY <1>3, <1>7, <1>8, <1>9, <1>10
    <2>3. \A i \in Job : i # ResumeJob(r) /\ pc'[i] \in {"none", "queued", "turn"} =>
             pc[i] = pc'[i] /\ i # r
      BY <2>2, <1>7, <1>8
    <2>4. QED
      BY <2>1, <2>3, <1>2, <1>10, <1>11 DEF NotYet
  <1>13. OneAsker'
    BY <1>2 DEF OneAsker
  <1>14. NotEnqueued'
    <2>1. \A k \in Call : MessageJob(k) \in Job /\ MessageJob(k) # ResumeJob(r)
      BY JobFacts
    <2>2. \A k \in Call : pc[MessageJob(k)] = "none" => pc'[MessageJob(k)] = "none"
      BY <2>1, <1>6, <1>8
    <2>3. QED
      BY <2>2, <1>2 DEF NotEnqueued
  <1>15. OneWaker'
    <2>1. \A w \in Job : Waking(w)' => Waking(w) /\ w # j
      BY <1>7, <1>8 DEF Waking
    <2>2. \A w \in Job : Waking(w)' => w[1] \notin asked[r]
      BY <2>1, <1>1, <1>2, <1>3 DEF OneWaker
    <2>3. QED
      BY <2>1, <2>2, <1>2, <1>11 DEF OneWaker
  <1>16. NotResumed'
    <2>1. ASSUME NEW s \in Suspender, resumes'[s] = 0 PROVE pc'[ResumeJob(s)] = "none"
      <3>1. s \in Job /\ ResumeJob(s) \in Job /\ s # r
        BY <2>1, <1>11, JobFacts
      <3>2. ResumeJob(s) # ResumeJob(r)
        BY <3>1, JobFacts
      <3>3. pc[ResumeJob(s)] = "none"
        BY <3>1, <2>1, <1>11 DEF NotResumed
      <3>4. QED
        BY <3>1, <3>2, <3>3, <1>6, <1>8
    <2>2. QED
      BY <2>1 DEF NotResumed
  <1>17. ResumeOnce'
    BY <1>2, <1>4, <1>11 DEF ResumeOnce
  <1>18. CheckpointWaits'
    BY <1>2 DEF CheckpointWaits
  <1>19. QED
    BY <1>12, <1>13, <1>14, <1>15, <1>16, <1>17, <1>18

-----------------------------------------------------------------------------

LEMMA IInvNext == IInv /\ [Next]_vars => IInv'
  <1> SUFFICES ASSUME IInv, [Next]_vars PROVE IInv'
    OBVIOUS
  <1>1. TypeOK'
    BY TypeNext DEF IInv
  <1>2. ASSUME NEW j \in Job, Start(j) PROVE IInv'
    BY <1>1, <1>2, MoveKeeps DEF Start, Goto
  <1>3. ASSUME NEW j \in Job, TurnEnds(j) \/ TurnRaises(j) \/ Suspend(j) \/ Finish(j) \/ Fail(j)
        PROVE IInv'
    <2>1. PICK x \in {"finishing", "failing", "suspended", "reporting", "blaming"} :
             pc' = [pc EXCEPT ![j] = x]
      BY <1>3 DEF TurnEnds, TurnRaises, Suspend, Finish, Fail, Goto
    <2>2. pc[j] # "none" /\ UNCHANGED <<todo, row, resumes>>
      BY <1>3 DEF TurnEnds, TurnRaises, Suspend, Finish, Fail
    <2>3. QED
      BY <1>1, <2>1, <2>2, MoveKeeps
  <1>4. ASSUME NEW j \in Job, TerminateExecution(j) \/ ReportToNobody(j) PROVE IInv'
    <2>1. pc' = [pc EXCEPT ![j] = AfterReport(j)] /\ AfterReport(j) \in {"completed", "failed"}
      BY <1>4 DEF TerminateExecution, ReportToNobody, AfterReport, Goto
    <2>2. pc[j] # "none" /\ UNCHANGED <<todo, row, resumes>>
      BY <1>4 DEF TerminateExecution, ReportToNobody, Delivering
    <2>3. QED
      BY <1>1, <2>1, <2>2, MoveKeeps
  <1>5. ASSUME NEW j \in Job, Fault(j) PROVE IInv'
    <2>1. PICK x \in {"finishing", "failing", "failed", "cancelled", "crashed"} :
             pc' = [pc EXCEPT ![j] = x]
      BY <1>5 DEF Fault, RedisError, DatabaseError, Cancel, Crash, AfterRedisError, Goto
    <2>2. pc[j] # "none" /\ UNCHANGED <<todo, row, resumes>>
      BY <1>5 DEF Fault, RedisError, DatabaseError, Cancel, Crash, Delivering, Running
    <2>3. QED
      BY <1>1, <2>1, <2>2, MoveKeeps
  <1>6. CASE UNCHANGED vars
    BY <1>6 DEF vars, row, IInv, TypeOK, NotYet, OneAsker, NotEnqueued, OneWaker, NotResumed,
                ResumeOnce, CheckpointWaits, Waking
  <1>7. QED
    BY <1>1, <1>2, <1>3, <1>4, <1>5, <1>6, DelegatesKeeps, EnqueueChildKeeps, ReportKeeps,
       EnqueueResumeKeeps
       DEF Next, Step, Turn, Deliver

\* The strengthening of ResumeOnce and CheckpointWaits is an invariant.
THEOREM Inductive == Spec => []IInv
  BY IInvInit, IInvNext, PTL DEF Spec

\* ResumeOnce for every instance: whatever interleaving of reports and
\* faults, a suspension enqueues at most one resume, after its checkpoint.
THEOREM ResumedOnce == Spec => []ResumeOnce
  <1>1. IInv => ResumeOnce
    BY DEF IInv
  <1>2. QED
    BY <1>1, Inductive, PTL

\* CheckpointWaits for every instance: remaining never outlives the calls.
THEOREM WaitingCheckpoint == Spec => []CheckpointWaits
  <1>1. IInv => CheckpointWaits
    BY DEF IInv
  <1>2. QED
    BY <1>1, Inductive, PTL

-----------------------------------------------------------------------------
(***************************************************************************)
(* Who is in charge of a call.  Until a Redis call raises, a call is in    *)
(* the charge of one job, checkpoint or wake-up at a time, from its        *)
(* enqueueing to its report: its checkpoint is told once, and its          *)
(* conversation resumed when all were told.                                *)
(***************************************************************************)

\* A later job of a conversation exists only when its earlier ones have taken
\* their turn.
InTurns ==
    \A i, j \in Job : i[1] = j[1] /\ i[2] < j[2] /\ pc[j] # "none" =>
        pc[i] \notin {"none", "queued", "turn"}

\* A job that enqueues children has one left.
FansOut == \A j \in Job : pc[j] = "fanout" => todo[j] # {}

\* Whoever will see to it that a call is answered: a job that has not handed
\* it over, a checkpoint, or who is about to wake the conversation.
Carrying(j) == pc[j] \in {"queued", "turn", "finishing", "reporting", "failing", "blaming"}
Woken(j) == \E w \in Job : Waking(w) /\ w[1] \in asked[j]
InCharge(j) == Carrying(j) \/ live[j] \/ Woken(j)

\* A job that suspended does not carry on.
NoneCarriesOn == \A j \in Job : Carrying(j) => asked[j] = {}

\* One at a time is in charge of a call, and while one is the call is pending.
OneInCharge ==
    \A i, j \in Job : i[1] = j[1] /\ InCharge(i) /\ InCharge(j) => i = j

ChargeIsPending ==
    \A j \in Job : j[1] # Root /\ InCharge(j) => \E r \in Job : j[1] \in pend[r]

\* The columns of a checkpoint agree, and its row exists as long as it waits.
Counted ==
    \A r \in Job : /\ todo[r] \subseteq pend[r]
                   /\ pend[r] \subseteq asked[r]
                   /\ left[r] = Cardinality(pend[r])
                   /\ live[r] <=> pend[r] # {}

Persisted == \A r \in Job : asked[r] \ pend[r] \subseteq results[r[1]]

\* When the row of the root is terminal, nobody is in charge of the root but a
\* job whose delivery raised.
RootEnded ==
    execution # "PENDING" =>
        \A j \in Job : j[1] = Root /\ InCharge(j) =>
            /\ ~Quiet({"db"})
            /\ pc[j] \in {"failing", "blaming"}

Orderly ==
    /\ NoneCarriesOn
    /\ OneInCharge
    /\ ChargeIsPending
    /\ Counted
    /\ Persisted
    /\ RootEnded

\* Absent faults somebody is in charge of each call that is pending and has
\* been enqueued.
NoneForgotten ==
    \A r \in Job : \A k \in pend[r] :
        k \in todo[r] \/ \E j \in Job : j[1] = k /\ InCharge(j)

CInv ==
    /\ IInv
    /\ InTurns
    /\ FansOut
    /\ Quiet({"redis"}) => Orderly
    /\ Quiet(AllFaults) => NoneForgotten

\* The steps that only move a job on.
Moving(j) ==
    \/ Start(j) \/ TurnEnds(j) \/ TurnRaises(j) \/ Suspend(j) \/ Finish(j) \/ Fail(j)
    \/ TerminateExecution(j) \/ ReportToNobody(j) \/ Fault(j)

LEMMA MovingMoves ==
  ASSUME NEW j \in Job, Moving(j)
  PROVE  /\ UNCHANGED <<todo, asked, live, pend, left, results, resumes>>
         /\ pc[j] # "none"
         /\ \E x : /\ x \notin {"none", "queued", "waking", "wakingFailed", "fanout"}
                   /\ x = "turn" => pc[j] = "queued"
                   /\ pc' = [pc EXCEPT ![j] = x]
  <1> USE DEF row, Goto
  <1>1. CASE Start(j) \/ TurnEnds(j) \/ TurnRaises(j) \/ Suspend(j) \/ Finish(j) \/ Fail(j)
    BY <1>1 DEF Start, TurnEnds, TurnRaises, Suspend, Finish, Fail
  <1>2. CASE TerminateExecution(j) \/ ReportToNobody(j)
    <2>1. AfterReport(j) \in {"completed", "failed"}
      BY DEF AfterReport
    <2>2. QED
      BY <1>2, <2>1 DEF TerminateExecution, ReportToNobody, Delivering
  <1>3. CASE Fault(j)
    <2>1. AfterRedisError(j) \in {"crashed", "finishing", "cancelled", "failed", "failing"}
      BY DEF AfterRedisError
    <2>2. QED
      BY <1>3, <2>1 DEF Fault, RedisError, DatabaseError, Cancel, Crash, Delivering, Running
  <1>4. QED
    BY <1>1, <1>2, <1>3 DEF Moving

LEMMA StepCases ==
  ASSUME Next
  PROVE  \E j \in Job : Moving(j) \/ TurnDelegates(j) \/ EnqueueChild(j) \/ Report(j)
                        \/ EnqueueResume(j)
  BY DEF Next, Step, Turn, Deliver, Moving

\* Faults are counted and never forgotten.
LEMMA QuietBefore ==
  ASSUME TypeOK, [Next]_vars, NEW F, Quiet(F)'
  PROVE  Quiet(F)
  <1>1. \/ UNCHANGED strikes
        \/ \E f \in FaultKinds : strikes' = [strikes EXCEPT ![f] = @ + 1]
    BY DEF Next, vars, Step, Turn, Deliver, Fault, Start, TurnEnds, TurnRaises, TurnDelegates,
           EnqueueChild, Suspend, Finish, Fail, TerminateExecution, Report, ReportToNobody,
           EnqueueResume, RedisError, DatabaseError, Cancel, Crash, Strike
  <1>2. \A f \in FaultKinds : strikes[f] \in Nat /\ (strikes'[f] = 0 => strikes[f] = 0)
    BY <1>1 DEF TypeOK
  <1>3. QED
    BY <1>2 DEF Quiet

LEMMA StrikeIsLoud ==
  ASSUME TypeOK, NEW f, Strike(f), NEW F, f \in F
  PROVE  ~Quiet(F)'
  <1>1. f \in FaultKinds /\ strikes[f] \in Nat /\ strikes'[f] = strikes[f] + 1
    BY DEF Strike, TypeOK
  <1>2. strikes'[f] # 0 /\ f \in F \cap FaultKinds
    BY <1>1
  <1>3. QED
    BY <1>2 DEF Quiet

-----------------------------------------------------------------------------

\* A step of one job that neither enqueues nor returns to a turn.
LEMMA MoveInTurns ==
  ASSUME TypeOK, InTurns, NEW j \in Job, NEW x,
         pc[j] # "none",
         x \notin {"none", "queued"},
         x = "turn" => pc[j] = "queued",
         pc' = [pc EXCEPT ![j] = x]
  PROVE  InTurns'
  <1>1. /\ pc'[j] = x
        /\ \A i \in Job : i # j => pc'[i] = pc[i]
    BY DEF TypeOK
  <1>2. \A i \in Job : pc'[i] # "none" => pc[i] # "none"
    BY <1>1
  <1>3. \A i \in Job : pc'[i] \in {"none", "queued", "turn"} => pc[i] \in {"none", "queued", "turn"}
    BY <1>1
  <1>4. QED
    BY <1>2, <1>3 DEF InTurns

LEMMA EnqueueInTurns ==
  ASSUME TypeOK, InTurns, NEW j \in Job, NEW n \in Job, NEW x,
         n # j, pc[n] = "none",
         pc[j] # "none",
         x \notin {"none", "queued", "turn"},
         \A i \in Job : i[1] = n[1] /\ i[2] < n[2] => pc[i] \notin {"none", "queued", "turn"},
         pc' = [pc EXCEPT ![n] = "queued", ![j] = x]
  PROVE  InTurns'
  <1>1. /\ pc'[j] = x
        /\ pc'[n] = "queued"
        /\ \A i \in Job : i # j /\ i # n => pc'[i] = pc[i]
    BY DEF TypeOK
  <1>2. SUFFICES ASSUME NEW i \in Job, NEW k \in Job,
                        i[1] = k[1], i[2] < k[2], pc'[k] # "none"
                 PROVE  pc'[i] \notin {"none", "queued", "turn"}
    BY DEF InTurns
  <1>3. CASE k = n
    <2>1. i # n
      BY <1>2, <1>3 DEF Job
    <2>2. QED
      BY <1>1, <1>2, <1>3, <2>1
  <1>4. CASE k # n
    <2>1. pc[k] # "none"
      BY <1>1, <1>2, <1>4
    <2>2. pc[i] \notin {"none", "queued", "turn"}
      BY <1>2, <2>1 DEF InTurns
    <2>3. QED
      BY <1>1, <2>2
  <1>5. QED
    BY <1>3, <1>4

\* What enqueuing a child does.
LEMMA EnqueueChildFacts ==
  ASSUME IInv, NEW j \in Job, EnqueueChild(j)
  PROVE  \E k \in todo[j] :
            /\ k \in asked[j] /\ k \in Call \ {Root}
            /\ pc[j] = "fanout"
            /\ MessageJob(k) \in Job /\ MessageJob(k) # j
            /\ pc[MessageJob(k)] = "none"
            /\ pc' = [pc EXCEPT ![MessageJob(k)] = "queued",
                                ![j] = IF todo[j] = {k} THEN "suspending" ELSE "fanout"]
            /\ todo' = [todo EXCEPT ![j] = @ \ {k}]
            /\ UNCHANGED <<asked, live, pend, left, results, resumes, execution, strikes>>
  <1>1. PICK k \in todo[j] :
           /\ todo' = [todo EXCEPT ![j] = @ \ {k}]
           /\ pc' = [pc EXCEPT ![MessageJob(k)] = "queued",
                               ![j] = IF todo[j] = {k} THEN "suspending" ELSE @]
    BY DEF EnqueueChild
  <1>2. /\ pc[j] = "fanout"
        /\ UNCHANGED <<asked, live, pend, left, results, resumes, execution, strikes>>
    BY DEF EnqueueChild, row
  <1>3. k \in asked[j] /\ k \in Call \ {Root}
    BY DEF IInv, NotEnqueued, OneAsker
  <1>4. pc[MessageJob(k)] = "none"
    BY <1>3 DEF IInv, NotEnqueued, OneAsker
  <1>5. MessageJob(k) \in Job /\ MessageJob(k) # j
    BY <1>2, <1>3, <1>4, JobFacts
  <1>6. pc' = [pc EXCEPT ![MessageJob(k)] = "queued",
                         ![j] = IF todo[j] = {k} THEN "suspending" ELSE "fanout"]
    BY <1>1, <1>2, <1>5 DEF IInv, TypeOK
  <1>7. QED
    BY <1>1, <1>2, <1>3, <1>4, <1>5, <1>6

\* What enqueuing a resume does.
LEMMA EnqueueResumeFacts ==
  ASSUME IInv, NEW j \in Job, EnqueueResume(j)
  PROVE  \E r \in Suspender :
            /\ r \in Job /\ ResumeJob(r) \in Job
            /\ j[1] \in asked[r]
            /\ Waking(j)
            /\ ~live[r] /\ resumes[r] = 0
            /\ pc[ResumeJob(r)] = "none" /\ j # ResumeJob(r)
            /\ pc' = [pc EXCEPT ![ResumeJob(r)] = "queued",
                                ![j] = IF pc[j] = "waking" THEN "completed" ELSE "failed"]
            /\ resumes' = [resumes EXCEPT ![r] = 1]
            /\ UNCHANGED <<todo, asked, live, pend, left, results, execution, strikes>>
  <1>1. PICK r \in Suspender :
           /\ j[1] \in asked[r]
           /\ resumes' = [resumes EXCEPT ![r] = @ + 1]
           /\ pc' = [pc EXCEPT ![ResumeJob(r)] = "queued",
                               ![j] = IF @ = "waking" THEN "completed" ELSE "failed"]
    BY DEF EnqueueResume
  <1>2. Waking(j) /\ UNCHANGED <<todo, asked, live, pend, left, results, execution, strikes>>
    BY DEF EnqueueResume, row
  <1>3. r \in Job /\ ResumeJob(r) \in Job
    BY JobFacts
  <1>4. ~live[r] /\ resumes[r] = 0
    BY <1>1, <1>2, <1>3 DEF IInv, OneWaker
  <1>5. pc[ResumeJob(r)] = "none"
    BY <1>4 DEF IInv, NotResumed
  <1>6. j # ResumeJob(r)
    BY <1>2, <1>5 DEF Waking
  <1>7. pc' = [pc EXCEPT ![ResumeJob(r)] = "queued",
                         ![j] = IF pc[j] = "waking" THEN "completed" ELSE "failed"]
    BY <1>1, <1>3, <1>6 DEF IInv, TypeOK
  <1>8. resumes' = [resumes EXCEPT ![r] = 1]
    BY <1>1, <1>3, <1>4 DEF IInv, TypeOK
  <1>9. QED
    BY <1>1, <1>2, <1>3, <1>4, <1>5, <1>6, <1>7, <1>8

LEMMA InTurnsNext == IInv /\ InTurns /\ [Next]_vars => InTurns'
  <1> SUFFICES ASSUME IInv, InTurns, [Next]_vars PROVE InTurns'
    OBVIOUS
  <1>0. TypeOK
    BY DEF IInv
  <1>1. ASSUME NEW j \in Job, Moving(j) PROVE InTurns'
    BY <1>0, <1>1, MovingMoves, MoveInTurns
  <1>2. ASSUME NEW j \in Job, TurnDelegates(j) PROVE InTurns'
    <2>1. pc[j] = "turn" /\ pc' = [pc EXCEPT ![j] = "fanout"]
      BY <1>2 DEF TurnDelegates, Goto
    <2>2. QED
      BY <2>1, <1>0, MoveInTurns
  <1>3. ASSUME NEW j \in Job, Report(j) PROVE InTurns'
    <2>1. PICK x \in {"waking", "wakingFailed", "completed", "failed"} :
             pc' = [pc EXCEPT ![j] = x]
      BY <1>3 DEF Report, Goto, AfterReport, AfterLastReport
    <2>2. pc[j] # "none"
      BY <1>3 DEF Report, Delivering
    <2>3. QED
      BY <2>1, <2>2, <1>0, MoveInTurns
  <1>4. ASSUME NEW j \in Job, EnqueueChild(j) PROVE InTurns'
    <2>1. PICK k \in todo[j] :
             /\ k \in Call
             /\ pc[j] = "fanout"
             /\ MessageJob(k) \in Job /\ MessageJob(k) # j
             /\ pc[MessageJob(k)] = "none"
             /\ pc' = [pc EXCEPT ![MessageJob(k)] = "queued",
                                 ![j] = IF todo[j] = {k} THEN "suspending" ELSE "fanout"]
      BY <1>4, EnqueueChildFacts
    <2>2. \A i \in Job : ~(i[2] < MessageJob(k)[2])
      BY BoundAssumption DEF Job, MessageJob
    <2>3. QED
      BY <2>1, <2>2, <1>0, EnqueueInTurns
  <1>5. ASSUME NEW j \in Job, EnqueueResume(j) PROVE InTurns'
    <2>1. PICK r \in Suspender :
             /\ r \in Job /\ ResumeJob(r) \in Job
             /\ j[1] \in asked[r]
             /\ Waking(j)
             /\ pc[ResumeJob(r)] = "none" /\ j # ResumeJob(r)
             /\ pc' = [pc EXCEPT ![ResumeJob(r)] = "queued",
                                 ![j] = IF pc[j] = "waking" THEN "completed" ELSE "failed"]
      BY <1>5, EnqueueResumeFacts
    <2>2. pc[r] \notin {"none", "queued", "turn"}
      BY <2>1 DEF IInv, NotYet
    <2>3. ASSUME NEW i \in Job, i[1] = ResumeJob(r)[1], i[2] < ResumeJob(r)[2]
          PROVE  pc[i] \notin {"none", "queued", "turn"}
      <3>1. i[1] = r[1] /\ (i[2] < r[2] \/ i = r)
        BY <2>1, <2>3, BoundAssumption DEF Job, ResumeJob
      <3>2. QED
        BY <3>1, <2>1, <2>2 DEF InTurns
    <2>4. pc[j] # "none"
      BY <2>1 DEF Waking
    <2>5. PICK x \in {"completed", "failed"} :
             pc' = [pc EXCEPT ![ResumeJob(r)] = "queued", ![j] = x]
      BY <2>1
    <2>6. QED
      BY <2>1, <2>3, <2>4, <2>5, <1>0, EnqueueInTurns
  <1>6. CASE UNCHANGED vars
    BY <1>6 DEF vars, InTurns
  <1>7. QED
    BY <1>1, <1>2, <1>3, <1>4, <1>5, <1>6, StepCases

LEMMA FansOutNext == IInv /\ FansOut /\ [Next]_vars => FansOut'
  <1> SUFFICES ASSUME IInv, FansOut, [Next]_vars PROVE FansOut'
    OBVIOUS
  <1> USE DEF FansOut, IInv, TypeOK
  <1>1. ASSUME NEW j \in Job, Moving(j) PROVE FansOut'
    BY <1>1, MovingMoves
  <1>2. ASSUME NEW j \in Job, TurnDelegates(j) PROVE FansOut'
    BY <1>2 DEF TurnDelegates, Goto
  <1>3. ASSUME NEW j \in Job, Report(j) PROVE FansOut'
    BY <1>3 DEF Report, Goto, AfterReport, AfterLastReport
  <1>4. ASSUME NEW j \in Job, EnqueueChild(j) PROVE FansOut'
    BY <1>4, EnqueueChildFacts
  <1>5. ASSUME NEW j \in Job, EnqueueResume(j) PROVE FansOut'
    BY <1>5, EnqueueResumeFacts
  <1>6. CASE UNCHANGED vars
    BY <1>6 DEF vars
  <1>7. QED
    BY <1>1, <1>2, <1>3, <1>4, <1>5, <1>6, StepCases

-----------------------------------------------------------------------------

\* A call that its suspension has not enqueued has no job at work and nothing
\* in its charge.
LEMMA NotStarted ==
  ASSUME IInv, InTurns, NEW k \in Call \ {Root},
         \A r \in Job : k \in asked[r] => k \in todo[r]
  PROVE  \A j \in Job : j[1] = k => pc[j] = "none" /\ asked[j] = {} /\ ~InCharge(j)
  <1>1. pc[MessageJob(k)] = "none" /\ MessageJob(k) \in Job
    BY JobFacts DEF IInv, NotEnqueued
  <1>2. ASSUME NEW j \in Job, j[1] = k PROVE pc[j] = "none"
    <2>1. j = MessageJob(k) \/ MessageJob(k)[2] < j[2]
      BY <1>2, BoundAssumption DEF Job, MessageJob
    <2>2. MessageJob(k)[1] = k
      BY DEF MessageJob
    <2>3. QED
      BY <1>1, <1>2, <2>1, <2>2 DEF InTurns
  <1>3. ASSUME NEW j \in Job, j[1] = k PROVE asked[j] = {} /\ ~InCharge(j)
    <2>1. asked[j] = {} /\ ~live[j]
      BY <1>2, <1>3 DEF IInv, NotYet
    <2>2. QED
      BY <1>2, <1>3, <2>1 DEF InCharge, Carrying, Woken
  <1>4. QED
    BY <1>2, <1>3

\* A job that carries a call has neither a checkpoint nor a wake-up.
LEMMA CarriesAlone ==
  ASSUME Orderly, NEW j \in Job, Carrying(j)
  PROVE  asked[j] = {} /\ ~live[j] /\ ~Woken(j)
  BY DEF Orderly, NoneCarriesOn, Counted, Woken

\* Without a Redis error a job that moves on takes no charge.
LEMMA MovingTakesNone ==
  ASSUME TypeOK, NEW j \in Job, Moving(j), Quiet({"redis"})'
  PROVE  \A i \in Job : /\ Carrying(i)' => Carrying(i)
                        /\ InCharge(i)' => InCharge(i)
  <1>1. ~RedisError(j)
    BY StrikeIsLoud DEF RedisError
  <1>2. /\ UNCHANGED <<asked, live>>
        /\ \E x : /\ x \notin {"waking", "wakingFailed"}
                  /\ pc' = [pc EXCEPT ![j] = x]
    BY MovingMoves
  <1>3. \A i \in Job : i # j => pc'[i] = pc[i]
    BY <1>2 DEF TypeOK
  <1>4. Carrying(j)' => Carrying(j)
    BY <1>1 DEF Moving, Fault, Start, TurnEnds, TurnRaises, Suspend, Finish, Fail,
                TerminateExecution, ReportToNobody, DatabaseError, Cancel, Crash, Delivering,
                AfterReport, Carrying, Goto, TypeOK
  <1>5. \A i \in Job : Carrying(i)' => Carrying(i)
    BY <1>3, <1>4 DEF Carrying
  <1>6. \A i \in Job : Waking(i)' => Waking(i)
    BY <1>2, <1>3 DEF Waking, TypeOK
  <1>7. QED
    BY <1>2, <1>5, <1>6 DEF InCharge, Woken

LEMMA MovingRootEnded ==
  ASSUME IInv, Orderly, NEW j \in Job, Moving(j), [Next]_vars, Quiet({"redis"})'
  PROVE  RootEnded'
  <1> USE DEF IInv, TypeOK
  <1>1. \A i \in Job : InCharge(i)' => InCharge(i)
    BY MovingTakesNone
  <1>2. /\ UNCHANGED <<asked, live>>
        /\ \A i \in Job : i # j => pc'[i] = pc[i]
    BY MovingMoves
  <1>3. ASSUME Carrying(j), ~Carrying(j)' PROVE ~InCharge(j)'
    BY <1>2, <1>3, CarriesAlone DEF InCharge, Woken
  <1>4. CASE Delivering(j) /\ execution' # execution
    <2>1. Carrying(j) /\ InCharge(j) /\ j[1] = Root
      BY <1>4 DEF Delivering, Carrying, InCharge, Moving, Fault, Start, TurnEnds, TurnRaises,
                  Suspend, Finish, Fail, TerminateExecution, ReportToNobody, RedisError,
                  DatabaseError, Cancel, Crash
    <2>2. \A i \in Job : i[1] = Root /\ InCharge(i)' => i = j
      BY <1>1, <2>1 DEF Orderly, OneInCharge
    <2>3. Carrying(j)' => pc'[j] = "failing" /\ DatabaseError(j)
      BY <1>4 DEF Delivering, Moving, Fault, Start, TurnEnds, TurnRaises, Suspend, Finish, Fail,
                  TerminateExecution, ReportToNobody, RedisError, DatabaseError, Cancel, Crash,
                  AfterReport, Goto, Carrying
    <2>4. DatabaseError(j) => ~Quiet({"db"})'
      BY StrikeIsLoud DEF DatabaseError
    <2>5. QED
      BY <1>3, <2>1, <2>2, <2>3, <2>4 DEF RootEnded
  <1>5. CASE ~(Delivering(j) /\ execution' # execution)
    <2>1. execution' = execution
      BY <1>5 DEF Moving, Fault, Start, TurnEnds, TurnRaises, Suspend, Finish, Fail,
                  TerminateExecution, ReportToNobody, RedisError, DatabaseError, Cancel, Crash
    <2>2. SUFFICES ASSUME execution # "PENDING", NEW i \in Job, i[1] = Root, InCharge(i)'
                   PROVE  ~Quiet({"db"})' /\ pc'[i] \in {"failing", "blaming"}
      BY <2>1 DEF RootEnded
    <2>3. ~Quiet({"db"}) /\ pc[i] \in {"failing", "blaming"}
      BY <1>1, <2>2 DEF Orderly, RootEnded
    <2>4. ~Quiet({"db"})'
      BY <2>3, QuietBefore
    <2>5. CASE i = j
      <3>1. Carrying(j)'
        BY <1>3, <2>2, <2>3, <2>5 DEF Carrying
      <3>2. Carrying(j)' /\ pc[j] \in {"failing", "blaming"} => pc'[j] \in {"failing", "blaming"}
        <4>1. ~RedisError(j)
          BY StrikeIsLoud DEF RedisError
        <4>2. QED
          BY <4>1 DEF Moving, Fault, Start, TurnEnds, TurnRaises, Suspend, Finish, Fail,
                  TerminateExecution, ReportToNobody, DatabaseError, Cancel, Crash,
                  AfterReport, Delivering, Goto, Carrying
      <3>3. QED
        BY <2>3, <2>4, <2>5, <3>1, <3>2
    <2>6. QED
      BY <1>2, <2>3, <2>4, <2>5
  <1>6. QED
    BY <1>4, <1>5

LEMMA MovingOrderly ==
  ASSUME IInv, Orderly, NEW j \in Job, Moving(j), [Next]_vars, Quiet({"redis"})'
  PROVE  Orderly'
  <1>1. UNCHANGED <<todo, asked, live, pend, left, results>>
    BY MovingMoves
  <1>2. \A i \in Job : (Carrying(i)' => Carrying(i)) /\ (InCharge(i)' => InCharge(i))
    BY MovingTakesNone DEF IInv
  <1>3. NoneCarriesOn'
    BY <1>1, <1>2 DEF Orderly, NoneCarriesOn
  <1>4. OneInCharge'
    BY <1>2 DEF Orderly, OneInCharge
  <1>5. ChargeIsPending'
    BY <1>1, <1>2 DEF Orderly, ChargeIsPending
  <1>6. Counted' /\ Persisted'
    BY <1>1 DEF Orderly, Counted, Persisted
  <1>7. RootEnded'
    BY MovingRootEnded
  <1>8. QED
    BY <1>3, <1>4, <1>5, <1>6, <1>7 DEF Orderly

-----------------------------------------------------------------------------

\* Delegating hands a call over from the job to its checkpoint.
LEMMA DelegatesFacts ==
  ASSUME IInv, InTurns, NEW j \in Job, TurnDelegates(j)
  PROVE  \E S \in SUBSET (Call \ {Root}) :
            /\ S # {}
            /\ \A k \in S : \A r \in Job : k \notin asked[r]
            /\ \A i \in Job : i[1] \in S => pc[i] = "none" /\ ~InCharge(i)
            /\ pc[j] = "turn" /\ asked[j] = {} /\ ~live[j] /\ resumes[j] = 0
            /\ pc' = [pc EXCEPT ![j] = "fanout"]
            /\ asked' = [asked EXCEPT ![j] = S]
            /\ live' = [live EXCEPT ![j] = TRUE]
            /\ pend' = [pend EXCEPT ![j] = S]
            /\ left' = [left EXCEPT ![j] = Cardinality(S)]
            /\ todo' = [todo EXCEPT ![j] = S]
            /\ UNCHANGED <<results, resumes, execution, strikes>>
  <1>1. PICK S \in SUBSET Fresh(j[1]) :
           /\ S # {}
           /\ asked' = [asked EXCEPT ![j] = S]
           /\ live' = [live EXCEPT ![j] = TRUE]
           /\ pend' = [pend EXCEPT ![j] = S]
           /\ left' = [left EXCEPT ![j] = Cardinality(S)]
           /\ todo' = [todo EXCEPT ![j] = S]
    BY DEF TurnDelegates
  <1>2. /\ pc[j] = "turn"
        /\ pc' = [pc EXCEPT ![j] = "fanout"]
        /\ UNCHANGED <<results, resumes, execution, strikes>>
    BY DEF TurnDelegates, Goto
  <1>3. asked[j] = {} /\ ~live[j] /\ resumes[j] = 0
    BY <1>2 DEF IInv, NotYet
  <1>4. S \in SUBSET (Call \ {Root}) /\ \A k \in S : \A r \in Job : k \notin asked[r]
    BY DEF Fresh, Kids
  <1>5. \A i \in Job : i[1] \in S => pc[i] = "none" /\ ~InCharge(i)
    BY <1>4, NotStarted
  <1>6. QED
    BY <1>1, <1>2, <1>3, <1>4, <1>5

LEMMA DelegatesOrderly ==
  ASSUME IInv, InTurns, Orderly, NEW j \in Job, TurnDelegates(j)
  PROVE  /\ Orderly'
         /\ \A i \in Job : InCharge(i)' <=> InCharge(i)
  <1> USE DEF IInv, TypeOK
  <1>1. PICK S \in SUBSET (Call \ {Root}) :
            /\ S # {}
            /\ \A k \in S : \A r \in Job : k \notin asked[r]
            /\ \A i \in Job : i[1] \in S => pc[i] = "none" /\ ~InCharge(i)
            /\ pc[j] = "turn" /\ asked[j] = {} /\ ~live[j] /\ resumes[j] = 0
            /\ pc' = [pc EXCEPT ![j] = "fanout"]
            /\ asked' = [asked EXCEPT ![j] = S]
            /\ live' = [live EXCEPT ![j] = TRUE]
            /\ pend' = [pend EXCEPT ![j] = S]
            /\ left' = [left EXCEPT ![j] = Cardinality(S)]
            /\ todo' = [todo EXCEPT ![j] = S]
            /\ UNCHANGED <<results, resumes, execution, strikes>>
    BY DelegatesFacts
  <1>2. /\ pc'[j] = "fanout" /\ asked'[j] = S /\ live'[j] = TRUE /\ pend'[j] = S
        /\ left'[j] = Cardinality(S) /\ todo'[j] = S
    BY <1>1
  <1>3. \A i \in Job : i # j =>
           /\ pc'[i] = pc[i] /\ asked'[i] = asked[i] /\ live'[i] = live[i]
           /\ pend'[i] = pend[i] /\ left'[i] = left[i] /\ todo'[i] = todo[i]
    BY <1>1
  <1>4. \A w \in Job : Waking(w)' <=> Waking(w)
    BY <1>1, <1>2, <1>3 DEF Waking
  <1>5. ~Woken(j)' /\ ~Woken(j)
    BY <1>1, <1>2, <1>4 DEF Woken, Waking
  <1>6. \A i \in Job : i # j => (Woken(i)' <=> Woken(i))
    BY <1>3, <1>4 DEF Woken
  <1>7. \A i \in Job : InCharge(i)' <=> InCharge(i)
    BY <1>1, <1>2, <1>3, <1>5, <1>6 DEF InCharge, Carrying
  <1>8. NoneCarriesOn'
    BY <1>2, <1>3 DEF Orderly, NoneCarriesOn, Carrying
  <1>9. OneInCharge'
    BY <1>7 DEF Orderly, OneInCharge
  <1>10. ChargeIsPending'
    <2>1. pend[j] = {}
      BY <1>1 DEF Orderly, Counted
    <2>2. \A r \in Job, k \in Call : k \in pend[r] => k \in pend'[r]
      BY <2>1, <1>3
    <2>3. QED
      BY <2>2, <1>7, JobFacts DEF Orderly, ChargeIsPending
  <1>11. Counted'
    BY <1>1, <1>2, <1>3 DEF Orderly, Counted
  <1>12. Persisted'
    BY <1>1, <1>2, <1>3 DEF Orderly, Persisted
  <1>13. RootEnded'
    <2>1. SUFFICES ASSUME execution # "PENDING", NEW i \in Job, i[1] = Root, InCharge(i)
                   PROVE  ~Quiet({"db"})' /\ pc'[i] \in {"failing", "blaming"}
      BY <1>1, <1>7 DEF RootEnded
    <2>2. ~Quiet({"db"}) /\ pc[i] \in {"failing", "blaming"}
      BY <2>1 DEF Orderly, RootEnded
    <2>3. QED
      BY <2>2, <1>1, <1>3 DEF Quiet
  <1>14. QED
    BY <1>7, <1>8, <1>9, <1>10, <1>11, <1>12, <1>13 DEF Orderly

LEMMA EnqueueChildOrderly ==
  ASSUME IInv, InTurns, Orderly, NEW j \in Job, EnqueueChild(j)
  PROVE  Orderly'
  <1> USE DEF IInv, TypeOK
  <1>1. PICK k \in todo[j] :
            /\ k \in asked[j] /\ k \in Call \ {Root}
            /\ pc[j] = "fanout"
            /\ MessageJob(k) \in Job /\ MessageJob(k) # j
            /\ pc[MessageJob(k)] = "none"
            /\ pc' = [pc EXCEPT ![MessageJob(k)] = "queued",
                                ![j] = IF todo[j] = {k} THEN "suspending" ELSE "fanout"]
            /\ todo' = [todo EXCEPT ![j] = @ \ {k}]
            /\ UNCHANGED <<asked, live, pend, left, results, resumes, execution, strikes>>
    BY EnqueueChildFacts
  <1> DEFINE n == MessageJob(k)
  <1>2. /\ n \in Job /\ n[1] = k /\ n # j
        /\ pc'[n] = "queued" /\ pc'[j] \in {"fanout", "suspending"}
        /\ \A i \in Job : i # j /\ i # n => pc'[i] = pc[i]
    BY <1>1 DEF MessageJob
  <1>3. \A i \in Job : i[1] = k => ~InCharge(i) /\ asked[i] = {}
    BY <1>1, NotStarted DEF OneAsker
  <1>4. \A w \in Job : Waking(w)' => Waking(w)
    BY <1>2 DEF Waking
  <1>5. \A i \in Job : i # n => (InCharge(i)' => InCharge(i)) /\ (Carrying(i)' => Carrying(i))
    BY <1>1, <1>2, <1>4 DEF InCharge, Carrying, Woken
  <1> HIDE DEF n
  <1>6. NoneCarriesOn'
    BY <1>1, <1>2, <1>3, <1>5 DEF Orderly, NoneCarriesOn
  <1>7. OneInCharge'
    BY <1>2, <1>3, <1>5 DEF Orderly, OneInCharge
  <1>8. ChargeIsPending'
    <2>1. k \in pend[j]
      BY <1>1 DEF Orderly, Counted
    <2>2. QED
      BY <2>1, <1>1, <1>2, <1>5 DEF Orderly, ChargeIsPending
  <1>9. Counted' /\ Persisted'
    BY <1>1 DEF Orderly, Counted, Persisted
  <1>10. RootEnded'
    <2>1. SUFFICES ASSUME execution # "PENDING", NEW i \in Job, i[1] = Root, InCharge(i)'
                   PROVE  ~Quiet({"db"})' /\ pc'[i] \in {"failing", "blaming"}
      BY <1>1 DEF RootEnded
    <2>2. i # n
      BY <2>1, <1>1, <1>2
    <2>3. ~Quiet({"db"}) /\ pc[i] \in {"failing", "blaming"}
      BY <2>1, <2>2, <1>5 DEF Orderly, RootEnded
    <2>4. QED
      BY <2>2, <2>3, <1>1, <1>2 DEF Quiet
  <1>11. QED
    BY <1>6, <1>7, <1>8, <1>9, <1>10 DEF Orderly

-----------------------------------------------------------------------------

\* Reporting ends the charge of the job that reports, and takes its call off
\* the checkpoint; the last report deletes the row and wakes the conversation.
LEMMA ReportFacts ==
  ASSUME IInv, InTurns, Orderly, NEW j \in Job, Report(j)
  PROVE  \E r \in Job :
            /\ j[1] \in pend[r] /\ j[1] \in asked[r] /\ j[1] \notin todo[r] /\ j[1] # Root
            /\ live[r] /\ resumes[r] = 0 /\ r # j
            /\ Delivering(j)
            /\ pend' = [pend EXCEPT ![r] = @ \ {j[1]}]
            /\ left' = [left EXCEPT ![r] = @ - 1]
            /\ left'[r] = Cardinality(pend'[r])
            /\ live' = [live EXCEPT ![r] = pend'[r] # {}]
            /\ results' = [results EXCEPT ![r[1]] = @ \cup {j[1]}]
            /\ \E x : /\ pc' = [pc EXCEPT ![j] = x]
                      /\ IF pend'[r] = {} THEN x \in {"waking", "wakingFailed"}
                                          ELSE x \in {"completed", "failed"}
            /\ UNCHANGED <<todo, asked, resumes, execution, strikes>>
  <1> USE DEF IInv, TypeOK
  <1>1. PICK r \in Job :
           /\ j[1] \in asked[r]
           /\ live[r]
           /\ RecordResult(r, j[1])
           /\ pc' = [pc EXCEPT ![j] = IF IsLast(r) THEN AfterLastReport(j) ELSE AfterReport(j)]
    BY DEF Report, Goto
  <1>2. /\ Delivering(j) /\ j[1] # Root
        /\ UNCHANGED <<todo, asked, resumes, execution, strikes>>
    BY DEF Report
  <1>3. /\ pend' = [pend EXCEPT ![r] = @ \ {j[1]}]
        /\ left' = [left EXCEPT ![r] = @ - 1]
        /\ live' = [live EXCEPT ![r] = ~IsLast(r)]
        /\ results' = [results EXCEPT ![r[1]] = @ \cup {j[1]}]
    BY <1>1 DEF RecordResult
  <1>4. Carrying(j) /\ InCharge(j) /\ asked[j] = {} /\ r # j
    BY <1>1, <1>2 DEF Delivering, Carrying, InCharge, Orderly, NoneCarriesOn
  <1>5. j[1] \in pend[r]
    <2>1. PICK s \in Job : j[1] \in pend[s]
      BY <1>2, <1>4 DEF Orderly, ChargeIsPending
    <2>2. s = r
      BY <1>1, <2>1 DEF Orderly, Counted, OneAsker
    <2>3. QED
      BY <2>1, <2>2
  <1>6. j[1] \notin todo[r]
    <2>1. SUFFICES ASSUME j[1] \in todo[r] PROVE FALSE
      OBVIOUS
    <2>2. \A s \in Job : j[1] \in asked[s] => j[1] \in todo[s]
      BY <1>1, <2>1 DEF OneAsker
    <2>3. j[1] \in Call \ {Root}
      BY <1>2, JobFacts
    <2>4. pc[j] = "none"
      BY <2>2, <2>3, NotStarted
    <2>5. QED
      BY <2>4, <1>2 DEF Delivering
  <1>7. resumes[r] = 0
    BY <1>1 DEF ResumeOnce
  <1>8. /\ left'[r] = left[r] - 1 /\ left'[r] = Cardinality(pend'[r])
        /\ IsLast(r) <=> pend'[r] = {}
    <2>1. IsFiniteSet(pend[r])
      <3>1. IsFiniteSet(Call) /\ pend[r] \in SUBSET Call
        BY TreeAssumption
      <3>2. QED
        BY ONLY <3>1, FS_Subset
    <2>2. pend'[r] = pend[r] \ {j[1]} /\ left'[r] = left[r] - 1
      BY <1>3
    <2>3. /\ IsFiniteSet(pend[r] \ {j[1]})
          /\ Cardinality(pend[r] \ {j[1]}) = Cardinality(pend[r]) - 1
      BY ONLY <1>5, <2>1, FS_RemoveElement
    <2>4. /\ Cardinality(pend'[r]) \in Nat
          /\ Cardinality(pend'[r]) = 0 <=> pend'[r] = {}
      BY <2>2, <2>3, FS_CardinalityType, FS_EmptySet
    <2>5. left[r] = Cardinality(pend[r])
      BY DEF Orderly, Counted
    <2>6. QED
      BY <2>2, <2>3, <2>4, <2>5 DEF IsLast
  <1>9. live' = [live EXCEPT ![r] = pend'[r] # {}]
    BY <1>3, <1>8
  <1>10. PICK x : /\ pc' = [pc EXCEPT ![j] = x]
                  /\ IF IsLast(r) THEN x \in {"waking", "wakingFailed"}
                                  ELSE x \in {"completed", "failed"}
    BY <1>1 DEF AfterReport, AfterLastReport
  <1>11. QED
    BY <1>1, <1>2, <1>3, <1>4, <1>5, <1>6, <1>7, <1>8, <1>9, <1>10

LEMMA ReportOrderly ==
  ASSUME IInv, InTurns, Orderly, NEW j \in Job, Report(j)
  PROVE  Orderly'
  <1> USE DEF IInv, TypeOK
  <1>1. PICK r \in Job :
            /\ j[1] \in pend[r] /\ j[1] \in asked[r] /\ j[1] \notin todo[r] /\ j[1] # Root
            /\ live[r] /\ resumes[r] = 0 /\ r # j
            /\ Delivering(j)
            /\ pend' = [pend EXCEPT ![r] = @ \ {j[1]}]
            /\ left' = [left EXCEPT ![r] = @ - 1]
            /\ left'[r] = Cardinality(pend'[r])
            /\ live' = [live EXCEPT ![r] = pend'[r] # {}]
            /\ results' = [results EXCEPT ![r[1]] = @ \cup {j[1]}]
            /\ \E x : /\ pc' = [pc EXCEPT ![j] = x]
                      /\ IF pend'[r] = {} THEN x \in {"waking", "wakingFailed"}
                                          ELSE x \in {"completed", "failed"}
            /\ UNCHANGED <<todo, asked, resumes, execution, strikes>>
    BY ReportFacts
  <1>2. /\ pend'[r] = pend[r] \ {j[1]}
        /\ live'[r] <=> pend'[r] # {}
        /\ \A s \in Job : s # r =>
              pend'[s] = pend[s] /\ left'[s] = left[s] /\ live'[s] = live[s]
    BY <1>1
  <1>3. /\ pc'[j] \in {"waking", "wakingFailed", "completed", "failed"}
        /\ \A i \in Job : i # j => pc'[i] = pc[i]
    BY <1>1
  <1>4. Carrying(j) /\ InCharge(j)
    BY <1>1 DEF Delivering, Carrying, InCharge
  <1>5. asked[j] = {} /\ ~live[j]
    BY <1>4, CarriesAlone
  <1>6. ~Carrying(j)' /\ ~InCharge(j)'
    BY <1>1, <1>2, <1>3, <1>5 DEF InCharge, Carrying, Woken
  <1>7. \A i \in Job : Carrying(i)' => Carrying(i)
    BY <1>3 DEF Carrying
  <1>8. \A i \in Job : InCharge(i)' => InCharge(i) /\ i # j
    <2>1. \A w \in Job : Waking(w)' => Waking(w) \/ w = j
      BY <1>3 DEF Waking
    <2>2. \A i \in Job : j[1] \in asked[i] => i = r
      BY <1>1 DEF OneAsker
    <2>3. \A i \in Job : Woken(i)' => Woken(i) \/ i = r
      BY <1>1, <2>1, <2>2 DEF Woken
    <2>4. QED
      BY <1>1, <1>2, <1>6, <1>7, <2>3 DEF InCharge
  <1>9. NoneCarriesOn'
    BY <1>1, <1>7 DEF Orderly, NoneCarriesOn
  <1>10. OneInCharge'
    BY <1>8 DEF Orderly, OneInCharge
  <1>11. ChargeIsPending'
    <2>1. SUFFICES ASSUME NEW i \in Job, i[1] # Root, InCharge(i)'
                   PROVE  \E s \in Job : i[1] \in pend'[s]
      BY DEF ChargeIsPending
    <2>2. PICK s \in Job : i[1] \in pend[s]
      BY <1>8, <2>1 DEF Orderly, ChargeIsPending
    <2>3. i[1] # j[1]
      BY <1>4, <1>8, <2>1 DEF Orderly, OneInCharge
    <2>4. QED
      BY <1>2, <2>2, <2>3
  <1>12. Counted'
    BY <1>1, <1>2 DEF Orderly, Counted
  <1>13. Persisted'
    <2>1. r[1] \in Call /\ results'[r[1]] = results[r[1]] \cup {j[1]}
      BY <1>1, JobFacts
    <2>2. \A s \in Job : results[s[1]] \subseteq results'[s[1]]
      BY <1>1, JobFacts
    <2>3. QED
      BY <1>1, <1>2, <2>1, <2>2 DEF Orderly, Persisted
  <1>14. RootEnded'
    <2>1. SUFFICES ASSUME execution # "PENDING", NEW i \in Job, i[1] = Root, InCharge(i)'
                   PROVE  ~Quiet({"db"})' /\ pc'[i] \in {"failing", "blaming"}
      BY <1>1 DEF RootEnded
    <2>2. ~Quiet({"db"}) /\ pc[i] \in {"failing", "blaming"}
      BY <1>8, <2>1 DEF Orderly, RootEnded
    <2>3. QED
      BY <2>2, <2>1, <1>1, <1>3 DEF Quiet
  <1>15. QED
    BY <1>9, <1>10, <1>11, <1>12, <1>13, <1>14 DEF Orderly

\* Enqueuing the resume hands the conversation over to the resumed job.
LEMMA EnqueueResumeOrderly ==
  ASSUME IInv, Orderly, NEW j \in Job, EnqueueResume(j)
  PROVE  Orderly'
  <1> USE DEF IInv, TypeOK
  <1>1. PICK r \in Suspender :
            /\ r \in Job /\ ResumeJob(r) \in Job
            /\ j[1] \in asked[r]
            /\ Waking(j)
            /\ ~live[r] /\ resumes[r] = 0
            /\ pc[ResumeJob(r)] = "none" /\ j # ResumeJob(r)
            /\ pc' = [pc EXCEPT ![ResumeJob(r)] = "queued",
                                ![j] = IF pc[j] = "waking" THEN "completed" ELSE "failed"]
            /\ resumes' = [resumes EXCEPT ![r] = 1]
            /\ UNCHANGED <<todo, asked, live, pend, left, results, execution, strikes>>
    BY EnqueueResumeFacts
  <1> DEFINE n == ResumeJob(r)
  <1>2. /\ n \in Job /\ n[1] = r[1] /\ n # j /\ pc[n] = "none"
        /\ pc'[n] = "queued" /\ pc'[j] \in {"completed", "failed"}
        /\ \A i \in Job : i # j /\ i # n => pc'[i] = pc[i]
    BY <1>1 DEF ResumeJob
  <1> HIDE DEF n
  <1>3. asked[n] = {} /\ n # r
    BY <1>1, <1>2 DEF NotYet
  <1>4. \A w \in Job : Waking(w)' => Waking(w) /\ w # j
    BY <1>2 DEF Waking
  <1>5. \A i \in Job : i # n => (InCharge(i)' => InCharge(i)) /\ (Carrying(i)' => Carrying(i))
    BY <1>1, <1>2, <1>4 DEF InCharge, Carrying, Woken
  <1>6. ~Carrying(r) /\ InCharge(r)
    BY <1>1 DEF Orderly, NoneCarriesOn, InCharge, Woken
  <1>7. ~InCharge(r)'
    <2>1. ~Woken(r)'
      BY <1>1, <1>4 DEF Woken, OneWaker
    <2>2. ~Carrying(r)'
      BY <1>3, <1>5, <1>6, <1>1
    <2>3. QED
      BY <1>1, <2>1, <2>2 DEF InCharge
  <1>8. NoneCarriesOn'
    BY <1>1, <1>3, <1>5 DEF Orderly, NoneCarriesOn
  <1>9. OneInCharge'
    <2>1. \A i \in Job : i # n /\ i[1] = n[1] => ~InCharge(i)'
      BY <1>1, <1>2, <1>5, <1>6, <1>7 DEF Orderly, OneInCharge
    <2>2. QED
      BY <2>1, <1>5 DEF Orderly, OneInCharge
  <1>10. ChargeIsPending'
    BY <1>1, <1>2, <1>5, <1>6 DEF Orderly, ChargeIsPending
  <1>11. Counted' /\ Persisted'
    BY <1>1 DEF Orderly, Counted, Persisted
  <1>12. RootEnded'
    <2>1. SUFFICES ASSUME execution # "PENDING", NEW i \in Job, i[1] = Root, InCharge(i)'
                   PROVE  ~Quiet({"db"})' /\ pc'[i] \in {"failing", "blaming"}
      BY <1>1 DEF RootEnded
    <2>2. i # n
      BY <2>1, <1>1, <1>2, <1>6 DEF Orderly, RootEnded, Carrying
    <2>3. ~Quiet({"db"}) /\ pc[i] \in {"failing", "blaming"}
      BY <2>1, <2>2, <1>5 DEF Orderly, RootEnded
    <2>4. i # j
      BY <2>3, <1>1 DEF Waking
    <2>5. QED
      BY <2>2, <2>3, <2>4, <1>1, <1>2 DEF Quiet
  <1>13. QED
    BY <1>8, <1>9, <1>10, <1>11, <1>12 DEF Orderly

LEMMA OrderlyNext ==
  ASSUME IInv, InTurns, Quiet({"redis"}) => Orderly, [Next]_vars, Quiet({"redis"})'
  PROVE  Orderly'
  <1>1. TypeOK
    BY DEF IInv
  <1>2. Orderly
    BY <1>1, QuietBefore
  <1>3. CASE UNCHANGED vars
    BY <1>2, <1>3 DEF vars, row, Orderly, NoneCarriesOn, OneInCharge, ChargeIsPending, Counted,
                      Persisted, RootEnded, InCharge, Carrying, Woken, Waking, Quiet
  <1>4. CASE Next
    BY <1>2, <1>4, StepCases, MovingOrderly, DelegatesOrderly, EnqueueChildOrderly,
       ReportOrderly, EnqueueResumeOrderly
  <1>5. QED
    BY <1>3, <1>4

-----------------------------------------------------------------------------

\* Absent faults nobody leaves a charge without handing it over.
LEMMA MovingForgetsNone ==
  ASSUME IInv, Orderly, NoneForgotten, NEW j \in Job, Moving(j), Quiet(AllFaults)'
  PROVE  NoneForgotten'
  <1> USE DEF IInv, TypeOK
  <1>1. UNCHANGED <<todo, asked, live, pend>>
    BY MovingMoves
  <1>2. ~Fault(j)
    <2>1. FaultKinds \subseteq AllFaults
      BY BoundAssumption
    <2>2. \A f \in AllFaults : ~Strike(f)
      BY StrikeIsLoud
    <2>3. QED
      BY <2>2 DEF AllFaults, Fault, RedisError, DatabaseError, Cancel, Crash
  <1>3. ~ReportToNobody(j)
    <2>1. SUFFICES ASSUME ReportToNobody(j) PROVE FALSE
      OBVIOUS
    <2>2. j[1] # Root /\ InCharge(j) /\ \A r \in Job : ~(j[1] \in asked[r] /\ live[r])
      BY <2>1 DEF ReportToNobody, Delivering, InCharge, Carrying
    <2>3. PICK r \in Job : j[1] \in pend[r]
      BY <2>2 DEF Orderly, ChargeIsPending
    <2>4. QED
      BY <2>2, <2>3 DEF Orderly, Counted
  <1>4. /\ pc[j] \notin {"waking", "wakingFailed"}
        /\ Carrying(j) /\ j[1] # Root => Carrying(j)'
        /\ \A i \in Job : i # j => pc'[i] = pc[i]
    BY <1>2, <1>3 DEF Moving, Start, TurnEnds, TurnRaises, Suspend, Finish, Fail,
                      TerminateExecution, Delivering, Carrying, Goto
  <1>5. \A w \in Job : Waking(w) => Waking(w)'
    BY <1>4 DEF Waking
  <1>6. \A i \in Job : InCharge(i) /\ i[1] # Root => InCharge(i)'
    BY <1>1, <1>4, <1>5 DEF InCharge, Carrying, Woken
  <1>7. \A r \in Job : Root \notin pend[r]
    BY DEF Orderly, Counted, OneAsker
  <1>8. QED
    BY <1>1, <1>6, <1>7 DEF NoneForgotten

LEMMA DelegatesForgetsNone ==
  ASSUME IInv, InTurns, Orderly, NoneForgotten, NEW j \in Job, TurnDelegates(j)
  PROVE  NoneForgotten'
  <1>1. \A i \in Job : InCharge(i)' <=> InCharge(i)
    BY DelegatesOrderly
  <1>2. pend'[j] = todo'[j]
    BY DEF TurnDelegates, IInv, TypeOK
  <1>3. \A r \in Job : r # j => pend'[r] = pend[r] /\ todo'[r] = todo[r]
    BY DEF TurnDelegates, IInv, TypeOK
  <1>4. QED
    BY <1>1, <1>2, <1>3 DEF NoneForgotten

LEMMA EnqueueChildForgetsNone ==
  ASSUME IInv, NoneForgotten, NEW j \in Job, EnqueueChild(j)
  PROVE  NoneForgotten'
  <1> USE DEF IInv, TypeOK
  <1>1. PICK k \in todo[j] :
            /\ k \in asked[j] /\ k \in Call \ {Root}
            /\ pc[j] = "fanout"
            /\ MessageJob(k) \in Job /\ MessageJob(k) # j
            /\ pc[MessageJob(k)] = "none"
            /\ pc' = [pc EXCEPT ![MessageJob(k)] = "queued",
                                ![j] = IF todo[j] = {k} THEN "suspending" ELSE "fanout"]
            /\ todo' = [todo EXCEPT ![j] = @ \ {k}]
            /\ UNCHANGED <<asked, live, pend, left, results, resumes, execution, strikes>>
    BY EnqueueChildFacts
  <1> DEFINE n == MessageJob(k)
  <1>2. /\ n \in Job /\ n[1] = k /\ n # j /\ pc[n] = "none"
        /\ pc'[n] = "queued"
        /\ \A i \in Job : i # j /\ i # n => pc'[i] = pc[i]
    BY <1>1 DEF MessageJob
  <1> HIDE DEF n
  <1>3. \A w \in Job : Waking(w) => Waking(w)'
    BY <1>1, <1>2 DEF Waking
  <1>4. \A i \in Job : Carrying(i) => Carrying(i)'
    BY <1>1, <1>2 DEF Carrying
  <1>5. \A i \in Job : InCharge(i) => InCharge(i)'
    BY <1>1, <1>3, <1>4 DEF InCharge, Woken
  <1>6. InCharge(n)'
    BY <1>2 DEF InCharge, Carrying
  <1>7. \A r \in Job : \A l \in todo[r] : l \in todo'[r] \/ l = k
    BY <1>1
  <1>8. QED
    BY <1>1, <1>2, <1>5, <1>6, <1>7 DEF NoneForgotten

LEMMA ReportForgetsNone ==
  ASSUME IInv, InTurns, Orderly, NoneForgotten, NEW j \in Job, Report(j)
  PROVE  NoneForgotten'
  <1> USE DEF IInv, TypeOK
  <1>1. PICK r \in Job :
            /\ j[1] \in pend[r] /\ j[1] \in asked[r] /\ j[1] \notin todo[r] /\ j[1] # Root
            /\ live[r] /\ resumes[r] = 0 /\ r # j
            /\ Delivering(j)
            /\ pend' = [pend EXCEPT ![r] = @ \ {j[1]}]
            /\ left' = [left EXCEPT ![r] = @ - 1]
            /\ left'[r] = Cardinality(pend'[r])
            /\ live' = [live EXCEPT ![r] = pend'[r] # {}]
            /\ results' = [results EXCEPT ![r[1]] = @ \cup {j[1]}]
            /\ \E x : /\ pc' = [pc EXCEPT ![j] = x]
                      /\ IF pend'[r] = {} THEN x \in {"waking", "wakingFailed"}
                                          ELSE x \in {"completed", "failed"}
            /\ UNCHANGED <<todo, asked, resumes, execution, strikes>>
    BY ReportFacts
  <1>2. /\ pend'[r] = pend[r] \ {j[1]}
        /\ \A s \in Job : s # r => pend'[s] = pend[s] /\ live'[s] = live[s]
    BY <1>1
  <1>3. \A i \in Job : i # j => pc'[i] = pc[i]
    BY <1>1
  <1>4. \A s \in Job : j[1] \notin pend'[s]
    BY <1>1, <1>2 DEF Orderly, Counted, OneAsker
  <1>5. live'[r] \/ Woken(r)'
    <2>1. live'[r] \/ Waking(j)'
      BY <1>1 DEF Waking
    <2>2. QED
      BY <2>1, <1>1 DEF Woken
  <1>6. \A w \in Job : Waking(w) => Waking(w)'
    BY <1>1, <1>3 DEF Waking, Delivering
  <1>7. \A i \in Job : i # j /\ InCharge(i) => InCharge(i)'
    BY <1>1, <1>2, <1>3, <1>5, <1>6 DEF InCharge, Carrying, Woken
  <1>8. QED
    BY <1>1, <1>2, <1>4, <1>7 DEF NoneForgotten

LEMMA EnqueueResumeForgetsNone ==
  ASSUME IInv, NoneForgotten, NEW j \in Job, EnqueueResume(j)
  PROVE  NoneForgotten'
  <1> USE DEF IInv, TypeOK
  <1>1. PICK r \in Suspender :
            /\ r \in Job /\ ResumeJob(r) \in Job
            /\ j[1] \in asked[r]
            /\ Waking(j)
            /\ ~live[r] /\ resumes[r] = 0
            /\ pc[ResumeJob(r)] = "none" /\ j # ResumeJob(r)
            /\ pc' = [pc EXCEPT ![ResumeJob(r)] = "queued",
                                ![j] = IF pc[j] = "waking" THEN "completed" ELSE "failed"]
            /\ resumes' = [resumes EXCEPT ![r] = 1]
            /\ UNCHANGED <<todo, asked, live, pend, left, results, execution, strikes>>
    BY EnqueueResumeFacts
  <1> DEFINE n == ResumeJob(r)
  <1>2. /\ n \in Job /\ n[1] = r[1] /\ n # j /\ pc[n] = "none"
        /\ pc'[n] = "queued"
        /\ \A i \in Job : i # j /\ i # n => pc'[i] = pc[i]
    BY <1>1 DEF ResumeJob
  <1> HIDE DEF n
  <1>3. \A w \in Job : Waking(w) /\ w # j => Waking(w)'
    BY <1>2 DEF Waking
  <1>4. \A i \in Job : j[1] \in asked[i] => i = r
    BY <1>1 DEF OneAsker
  <1>5. \A i \in Job : Carrying(i) => Carrying(i)'
    BY <1>1, <1>2 DEF Carrying, Waking
  <1>6. \A i \in Job : i # r /\ InCharge(i) => InCharge(i)'
    BY <1>1, <1>3, <1>4, <1>5 DEF InCharge, Woken
  <1>7. InCharge(n)'
    BY <1>2 DEF InCharge, Carrying
  <1>8. QED
    BY <1>1, <1>2, <1>6, <1>7 DEF NoneForgotten

LEMMA QuietQuiet == Quiet(AllFaults) => Quiet({"redis"})
  BY DEF Quiet, AllFaults

LEMMA NoneForgottenNext ==
  ASSUME CInv, [Next]_vars, Quiet(AllFaults)'
  PROVE  NoneForgotten'
  <1>1. IInv /\ InTurns /\ Orderly /\ NoneForgotten
    BY QuietBefore, QuietQuiet DEF CInv, IInv
  <1>2. CASE UNCHANGED vars
    BY <1>1, <1>2 DEF vars, row, NoneForgotten, InCharge, Carrying, Woken, Waking
  <1>3. CASE Next
    BY <1>1, <1>3, StepCases, MovingForgetsNone, DelegatesForgetsNone, EnqueueChildForgetsNone,
       ReportForgetsNone, EnqueueResumeForgetsNone
  <1>4. QED
    BY <1>2, <1>3

-----------------------------------------------------------------------------

LEMMA CInvInit == Init => CInv
  <1> SUFFICES ASSUME Init PROVE CInv
    OBVIOUS
  <1> USE DEF Init
  <1>1. IInv
    BY IInvInit
  <1>2. InTurns
    BY BoundAssumption DEF InTurns, MessageJob, Job
  <1>3. FansOut
    BY DEF FansOut
  <1>4. \A j \in Job : InCharge(j) => j = MessageJob(Root)
    BY DEF InCharge, Carrying, Woken, Waking
  <1>5. NoneCarriesOn
    BY DEF NoneCarriesOn
  <1>6. OneInCharge
    BY <1>4 DEF OneInCharge
  <1>7. ChargeIsPending
    BY <1>4 DEF ChargeIsPending, MessageJob
  <1>8. Counted
    BY FS_EmptySet DEF Counted
  <1>9. Persisted /\ RootEnded
    BY DEF Persisted, RootEnded
  <1>10. NoneForgotten
    BY DEF NoneForgotten
  <1>11. QED
    BY <1>1, <1>2, <1>3, <1>5, <1>6, <1>7, <1>8, <1>9, <1>10 DEF CInv, Orderly

LEMMA CInvNext == CInv /\ [Next]_vars => CInv'
  <1> SUFFICES ASSUME CInv, [Next]_vars PROVE CInv'
    OBVIOUS
  <1>1. IInv' /\ InTurns' /\ FansOut'
    BY IInvNext, InTurnsNext, FansOutNext DEF CInv
  <1>2. Quiet({"redis"})' => Orderly'
    BY OrderlyNext DEF CInv
  <1>3. Quiet(AllFaults)' => NoneForgotten'
    BY NoneForgottenNext
  <1>4. QED
    BY <1>1, <1>2, <1>3 DEF CInv

\* Who is in charge of what, for every instance: the strengthening of the
\* properties below.
THEOREM Charges == Spec => []CInv
  BY CInvInit, CInvNext, PTL DEF Spec

\* OneTurn for every instance, whatever faults strike.
THEOREM TurnsAreTaken == Spec => []OneTurn
  <1>1. CInv => OneTurn
    <2>1. SUFFICES ASSUME CInv, NEW i \in Job, NEW j \in Job,
                          pc[i] = "turn", pc[j] = "turn", i[1] = j[1], i # j
                   PROVE  FALSE
      BY DEF OneTurn
    <2>2. i[2] < j[2] \/ j[2] < i[2]
      BY <2>1, BoundAssumption DEF Job
    <2>3. QED
      BY <2>1, <2>2 DEF CInv, InTurns
  <1>2. QED
    BY <1>1, Charges, PTL

\* ResumeHasResults for every instance: until a Redis call raises, a
\* conversation is woken with the results of all the calls it waits for.
THEOREM ResumedWithResults == Spec => []ResumeHasResults
  <1>1. CInv => ResumeHasResults
    <2>1. SUFFICES ASSUME CInv, Quiet({"redis"}), NEW r \in Job, resumes[r] > 0
                   PROVE  asked[r] \subseteq results[r[1]]
      BY DEF ResumeHasResults, AllResultsPersisted
    <2>2. ~live[r]
      BY <2>1 DEF CInv, IInv, ResumeOnce
    <2>3. QED
      BY <2>1, <2>2 DEF CInv, Orderly, Counted, Persisted
  <1>2. QED
    BY <1>1, Charges, PTL

\* CallsAnsweredOnce for every instance: absent faults no call is forgotten
\* and none is answered twice.
THEOREM AnsweredOnce == Spec => []CallsAnsweredOnce
  <1>1. CInv => CallsAnsweredOnce
    <2>1. SUFFICES ASSUME CInv, Quiet(AllFaults), NEW k \in Call \ {Root}
                   PROVE  Awaited(k) <=> Underway(k)
      BY DEF CallsAnsweredOnce
    <2>2. Orderly /\ NoneForgotten
      BY <2>1, QuietQuiet DEF CInv
    <2>3. Awaited(k) <=> \E r \in Job : k \in pend[r]
      BY <2>2 DEF Awaited, Orderly, Counted
    <2>4. Underway(k) <=> \/ \E r \in Job : k \in todo[r]
                          \/ \E j \in Job : j[1] = k /\ InCharge(j)
      BY DEF Underway, InCharge, Carrying, Woken
    <2>5. QED
      BY <2>1, <2>2, <2>3, <2>4 DEF Orderly, Counted, ChargeIsPending, NoneForgotten
  <1>2. QED
    BY <1>1, Charges, PTL

\* ExecutionEndsLast for every instance: the row of the root is terminal only
\* when nothing the root started is open.
THEOREM EndsLast == Spec => []ExecutionEndsLast
  <1>1. CInv => ExecutionEndsLast
    <2>1. SUFFICES ASSUME CInv, execution # "PENDING", Quiet({"redis"}),
                          NEW j \in Job, j[1] = Root
                   PROVE  /\ ~live[j]
                          /\ \/ pc[j] \in Over \cup {"none", "suspending"}
                             \/ ~Quiet({"db"}) /\ pc[j] \in {"failing", "blaming"}
      BY DEF ExecutionEndsLast
    <2>2. Orderly /\ IInv /\ FansOut
      BY <2>1 DEF CInv
    <2>3. CASE InCharge(j)
      <3>1. ~Quiet({"db"}) /\ pc[j] \in {"failing", "blaming"}
        BY <2>1, <2>2, <2>3 DEF Orderly, RootEnded
      <3>2. ~live[j]
        BY <2>2, <3>1, CarriesAlone DEF Carrying
      <3>3. QED
        BY <3>1, <3>2
    <2>4. CASE ~InCharge(j)
      <3>1. ~live[j] /\ ~Carrying(j)
        BY <2>4 DEF InCharge
      <3>2. pc[j] # "fanout"
        BY <2>2, <3>1 DEF FansOut, Orderly, Counted
      <3>3. ~Waking(j)
        BY <2>1, <2>2 DEF IInv, OneWaker, OneAsker
      <3>4. pc[j] \in PC
        BY <2>2 DEF IInv, TypeOK
      <3>5. QED
        BY <3>1, <3>2, <3>3, <3>4 DEF Carrying, Waking, PC, Running
    <2>5. QED
      BY <2>3, <2>4
  <1>2. QED
    BY <1>1, Charges, PTL

-----------------------------------------------------------------------------

\* A step of the jobs is a step of Join or none.
LEMMA JoinNext ==
  ASSUME CInv, [Next]_vars, Quiet({"redis"})
  PROVE  [J!Next]_(J!vars)
  <1> USE DEF IInv, TypeOK
  <1>0. IInv /\ InTurns /\ Orderly
    BY DEF CInv
  <1>1. ASSUME UNCHANGED <<asked, live, pend, resumes>> PROVE UNCHANGED J!vars
    BY <1>1 DEF J!vars, Stage
  <1>2. ASSUME NEW j \in Job, Moving(j) PROVE UNCHANGED J!vars
    BY <1>1, <1>2, MovingMoves
  <1>3. ASSUME NEW j \in Job, EnqueueChild(j) PROVE UNCHANGED J!vars
    BY <1>1, <1>3 DEF EnqueueChild, row
  <1>4. ASSUME NEW j \in Job, TurnDelegates(j) PROVE J!Open(j)
    <2>1. PICK S \in SUBSET (Call \ {Root}) :
            /\ S # {}
            /\ \A k \in S : \A r \in Job : k \notin asked[r]
            /\ \A i \in Job : i[1] \in S => pc[i] = "none" /\ ~InCharge(i)
            /\ pc[j] = "turn" /\ asked[j] = {} /\ ~live[j] /\ resumes[j] = 0
            /\ pc' = [pc EXCEPT ![j] = "fanout"]
            /\ asked' = [asked EXCEPT ![j] = S]
            /\ live' = [live EXCEPT ![j] = TRUE]
            /\ pend' = [pend EXCEPT ![j] = S]
            /\ left' = [left EXCEPT ![j] = Cardinality(S)]
            /\ todo' = [todo EXCEPT ![j] = S]
            /\ UNCHANGED <<results, resumes, execution, strikes>>
      BY <1>0, <1>4, DelegatesFacts
    <2>2. /\ Stage(j) = "idle" /\ Stage(j)' = "open"
          /\ \A i \in Job : i # j => Stage(i)' = Stage(i)
      BY <1>0, <2>1 DEF Stage
    <2>3. \A s \in Job : S \cap pend[s] = {}
      BY <1>0, <2>1 DEF Orderly, Counted
    <2>4. [r \in Job |-> Stage(r)]' = [[r \in Job |-> Stage(r)] EXCEPT ![j] = "open"]
      BY <2>2
    <2>5. [r \in Job |-> pend[r]]' = [[r \in Job |-> pend[r]] EXCEPT ![j] = S]
      BY <1>0, <2>1
    <2>6. S \in (SUBSET (Call \ {Root})) \ {{}}
      BY <2>1
    <2>7. \A s \in Job : S \cap [r \in Job |-> pend[r]][s] = {}
      BY <2>3
    <2>8. [r \in Job |-> Stage(r)][j] = "idle"
      BY <2>2
    <2>9. QED
      BY <2>4, <2>5, <2>6, <2>7, <2>8 DEF J!Open
  <1>5. ASSUME NEW j \in Job, Report(j)
        PROVE  \E r \in Job : \E k \in Call \ {Root} : J!Answer(r, k)
    <2>1. PICK r \in Job :
            /\ j[1] \in pend[r] /\ j[1] \in asked[r] /\ j[1] \notin todo[r] /\ j[1] # Root
            /\ live[r] /\ resumes[r] = 0 /\ r # j
            /\ Delivering(j)
            /\ pend' = [pend EXCEPT ![r] = @ \ {j[1]}]
            /\ left' = [left EXCEPT ![r] = @ - 1]
            /\ left'[r] = Cardinality(pend'[r])
            /\ live' = [live EXCEPT ![r] = pend'[r] # {}]
            /\ results' = [results EXCEPT ![r[1]] = @ \cup {j[1]}]
            /\ \E x : /\ pc' = [pc EXCEPT ![j] = x]
                      /\ IF pend'[r] = {} THEN x \in {"waking", "wakingFailed"}
                                          ELSE x \in {"completed", "failed"}
            /\ UNCHANGED <<todo, asked, resumes, execution, strikes>>
      BY <1>0, <1>5, ReportFacts
    <2>2. live'[r] <=> pend[r] # {j[1]}
      <3>1. pend'[r] = pend[r] \ {j[1]} /\ (live'[r] <=> pend'[r] # {})
        BY <1>0, <2>1
      <3>2. j[1] \in pend[r]
        BY <2>1
      <3>3. QED
        BY ONLY <3>1, <3>2
    <2>3. /\ Stage(r) = "open"
          /\ Stage(r)' = IF pend[r] = {j[1]} THEN "due" ELSE "open"
          /\ \A i \in Job : i # r => Stage(i)' = Stage(i)
      BY <1>0, <2>1, <2>2 DEF Stage
    <2>4. [s \in Job |-> Stage(s)]' =
             [[s \in Job |-> Stage(s)] EXCEPT ![r] = IF pend[r] = {j[1]} THEN "due" ELSE "open"]
      BY <2>3
    <2>5. [s \in Job |-> pend[s]]' = [[s \in Job |-> pend[s]] EXCEPT ![r] = @ \ {j[1]}]
      <3>1. pend'[r] = pend[r] \ {j[1]} /\ \A s \in Job : s # r => pend'[s] = pend[s]
        <4>1. pend \in [Job -> SUBSET Call]
          BY <1>0
        <4>2. r \in Job /\ pend' = [pend EXCEPT ![r] = @ \ {j[1]}]
          BY <2>1
        <4>3. QED
          BY <4>1, <4>2
      <3>2. QED
        BY <3>1
    <2>6. J!Answer(r, j[1])
      BY <2>1, <2>3, <2>4, <2>5 DEF J!Answer
    <2>7. QED
      BY <2>1, <2>6, JobFacts
  <1>6. ASSUME NEW j \in Job, EnqueueResume(j) PROVE \E r \in Job : J!Wake(r)
    <2>1. PICK r \in Suspender :
            /\ r \in Job /\ ResumeJob(r) \in Job
            /\ j[1] \in asked[r]
            /\ Waking(j)
            /\ ~live[r] /\ resumes[r] = 0
            /\ pc[ResumeJob(r)] = "none" /\ j # ResumeJob(r)
            /\ pc' = [pc EXCEPT ![ResumeJob(r)] = "queued",
                                ![j] = IF pc[j] = "waking" THEN "completed" ELSE "failed"]
            /\ resumes' = [resumes EXCEPT ![r] = 1]
            /\ UNCHANGED <<todo, asked, live, pend, left, results, execution, strikes>>
      BY <1>0, <1>6, EnqueueResumeFacts
    <2>2. /\ Stage(r) = "due" /\ Stage(r)' = "woken"
          /\ \A i \in Job : i # r => Stage(i)' = Stage(i)
      BY <1>0, <2>1 DEF Stage
    <2>3. [s \in Job |-> Stage(s)]' = [[s \in Job |-> Stage(s)] EXCEPT ![r] = "woken"]
      BY <2>1, <2>2
    <2>4. QED
      BY <2>1, <2>2, <2>3 DEF J!Wake
  <1>7. CASE UNCHANGED vars
    BY <1>1, <1>7 DEF vars, row
  <1>8. QED
    BY <1>2, <1>3, <1>4, <1>5, <1>6, <1>7, StepCases DEF J!Next

LEMMA JoinInit == Init => J!Init
  BY DEF Init, J!Init, Stage

\* JoinSteps for every instance: whatever faults but an error from Redis
\* strike, a step of the jobs keeps the promise of Join.
THEOREM JoinKept == Spec => JoinSteps
  <1>1. CInv /\ [Next]_vars => [Quiet({"redis"}) => J!Next]_(J!vars)
    BY JoinNext
  <1>2. QED
    BY <1>1, Charges, PTL DEF Spec, JoinSteps

\* Where no Redis call raises, the jobs, the checkpoints and the queue
\* together implement the safety of Join: the detailed specification refines
\* the abstract one under the mapping J.
THEOREM JoinRefined ==
  ASSUME "redis" \notin FaultKinds
  PROVE  Spec => J!Safety
  <1>1. Quiet({"redis"})
    BY DEF Quiet
  <1>2. CInv /\ [Next]_vars => [J!Next]_(J!vars)
    BY <1>1, JoinNext
  <1>3. QED
    BY <1>2, Charges, JoinInit, PTL DEF Spec, J!Safety

=============================================================================
