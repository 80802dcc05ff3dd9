---------------------------- MODULE BatchProofs -----------------------------
(***************************************************************************)
(* For every size of batch, number of cancel requests and mix of faults:   *)
(* the compare-and-set lets one child post the summary, and no late bump   *)
(* reopens a finished batch (IInv). The rows agree with the jobs that      *)
(* write them (CInv), which makes the summary final and a child's callback *)
(* the only one.                                                           *)
(***************************************************************************)
EXTENDS Batch, TLAPS

\* The child that won the compare-and-set, alone, posts; before it there is
\* no winner and no summary.
OneClaim ==
    ~Cancelled =>
        /\ ~finished => posted = <<>> /\ \A c \in Child : pc[c] # "posting"
        /\ \A c \in Child : pc[c] = "posting" => posted = <<>>
        /\ \A c, d \in Child : pc[c] = "posting" /\ pc[d] = "posting" => c = d

IInv == TypeOK /\ OneClaim /\ PostedOnce

-----------------------------------------------------------------------------

LEMMA TypeInit == Init => TypeOK
  <1> SUFFICES ASSUME Init PROVE TypeOK
    OBVIOUS
  <1> USE DEF Init
  <1>1. /\ status \in [Child -> ExecutionStatus] /\ batch \in BatchStatus
        /\ pc \in [Child -> Job_PC] /\ verdict \in [Child -> Verdict]
    BY DEF Verdict, ExecutionStatus, BatchStatus, Job_PC
  <1>2. told \in [Child -> Seq(Verdict)] /\ tally \in [Child -> Counts]
    BY DEF Counts
  <1>3. posted \in Seq([status : BatchStatus, counts : Counts])
    OBVIOUS
  <1>4. QED
    BY <1>1, <1>2, <1>3 DEF TypeOK

LEMMA TypeNext == TypeOK /\ [Next]_vars => TypeOK'
  <1> SUFFICES ASSUME TypeOK, [Next]_vars PROVE TypeOK'
    OBVIOUS
  <1> USE BatchAssumption
      DEF TypeOK, Goto, SetStatus, GotoCancel, batchRow, jobs, users,
          Job_PC, BatchStatus, ExecutionStatus
  <1>1. ASSUME NEW c \in Child, Enqueue(c) PROVE TypeOK'
    BY <1>1 DEF Enqueue
  <1>2. ASSUME NEW c \in Child, Start(c) PROVE TypeOK'
    BY <1>2 DEF Start
  <1>3. ASSUME NEW c \in Child, Complete(c) \/ Fail(c) \/ Pause(c) PROVE TypeOK'
    BY <1>3 DEF Complete, Fail, Pause, Verdict
  <1>4. ASSUME NEW c \in Child, Tell(c) PROVE TypeOK'
    <2>1. told' \in [Child -> Seq(Verdict)]
      BY <1>4 DEF Tell
    <2>2. QED
      BY <1>4, <2>1 DEF Tell
  <1>5. ASSUME NEW c \in Child, CountPending(c) \/ Bump(c) \/ Tally(c) PROVE TypeOK'
    BY <1>5 DEF CountPending, Bump, Tally, Counts
  <1>6. ASSUME NEW c \in Child, Claim(c) PROVE TypeOK'
    <2>1. DeriveStatus(tally[c]) \in BatchStatus
      BY DEF DeriveStatus
    <2>2. QED
      BY <1>6, <2>1 DEF Claim
  <1>7. ASSUME NEW c \in Child, Post(c) PROVE TypeOK'
    <2>1. [status |-> batch, counts |-> tally[c]] \in [status : BatchStatus, counts : Counts]
      OBVIOUS
    <2>2. posted' \in Seq([status : BatchStatus, counts : Counts])
      BY <1>7, <2>1 DEF Post
    <2>3. QED
      BY <1>7, <2>2 DEF Post
  <1>8. ASSUME NEW x \in Canceller, CancelRead(x) \/ CancelWrite(x) \/ CancelCount(x)
        PROVE TypeOK'
    <2>1. status' \in [Child -> ExecutionStatus]
      BY <1>8 DEF CancelRead, CancelWrite, CancelCount
    <2>2. canceller' \in [Canceller -> {"idle", "writing", "counting", "posting", "over"}]
      BY <1>8 DEF CancelRead, CancelWrite, CancelCount
    <2>3. QED
      BY <1>8, <2>1, <2>2 DEF CancelRead, CancelWrite, CancelCount
  <1>14. ASSUME NEW x \in Canceller, CancelPost(x) PROVE TypeOK'
    <2>1. [status |-> "CANCELLED", counts |-> status] \in [status : BatchStatus, counts : Counts]
      BY DEF Counts
    <2>2. posted' \in Seq([status : BatchStatus, counts : Counts])
      BY <1>14, <2>1 DEF CancelPost
    <2>3. QED
      BY <1>14, <2>2 DEF CancelPost
  <1>9. ASSUME NEW c \in Child, Resume(c) PROVE TypeOK'
    <2>1. CASE ResumeCheck(c)
      BY <2>1 DEF ResumeCheck
    <2>2. CASE ResumeStart(c)
      BY <2>2 DEF ResumeStart
    <2>3. CASE ResumeEnds(c)
      <3>1. status' \in [Child -> ExecutionStatus]
        BY <2>3 DEF ResumeEnds
      <3>2. QED
        BY <2>3, <3>1 DEF ResumeEnds
    <2>4. QED
      BY <1>9, <2>1, <2>2, <2>3 DEF Resume
  <1>10. ASSUME NEW c \in Child, Fault(c) PROVE TypeOK'
    BY <1>10 DEF Fault, Rerun, Timeout, CountRaises, CancelJob, Happens
  <1>11. CASE SubmitRaises
    BY <1>11 DEF SubmitRaises, Happens
  <1>12. CASE UNCHANGED vars
    BY <1>12 DEF vars
  <1>13. QED
    BY <1>1, <1>2, <1>3, <1>4, <1>5, <1>6, <1>7, <1>8, <1>9, <1>10, <1>11, <1>12, <1>14
       DEF Next, Job, OnTerminated, Cancel

\* TypeOK holds for every instance.
THEOREM TypeCorrect == Spec => []TypeOK
  BY TypeInit, TypeNext, PTL DEF Spec

-----------------------------------------------------------------------------

\* What touches neither the batch row nor the summaries and lets no child
\* start posting keeps OneClaim.
LEMMA OtherKeeps ==
  ASSUME IInv, TypeOK',
         UNCHANGED <<batchRow, posted>>,
         Cancelled => Cancelled',
         \A c \in Child : pc'[c] = "posting" => pc[c] = "posting"
  PROVE  IInv'
  BY DEF IInv, OneClaim, PostedOnce, batchRow

LEMMA IInvInit == Init => IInv
  <1> SUFFICES ASSUME Init PROVE IInv
    OBVIOUS
  <1>1. TypeOK
    BY TypeInit
  <1>2. OneClaim /\ PostedOnce
    BY DEF Init, OneClaim, PostedOnce
  <1>3. QED
    BY <1>1, <1>2 DEF IInv

LEMMA IInvNext == IInv /\ [Next]_vars => IInv'
  <1> SUFFICES ASSUME IInv, [Next]_vars PROVE IInv'
    OBVIOUS
  <1>1. TypeOK /\ TypeOK'
    BY TypeNext DEF IInv
  <1> USE DEF users, jobs
  <1>2. ASSUME NEW c \in Child, Enqueue(c) PROVE IInv'
    BY <1>1, <1>2, OtherKeeps DEF Enqueue, Goto, TypeOK, Cancelled
  <1>3. ASSUME NEW c \in Child,
               Start(c) \/ Complete(c) \/ Fail(c) \/ Pause(c) \/ Tell(c) \/ CountPending(c) \/ Tally(c)
        PROVE IInv'
    BY <1>1, <1>3, OtherKeeps
       DEF Start, Complete, Fail, Pause, Tell, CountPending, Tally, Goto, TypeOK, Cancelled
  <1>4. ASSUME NEW c \in Child, Bump(c) PROVE IInv'
    BY <1>1, <1>4 DEF Bump, Goto, TypeOK, Cancelled, IInv, OneClaim, PostedOnce
  <1>5. ASSUME NEW c \in Child, Claim(c) PROVE IInv'
    <2>1. UNCHANGED <<posted, canceller>> /\ finished'
      BY <1>5 DEF Claim
    <2>2. pc' = [pc EXCEPT ![c] = IF finished THEN "over" ELSE "posting"]
      BY <1>5 DEF Claim, Goto
    <2>3. OneClaim'
      BY <1>1, <2>1, <2>2 DEF OneClaim, IInv, Cancelled, TypeOK
    <2>4. PostedOnce'
      BY <2>1 DEF PostedOnce, IInv, Cancelled
    <2>5. QED
      BY <1>1, <2>3, <2>4 DEF IInv
  <1>6. ASSUME NEW c \in Child, Post(c) PROVE IInv'
    <2>1. /\ pc[c] = "posting" /\ UNCHANGED <<canceller, finished>>
          /\ pc' = [pc EXCEPT ![c] = "over"]
          /\ posted' = Append(posted, [status |-> batch, counts |-> tally[c]])
      BY <1>6 DEF Post, Goto, batchRow
    <2>2. ~Cancelled => posted = <<>> /\ finished
      BY <2>1 DEF IInv, OneClaim
    <2>3. ~Cancelled => Len(posted') = 1
      BY <2>1, <2>2
    <2>4. ~Cancelled => \A d \in Child : pc'[d] # "posting"
      BY <1>1, <2>1 DEF IInv, OneClaim, TypeOK
    <2>5. OneClaim' /\ PostedOnce'
      BY <2>1, <2>2, <2>3, <2>4 DEF OneClaim, PostedOnce, Cancelled
    <2>6. QED
      BY <1>1, <2>5 DEF IInv
  <1>7. ASSUME NEW x \in Canceller, CancelRead(x) PROVE IInv'
    BY <1>1, <1>7, OtherKeeps DEF CancelRead, GotoCancel, Cancelled, TypeOK
  <1>8. ASSUME NEW x \in Canceller, CancelWrite(x) \/ CancelCount(x) \/ CancelPost(x)
        PROVE IInv'
    <2>1. canceller'[x] \in {"counting", "posting", "over"}
      BY <1>1, <1>8 DEF CancelWrite, CancelCount, CancelPost, GotoCancel, TypeOK
    <2>2. Cancelled'
      BY <2>1 DEF Cancelled
    <2>3. QED
      BY <1>1, <2>2 DEF IInv, OneClaim, PostedOnce
  <1>9. ASSUME NEW c \in Child, Resume(c) PROVE IInv'
    BY <1>1, <1>9, OtherKeeps DEF Resume, ResumeCheck, ResumeStart, ResumeEnds, Cancelled
  <1>10. ASSUME NEW c \in Child, Fault(c) PROVE IInv'
    BY <1>1, <1>10, OtherKeeps
       DEF Fault, Rerun, Timeout, CountRaises, CancelJob, Goto, TypeOK, Cancelled
  <1>11. CASE SubmitRaises
    BY <1>1, <1>11, OtherKeeps DEF SubmitRaises, Cancelled
  <1>12. CASE UNCHANGED vars
    BY <1>1, <1>12, OtherKeeps DEF vars, batchRow, Cancelled
  <1>13. QED
    BY <1>2, <1>3, <1>4, <1>5, <1>6, <1>7, <1>8, <1>9, <1>10, <1>11, <1>12
       DEF Next, Job, OnTerminated, Cancel

\* The compare-and-set's strengthening of PostedOnce is an invariant.
THEOREM Inductive == Spec => []IInv
  BY IInvInit, IInvNext, PTL DEF Spec

\* PostedOnce for every instance: until a cancel of the batch, at most one
\* summary is posted, however many children end, fail or run again at once.
THEOREM PostedAtMostOnce == Spec => []PostedOnce
  <1>1. IInv => PostedOnce
    BY DEF IInv
  <1>2. QED
    BY <1>1, Inductive, PTL

\* A finished batch is no longer waiting for its first child.
FinishedIsTerminal == finished => batch # "QUEUED"

LEMMA RowNext ==
  FinishedIsTerminal /\ [Next]_vars =>
      /\ FinishedIsTerminal'
      /\ finished => finished' /\ batch' \in {batch, "CANCELLED"}
  <1> SUFFICES ASSUME FinishedIsTerminal, [Next]_vars
               PROVE  /\ FinishedIsTerminal'
                      /\ finished => finished' /\ batch' \in {batch, "CANCELLED"}
    OBVIOUS
  <1> USE DEF FinishedIsTerminal, batchRow
  <1>1. CASE UNCHANGED <<batch, finished>>
    BY <1>1
  <1>2. ASSUME NEW c \in Child, Bump(c) \/ Claim(c)
        PROVE  /\ FinishedIsTerminal'
               /\ finished => finished' /\ batch' \in {batch, "CANCELLED"}
    <2>1. DeriveStatus(tally[c]) # "QUEUED"
      BY DEF DeriveStatus
    <2>2. QED
      BY <1>2, <2>1 DEF Bump, Claim
  <1>3. ASSUME NEW x \in Canceller, CancelWrite(x)
        PROVE  /\ FinishedIsTerminal'
               /\ finished => finished' /\ batch' \in {batch, "CANCELLED"}
    BY <1>3 DEF CancelWrite
  <1>4. ASSUME NEW c \in Child,
               \/ Enqueue(c) \/ Start(c) \/ Complete(c) \/ Fail(c) \/ Pause(c) \/ Tell(c)
               \/ CountPending(c) \/ Tally(c) \/ Post(c) \/ Resume(c) \/ Fault(c)
        PROVE  UNCHANGED <<batch, finished>>
    BY <1>4 DEF Enqueue, Start, Complete, Fail, Pause, Tell, CountPending, Tally, Post,
                Resume, ResumeCheck, ResumeStart, ResumeEnds,
                Fault, Rerun, Timeout, CountRaises, CancelJob
  <1>5. ASSUME NEW x \in Canceller, CancelRead(x) \/ CancelCount(x) \/ CancelPost(x)
        PROVE  UNCHANGED <<batch, finished>>
    BY <1>5 DEF CancelRead, CancelCount, CancelPost
  <1>6. SubmitRaises \/ UNCHANGED vars => UNCHANGED <<batch, finished>>
    BY DEF SubmitRaises, vars
  <1>7. QED
    BY <1>1, <1>2, <1>3, <1>4, <1>5, <1>6 DEF Next, Job, OnTerminated, Cancel

\* NeverReopened for every instance: only a cancel replaces the status of a
\* finished batch, neither a late bump nor a second claim does.
THEOREM StaysFinished == Spec => NeverReopened
  <1>1. Init => FinishedIsTerminal
    BY DEF Init, FinishedIsTerminal
  <1>2. FinishedIsTerminal /\ [Next]_vars =>
           [finished => finished' /\ batch' \in {batch, "CANCELLED"}]_<<batch, finished>>
    BY RowNext
  <1>3. FinishedIsTerminal /\ [Next]_vars => FinishedIsTerminal'
    BY RowNext
  <1>4. QED
    BY <1>1, <1>2, <1>3, PTL DEF Spec, NeverReopened

-----------------------------------------------------------------------------
(***************************************************************************)
(* What is told and posted is what the rows say.  Until a cancel, a second *)
(* run or a count that raised, the rows of a batch agree with the jobs and *)
(* requests that write them, and do not change any more once all are       *)
(* terminal: so what the second count sees stays true to the summary.      *)
(***************************************************************************)

\* Until its job is run again or its count raises, a child tells its outcome
\* to one callback, after it has one.
TellsOnce ==
    \A c \in Child :
        /\ pc[c] # "failing"
        /\ Len(told[c]) <= 1
        /\ told[c] # <<>> => pc[c] \notin {"row", "queued", "running", "telling"}

\* No cancel, no second run and no count that raised.
Calm == ~Cancelled /\ Quiet({"rerun", "count", "cancel_job"})

Outcome(c) == IF verdict[c] = "success" THEN "COMPLETED" ELSE "FAILED"

\* The row of a child says where its job, or the request that resumes it, is.
RowAgrees(c) ==
    /\ pc[c] \in {"row", "queued", "running"} => status[c] = "PENDING"
    /\ pc[c] \notin {"row", "queued", "running", "over"} => status[c] = Outcome(c)
    /\ told[c] # <<>> => told[c] = <<verdict[c]>> /\ status[c] = Outcome(c)
    /\ resumer[c] = "checked" => status[c] = "AWAITING_INPUT"
    /\ resumer[c] = "running" => status[c] = "RUNNING"
    /\ status[c] \in {"AWAITING_INPUT", "RUNNING"} => pc[c] = "over" /\ told[c] = <<>>

\* Who counts a second time, claims or posts does so when all have ended, and
\* what was counted is what the rows still say.
CountsStand ==
    /\ \A c \in Child : pc[c] \in {"tallying", "claiming", "posting"} => Pending = {}
    /\ \A c \in Child : pc[c] \in {"claiming", "posting"} => tally[c] = status
    /\ finished => Pending = {} /\ batch = DeriveStatus(status)
    /\ posted # <<>> => finished
    /\ \A i \in DOMAIN posted : /\ posted[i].counts = status
                                /\ posted[i].status = DeriveStatus(status)

CInv ==
    /\ IInv
    /\ FinishedIsTerminal
    /\ Quiet({"rerun", "count"}) => TellsOnce
    /\ Calm => CountsStand /\ \A c \in Child : RowAgrees(c)

LEMMA QuietBefore ==
  ASSUME [Next]_vars, NEW F, Quiet(F)'
  PROVE  Quiet(F)
  <1>1. UNCHANGED faults \/ \E f \in FaultKinds : Happens(f)
    BY DEF Next, vars, Enqueue, Job, Start, Complete, Fail, Pause, Tell, OnTerminated, CountPending,
           Bump, Tally, Claim, Post, Resume, ResumeCheck, ResumeStart, ResumeEnds, Cancel,
           CancelRead, CancelWrite, CancelCount, CancelPost, Fault, Rerun, Timeout, CountRaises,
           CancelJob, SubmitRaises, Happens
  <1>2. faults \subseteq faults'
    BY <1>1 DEF Happens
  <1>3. QED
    BY <1>2 DEF Quiet

LEMMA HappensIsLoud ==
  ASSUME NEW f, Happens(f), NEW F, f \in F
  PROVE  ~Quiet(F)'
  BY DEF Happens, Quiet

LEMMA CancelStays == TypeOK /\ [Next]_vars /\ Cancelled => Cancelled'
  <1> SUFFICES ASSUME TypeOK, [Next]_vars, Cancelled PROVE Cancelled'
    OBVIOUS
  <1>1. \/ UNCHANGED canceller
        \/ \E x \in Canceller : Cancel(x)
    BY DEF Next, vars, Enqueue, Job, Start, Complete, Fail, Pause, Tell, OnTerminated, CountPending,
           Bump, Tally, Claim, Post, Resume, ResumeCheck, ResumeStart, ResumeEnds, Fault, Rerun,
           Timeout, CountRaises, CancelJob, SubmitRaises, users
  <1>2. ASSUME NEW x \in Canceller, Cancel(x)
        PROVE  \E to \in {"writing", "counting", "posting", "over"} :
                  /\ canceller' = [canceller EXCEPT ![x] = to]
                  /\ to = "writing" => canceller[x] = "idle"
    BY <1>2 DEF Cancel, CancelRead, CancelWrite, CancelCount, CancelPost, GotoCancel
  <1>3. QED
    BY <1>1, <1>2 DEF Cancelled, TypeOK

\* A step of a child in a calm behaviour.
CalmStep(c) ==
    \/ Enqueue(c) \/ Start(c) \/ Complete(c) \/ Fail(c) \/ Pause(c) \/ Tell(c) \/ OnTerminated(c)
    \/ Resume(c) \/ Timeout(c)

LEMMA CalmCases ==
  ASSUME TypeOK, [Next]_vars, Calm'
  PROVE  \/ \E c \in Child : CalmStep(c)
         \/ UNCHANGED <<status, batch, finished, pc, verdict, told, tally, posted, resumer>>
  <1>1. CASE UNCHANGED vars
    BY <1>1 DEF vars
  <1>2. CASE SubmitRaises
    BY <1>2 DEF SubmitRaises, batchRow, jobs, users
  <1>3. ASSUME NEW x \in Canceller, Cancel(x)
        PROVE  UNCHANGED <<status, batch, finished, pc, verdict, told, tally, posted, resumer>>
    <2>1. CASE CancelRead(x)
      BY <2>1 DEF CancelRead, batchRow, jobs
    <2>2. CASE CancelWrite(x) \/ CancelCount(x) \/ CancelPost(x)
      <3>1. canceller'[x] \in {"counting", "posting", "over"}
        BY <2>2 DEF CancelWrite, CancelCount, CancelPost, GotoCancel, TypeOK
      <3>2. QED
        BY <3>1 DEF Calm, Cancelled
    <2>3. QED
      BY <1>3, <2>1, <2>2 DEF Cancel
  <1>4. ASSUME NEW c \in Child, Fault(c) PROVE Timeout(c)
    <2>1. ~Rerun(c) /\ ~CountRaises(c) /\ ~CancelJob(c)
      BY HappensIsLoud DEF Calm, Rerun, CountRaises, CancelJob
    <2>2. QED
      BY <1>4, <2>1 DEF Fault
  <1>5. QED
    BY <1>1, <1>2, <1>3, <1>4 DEF Next, Job, CalmStep

-----------------------------------------------------------------------------

LEMMA TellsOnceNext ==
  ASSUME TypeOK, TellsOnce, [Next]_vars, Quiet({"rerun", "count"})'
  PROVE  TellsOnce'
  <1> USE DEF TypeOK, Goto, TellsOnce
  <1>1. ASSUME NEW c \in Child, Tell(c) PROVE TellsOnce'
    <2>1. /\ pc' = [pc EXCEPT ![c] = "counting"]
          /\ told' = [told EXCEPT ![c] = Append(@, verdict[c])]
          /\ told[c] = <<>>
      BY <1>1 DEF Tell
    <2>2. Len(told'[c]) = 1
      BY <2>1
    <2>3. \A d \in Child : d # c => pc'[d] = pc[d] /\ told'[d] = told[d]
      BY <2>1
    <2>4. QED
      BY <2>1, <2>2, <2>3
  <1>2. ASSUME NEW c \in Child, NEW x, UNCHANGED told, pc' = [pc EXCEPT ![c] = x],
               x # "failing",
               x \in {"row", "queued", "running", "telling"} =>
                  pc[c] \in {"row", "queued", "running", "telling"}
        PROVE  TellsOnce'
    BY <1>2
  <1>3. ASSUME NEW c \in Child,
               Enqueue(c) \/ Start(c) \/ Complete(c) \/ Fail(c) \/ Pause(c)
        PROVE  TellsOnce'
    BY <1>3, <1>2 DEF Enqueue, Start, Complete, Fail, Pause
  <1>4. ASSUME NEW c \in Child, OnTerminated(c) \/ Timeout(c) PROVE TellsOnce'
    BY <1>4, <1>2 DEF OnTerminated, CountPending, Bump, Tally, Claim, Post, Timeout
  <1>5. ASSUME NEW c \in Child, Resume(c) \/ CancelJob(c) PROVE UNCHANGED <<pc, told>>
    BY <1>5 DEF Resume, ResumeCheck, ResumeStart, ResumeEnds, CancelJob, jobs
  <1>6. ASSUME NEW c \in Child, Rerun(c) \/ CountRaises(c) PROVE FALSE
    BY <1>6, HappensIsLoud DEF Rerun, CountRaises
  <1>7. ASSUME NEW x \in Canceller, Cancel(x) PROVE UNCHANGED <<pc, told>>
    BY <1>7 DEF Cancel, CancelRead, CancelWrite, CancelCount, CancelPost, jobs
  <1>8. SubmitRaises \/ UNCHANGED vars => UNCHANGED <<pc, told>>
    BY DEF SubmitRaises, vars, jobs
  <1>9. UNCHANGED <<pc, told>> => TellsOnce'
    OBVIOUS
  <1>10. QED
    BY <1>1, <1>3, <1>4, <1>5, <1>6, <1>7, <1>8, <1>9 DEF Next, Job, Fault

\* A step of a child touches no other child.
LEMMA OthersKept ==
  ASSUME TypeOK, NEW c \in Child, CalmStep(c)
  PROVE  \A d \in Child : d # c =>
            /\ status'[d] = status[d] /\ pc'[d] = pc[d] /\ verdict'[d] = verdict[d]
            /\ told'[d] = told[d] /\ tally'[d] = tally[d] /\ resumer'[d] = resumer[d]
  <1> USE DEF TypeOK, Goto, SetStatus, jobs, users
  <1>1. CASE Enqueue(c) \/ Start(c) \/ Complete(c) \/ Fail(c) \/ Pause(c) \/ Tell(c) \/ Timeout(c)
    BY <1>1 DEF Enqueue, Start, Complete, Fail, Pause, Tell, Timeout
  <1>2. CASE OnTerminated(c)
    BY <1>2 DEF OnTerminated, CountPending, Bump, Tally, Claim, Post
  <1>3. CASE Resume(c)
    BY <1>3 DEF Resume, ResumeCheck, ResumeStart, ResumeEnds
  <1>4. QED
    BY <1>1, <1>2, <1>3 DEF CalmStep

LEMMA RowAgreesNext ==
  ASSUME TypeOK, TellsOnce, \A d \in Child : RowAgrees(d), NEW c \in Child, CalmStep(c)
  PROVE  \A d \in Child : RowAgrees(d)'
  <1>1. \A d \in Child : d # c => RowAgrees(d)'
    BY OthersKept DEF RowAgrees, Outcome
  <1> USE DEF TypeOK, TellsOnce, Goto, SetStatus, jobs, users, RowAgrees, Outcome
  <1>2. CASE Enqueue(c) \/ Start(c)
    BY <1>2 DEF Enqueue, Start
  <1>3. CASE Complete(c) \/ Fail(c) \/ Pause(c)
    BY <1>3 DEF Complete, Fail, Pause
  <1>4. CASE Tell(c)
    <2>1. told[c] = <<>> /\ verdict[c] \in Verdict
      BY <1>4 DEF Tell
    <2>2. told'[c] = <<verdict[c]>> /\ verdict' = verdict /\ told'[c] # <<>>
      BY <1>4, <2>1 DEF Tell
    <2>3. pc[c] = "telling" /\ pc'[c] = "counting" /\ UNCHANGED <<status, resumer>>
      BY <1>4 DEF Tell
    <2>4. RowAgrees(c)'
      BY <2>2, <2>3
    <2>5. QED
      BY <1>1, <2>4
  <1>5. CASE OnTerminated(c) \/ Timeout(c)
    <2>1. /\ UNCHANGED <<status, verdict, told, resumer>>
          /\ pc[c] \in {"running", "telling", "failing", "counting", "bumping",
                        "tallying", "claiming", "posting"}
          /\ \/ pc'[c] = "over"
             \/ pc[c] # "running" /\ pc'[c] \in {"bumping", "tallying", "claiming", "posting"}
      BY <1>5 DEF OnTerminated, CountPending, Bump, Tally, Claim, Post, Timeout, Busy, Job_PC
    <2>2. RowAgrees(c)'
      BY <2>1
    <2>3. QED
      BY <1>1, <2>2
  <1>6. CASE Resume(c)
    <2>1. CASE ResumeCheck(c)
      BY <1>1, <2>1 DEF ResumeCheck
    <2>2. CASE ResumeStart(c)
      BY <1>1, <2>2 DEF ResumeStart
    <2>3. CASE ResumeEnds(c)
      BY <1>1, <2>3 DEF ResumeEnds
    <2>4. QED
      BY <1>6, <2>1, <2>2, <2>3 DEF Resume
  <1>7. QED
    BY <1>2, <1>3, <1>4, <1>5, <1>6, <1>1 DEF CalmStep

\* When all the rows are terminal, no one writes to them any more.
LEMMA RowsFrozen ==
  ASSUME TypeOK, TellsOnce, NEW c \in Child, RowAgrees(c), CalmStep(c), Pending = {}
  PROVE  status' = status
  <1>1. status[c] \in {"COMPLETED", "FAILED", "CANCELLED"}
    BY DEF Pending, TERMINAL_EXEC_STATUSES
  <1>2. ~Complete(c) /\ ~Fail(c) /\ ~Pause(c)
    BY <1>1 DEF RowAgrees, Complete, Fail, Pause, TellsOnce
  <1>3. ~ResumeStart(c) /\ ~ResumeEnds(c)
    BY <1>1 DEF RowAgrees, ResumeStart, ResumeEnds
  <1>4. QED
    BY <1>2, <1>3 DEF CalmStep, Enqueue, Start, Tell, OnTerminated, CountPending, Bump, Tally,
                      Claim, Post, Resume, ResumeCheck, Timeout

LEMMA CountsStandNext ==
  ASSUME IInv, FinishedIsTerminal, TellsOnce, CountsStand, ~Cancelled,
         NEW c \in Child, RowAgrees(c), CalmStep(c)
  PROVE  CountsStand'
  <1> USE DEF IInv, TypeOK
  <1>1. \A d \in Child : d # c => pc'[d] = pc[d] /\ tally'[d] = tally[d]
    BY OthersKept
  <1>2. CASE Pending # {}
    <2>1. pc[c] \notin {"tallying", "claiming", "posting"} /\ ~finished /\ posted = <<>>
      BY <1>2 DEF CountsStand
    <2>2. pc'[c] \notin {"tallying", "claiming", "posting"} /\ UNCHANGED <<finished, posted>>
      BY <1>2, <2>1 DEF CalmStep, Enqueue, Start, Complete, Fail, Pause, Tell, OnTerminated,
                        CountPending, Bump, Tally, Claim, Post, Resume, ResumeCheck, ResumeStart,
                        ResumeEnds, Timeout, Goto, batchRow, jobs
    <2>3. \A d \in Child : pc'[d] \notin {"tallying", "claiming", "posting"}
      BY <1>1, <1>2, <2>2 DEF CountsStand
    <2>4. QED
      BY <2>1, <2>2, <2>3 DEF CountsStand
  <1>3. CASE Pending = {}
    <2>1. status' = status /\ Pending' = {} /\ DeriveStatus(status)' = DeriveStatus(status)
      <3>1. status' = status
        BY <1>3, RowsFrozen
      <3>2. QED
        BY <1>3, <3>1 DEF Pending, DeriveStatus
    <2>2. ASSUME tally'[c] = tally[c] \/ tally'[c] = status,
                 pc'[c] \in {"claiming", "posting"} =>
                    pc[c] \in {"claiming", "posting"} \/ tally'[c] = status,
                 finished' => batch' = DeriveStatus(status),
                 finished => finished',
                 UNCHANGED posted
          PROVE  CountsStand'
      <3>1. \A d \in Child : pc'[d] \in {"claiming", "posting"} => tally'[d] = status
        BY <1>1, <2>2 DEF CountsStand
      <3>2. QED
        BY <2>1, <2>2, <3>1 DEF CountsStand
    <2>3. CASE Post(c)
      <3>1. /\ pc[c] = "posting" /\ pc'[c] = "over"
            /\ UNCHANGED <<tally, batch, finished>>
            /\ posted' = Append(posted, [status |-> batch, counts |-> tally[c]])
        BY <2>3 DEF Post, Goto, batchRow
      <3>2. finished /\ batch = DeriveStatus(status) /\ tally[c] = status
        BY <3>1 DEF OneClaim, CountsStand
      <3>3. \A i \in DOMAIN posted' : /\ posted'[i].counts = status
                                      /\ posted'[i].status = DeriveStatus(status)
        <4>1. posted = <<>>
          BY <3>1 DEF OneClaim
        <4>2. \A e : Append(<<>>, e) = <<e>> /\ DOMAIN <<e>> = {1} /\ <<e>>[1] = e
          OBVIOUS
        <4>3. posted' = <<[status |-> batch, counts |-> tally[c]]>>
          BY <3>1, <4>1, <4>2
        <4>4. QED
          BY <3>2, <4>2, <4>3
      <3>4. \A d \in Child : pc'[d] \in {"claiming", "posting"} => tally'[d] = status
        BY <1>1, <3>1 DEF CountsStand
      <3>5. QED
        BY <2>1, <3>1, <3>2, <3>3, <3>4 DEF CountsStand
    <2>4. CASE Claim(c)
      <3>1. tally[c] = status
        BY <2>4 DEF Claim, CountsStand
      <3>2. QED
        BY <2>2, <2>4, <3>1 DEF Claim, CountsStand
    <2>5. CASE Bump(c)
      BY <2>2, <2>5 DEF Bump, Goto, CountsStand, FinishedIsTerminal
    <2>6. CASE Tally(c)
      BY <2>2, <2>6 DEF Tally, Goto, batchRow, CountsStand
    <2>7. CASE /\ UNCHANGED <<batch, finished, tally, posted>>
               /\ pc'[c] \in {"claiming", "posting"} => pc[c] \in {"claiming", "posting"}
      BY <2>2, <2>7 DEF CountsStand
    <2>8. QED
      BY <2>3, <2>4, <2>5, <2>6, <2>7
         DEF CalmStep, Enqueue, Start, Complete, Fail, Pause, Tell, OnTerminated, CountPending,
             Resume, ResumeCheck, ResumeStart, ResumeEnds, Timeout, Goto, batchRow, jobs
  <1>4. QED
    BY <1>2, <1>3

LEMMA CInvInit == Init => CInv
  <1> SUFFICES ASSUME Init PROVE CInv
    OBVIOUS
  <1>1. IInv
    BY IInvInit
  <1>2. FinishedIsTerminal /\ TellsOnce /\ CountsStand
    BY DEF Init, FinishedIsTerminal, TellsOnce, CountsStand
  <1>3. \A c \in Child : RowAgrees(c)
    BY DEF Init, RowAgrees
  <1>4. QED
    BY <1>1, <1>2, <1>3 DEF CInv

LEMMA CInvNext == CInv /\ [Next]_vars => CInv'
  <1> SUFFICES ASSUME CInv, [Next]_vars PROVE CInv'
    OBVIOUS
  <1>1. IInv' /\ FinishedIsTerminal' /\ TypeOK
    BY IInvNext, RowNext DEF CInv, IInv
  <1>2. Quiet({"rerun", "count"})' => TellsOnce'
    BY <1>1, TellsOnceNext, QuietBefore DEF CInv
  <1>3. ASSUME Calm' PROVE CountsStand' /\ \A c \in Child : RowAgrees(c)'
    <2>1. Calm
      BY <1>1, <1>3, QuietBefore, CancelStays DEF Calm
    <2>2. Quiet({"rerun", "count"}) /\ ~Cancelled
      BY <2>1 DEF Calm, Quiet
    <2>3. IInv /\ FinishedIsTerminal /\ TellsOnce /\ CountsStand /\ \A c \in Child : RowAgrees(c)
      BY <2>1, <2>2 DEF CInv
    <2>4. ASSUME NEW c \in Child, CalmStep(c) PROVE CountsStand' /\ \A d \in Child : RowAgrees(d)'
      BY <1>1, <2>2, <2>3, <2>4, RowAgreesNext, CountsStandNext
    <2>5. CASE UNCHANGED <<status, batch, finished, pc, verdict, told, tally, posted, resumer>>
      <3>1. CountsStand'
        BY <2>3, <2>5 DEF CountsStand, Pending, DeriveStatus
      <3>2. \A d \in Child : RowAgrees(d)'
        BY <2>3, <2>5 DEF RowAgrees, Outcome
      <3>3. QED
        BY <3>1, <3>2
    <2>6. QED
      BY <1>1, <1>3, <2>4, <2>5, CalmCases
  <1>4. QED
    BY <1>1, <1>2, <1>3 DEF CInv

\* The rows agree with whoever writes them, for every instance: the
\* strengthening of the two properties below.
THEOREM Agreement == Spec => []CInv
  BY CInvInit, CInvNext, PTL DEF Spec

\* SummaryIsFinal for every instance: whichever child posts the summary, its
\* counts and its status are those the rows end with.
THEOREM SummaryFinal == Spec => []SummaryIsFinal
  <1>1. CInv => SummaryIsFinal
    BY DEF CInv, Calm, CountsStand, SummaryIsFinal
  <1>2. QED
    BY <1>1, Agreement, PTL

\* ToldOnce for every instance: a child's callback is POSTed once, and says
\* what its row does.
THEOREM ChildToldOnce == Spec => []ToldOnce
  <1>1. CInv => ToldOnce
    <2>1. SUFFICES ASSUME CInv, Quiet({"rerun", "count"}), NEW c \in Child
                   PROVE  /\ Len(told[c]) <= 1
                          /\ Quiet({"cancel_job"}) /\ ~Cancelled /\ told[c] # <<>> =>
                                status[c] = IF told[c][1] = "success" THEN "COMPLETED" ELSE "FAILED"
      BY DEF ToldOnce
    <2>2. Len(told[c]) <= 1
      BY <2>1 DEF CInv, TellsOnce
    <2>3. Quiet({"cancel_job"}) /\ ~Cancelled => Calm
      BY <2>1 DEF Calm, Quiet
    <2>4. Calm /\ told[c] # <<>> => told[c] = <<verdict[c]>> /\ status[c] = Outcome(c)
      BY <2>1 DEF CInv, RowAgrees
    <2>5. QED
      BY <2>2, <2>3, <2>4 DEF Outcome
  <1>2. QED
    BY <1>1, Agreement, PTL

=============================================================================
