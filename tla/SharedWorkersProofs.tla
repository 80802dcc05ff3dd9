------------------------ MODULE SharedWorkersProofs ------------------------
(***************************************************************************)
(* For any executions, nesting, worker counts, reruns, faults and          *)
(* administration: a try starts its function once, a completed row is that *)
(* of a function that returned, and admission slots are held by what is    *)
(* under way.                                                              *)
(***************************************************************************)
EXTENDS SharedWorkers, TLAPS

Row_Status == {"none", "pending", "running", "awaiting_input", "completed", "failed"}
Step_PC == {"queued", "loaded", "counted", "admitted", "placed", "polling", "leaving",
            "reporting", "over"}
Thread_PC == {"running", "asking", "returned", "ended"}
Threads == [at : Nat, try : Nat, pc : Thread_PC]
Client_Fields == {"pc", "of", "at", "outcome"}

\* The lists of workers do not matter for what is proved here.
Typed ==
    /\ docker \subseteq Nat
    /\ row \in [Exec -> Row_Status] /\ outcome \in [Exec -> Row_Status]
    /\ step \in [Exec -> Step_PC]
    /\ tries \in [Exec -> Nat] /\ inflight \subseteq Exec
    /\ threads \in [Exec -> Seq(Threads)]
    /\ requests \subseteq [of : Exec, at : Nat, try : Nat]
    /\ DOMAIN client = Client
    /\ \A c \in Client : DOMAIN client[c] = Client_Fields /\ client[c].outcome \in Row_Status

Returned(e) == \E k \in DOMAIN threads[e] : threads[e][k].pc = "returned"

\* What result files, tries and requests to continue say.
Told ==
    /\ \A f \in files : f.is = "completed" => f.of \in Exec /\ Returned(f.of)
    /\ \A e \in Exec : outcome[e] = "completed" => Returned(e)
    /\ \A c \in Client : client[c].outcome = "completed" =>
          client[c].of \in Exec /\ Returned(client[c].of)

Unsent == {"loaded", "counted", "admitted", "placed"}

\* A try has sent its request when there is one, or a thread, of it.
Sent ==
    /\ \A r \in requests : /\ r.try <= tries[r.of]
                           /\ step[r.of] \in Unsent => r.try # tries[r.of]
    /\ \A e \in Exec : \A k \in DOMAIN threads[e] :
          /\ threads[e][k].try <= tries[e]
          /\ step[e] \in Unsent => threads[e][k].try # tries[e]

\* A try has one request; while it is there after its thread has started, the
\* executor waits for that thread.
Awaited ==
    /\ \A r, s \in requests : r.of = s.of /\ r.try = s.try => r = s
    /\ \A r \in requests : \A k \in DOMAIN threads[r.of] :
          threads[r.of][k].try = r.try => <<r.of, k>> \in joined /\ threads[r.of][k].at = r.at

\* Only gated executions meet the admission.
Admission ==
    /\ \A e \in Exec : step[e] \in {"loaded", "counted", "leaving"} => Gated(e)
    /\ \A e \in inflight : Gated(e)

IInv == Typed /\ Told /\ Sent /\ Awaited /\ Admission
        /\ CompletedRan /\ OneRunPerTry /\ SlotsHeld

-----------------------------------------------------------------------------
(* Threads that go on, and those of containers that stop.                  *)

\* No thread is started or forgotten, and none takes back that it returned.
GoOn ==
    /\ threads' \in [Exec -> Seq(Threads)]
    /\ \A e \in Exec :
          /\ DOMAIN threads'[e] = DOMAIN threads[e]
          /\ \A k \in DOMAIN threads[e] :
                /\ threads'[e][k].at = threads[e][k].at /\ threads'[e][k].try = threads[e][k].try
                /\ threads[e][k].pc = "returned" => threads'[e][k].pc = "returned"

LEMMA GoesOn ==
  ASSUME Typed, NEW e \in Exec, NEW k \in DOMAIN threads[e], NEW from, NEW to \in Thread_PC,
         "returned" \notin from, ThreadGoes(e, k, from, to)
  PROVE  GoOn /\ threads'[e][k].pc = to
  <1>1. threads[e] \in Seq(Threads) /\ threads[e][k] \in Threads /\ threads[e][k].pc \in from
    BY DEF Typed, ThreadGoes
  <1> DEFINE t == [threads[e][k] EXCEPT !.pc = to]
  <1>2. t \in Threads /\ t.pc = to /\ t.at = threads[e][k].at /\ t.try = threads[e][k].try
    BY <1>1 DEF Threads
  <1> DEFINE s == [threads[e] EXCEPT ![k] = t]
  <1>3. s \in Seq(Threads) /\ DOMAIN s = DOMAIN threads[e] /\ s[k] = t
        /\ \A j \in DOMAIN threads[e] : j # k => s[j] = threads[e][j]
    BY <1>1, <1>2
  <1>4. threads' = [threads EXCEPT ![e] = s]
    BY DEF ThreadGoes
  <1> HIDE DEF t, s
  <1>5. threads'[e] = s /\ threads' \in [Exec -> Seq(Threads)]
        /\ \A o \in Exec : o # e => threads'[o] = threads[o]
    BY <1>3, <1>4 DEF Typed
  <1>6. QED
    BY <1>1, <1>2, <1>3, <1>5 DEF GoOn

LEMMA LostGoOn == ASSUME Typed, NEW C, Lost(C) PROVE GoOn
  <1> DEFINE T(e, k) == IF threads[e][k].at \in C /\ threads[e][k].pc \in Live
                        THEN [threads[e][k] EXCEPT !.pc = "ended"] ELSE threads[e][k]
  <1>1. threads' = [e \in Exec |-> [k \in DOMAIN threads[e] |-> T(e, k)]]
    BY DEF Lost
  <1>2. ASSUME NEW e \in Exec, NEW k \in DOMAIN threads[e]
        PROVE  /\ T(e, k) \in Threads
               /\ T(e, k).at = threads[e][k].at /\ T(e, k).try = threads[e][k].try
               /\ threads[e][k].pc = "returned" => T(e, k).pc = "returned"
    <2>1. threads[e][k] \in Threads
      BY <1>2 DEF Typed
    <2>2. QED
      BY <2>1 DEF Threads, Thread_PC, Live
  <1> HIDE DEF T
  <1>3. ASSUME NEW e \in Exec
        PROVE  threads'[e] = [k \in DOMAIN threads[e] |-> T(e, k)] /\ threads'[e] \in Seq(Threads)
    <2>1. threads'[e] = [k \in DOMAIN threads[e] |-> T(e, k)]
      BY <1>1
    <2>2. threads[e] \in Seq(Threads)
      BY DEF Typed
    <2>3. DOMAIN threads[e] = 1 .. Len(threads[e]) /\ Len(threads[e]) \in Nat
      BY <2>2
    <2>4. threads'[e] \in [1 .. Len(threads[e]) -> Threads]
      BY <1>2, <2>1, <2>3
    <2>5. QED
      BY <2>1, <2>3, <2>4
  <1>4. threads' \in [Exec -> Seq(Threads)]
    BY <1>1, <1>3
  <1>5. QED
    BY <1>2, <1>3, <1>4 DEF GoOn

LEMMA StaysReturned ==
  ASSUME GoOn, NEW e \in Exec, Returned(e)
  PROVE  Returned(e)'
  BY DEF GoOn, Returned

\* Requests and files are lost with the threads that were waited for.
LEMMA LostForgets ==
  ASSUME Typed, Awaited, NEW C, Lost(C)
  PROVE  /\ requests' \subseteq requests /\ files' \subseteq files
         /\ \A r \in requests' : \A k \in DOMAIN threads[r.of] :
               threads[r.of][k].try = r.try => <<r.of, k>> \in joined'
  <1>1. requests' \subseteq requests /\ files' \subseteq files
    BY DEF Lost
  <1>2. ASSUME NEW r \in requests', NEW k \in DOMAIN threads[r.of], threads[r.of][k].try = r.try
        PROVE  <<r.of, k>> \in joined'
    <2>1. r \in requests /\ r.at \notin C
      BY DEF Lost
    <2>2. <<r.of, k>> \in joined /\ threads[r.of][k].at = r.at
      BY <1>2, <2>1 DEF Awaited
    <2>3. At(<<r.of, k>>) \notin C
      BY <2>1, <2>2 DEF At
    <2>4. QED
      BY <2>2, <2>3 DEF Lost
  <1>3. QED
    BY <1>1, <1>2

\* A step that starts no thread and no try.
LEMMA ExecutorKeeps ==
  ASSUME IInv, GoOn, docker' \subseteq Nat,
         UNCHANGED <<step, tries, outcome, inflight, abandoned>>,
         requests' \subseteq requests,
         \A r \in requests' : \A k \in DOMAIN threads[r.of] :
            threads[r.of][k].try = r.try => <<r.of, k>> \in joined',
         \A f \in files' : f \in files \/ (f.is = "completed" => f.of \in Exec /\ Returned(f.of)),
         row' \in [Exec -> Row_Status],
         \A e \in Exec : row'[e] = "completed" => row[e] = "completed" \/ Returned(e),
         DOMAIN client' = Client,
         \A c \in Client :
            /\ DOMAIN client'[c] = Client_Fields /\ client'[c].outcome \in Row_Status
            /\ client'[c].outcome = "completed" =>
                  client'[c].of \in Exec /\ Returned(client'[c].of)
  PROVE  IInv'
  <1>0. Typed /\ Told /\ Sent /\ Awaited /\ Admission
    BY DEF IInv
  <1>1. \A e \in Exec : Returned(e) => Returned(e)'
    BY StaysReturned
  <1>2. \A e \in Exec : DOMAIN threads'[e] = DOMAIN threads[e]
           /\ \A k \in DOMAIN threads[e] : /\ threads'[e][k].at = threads[e][k].at
                                           /\ threads'[e][k].try = threads[e][k].try
    BY DEF GoOn
  <1>3. \A r \in requests' : r \in requests /\ r.of \in Exec
    BY <1>0 DEF Typed
  <1>4. Typed'
    BY <1>0, <1>3 DEF Typed, GoOn
  <1>5. Told'
    <2>1. \A f \in files' : f.is = "completed" => f.of \in Exec /\ Returned(f.of)
      BY <1>0 DEF Told
    <2>2. QED
      BY <1>0, <1>1, <2>1 DEF Told
  <1>6. Sent'
    BY <1>0, <1>2, <1>3 DEF Sent
  <1>7. Awaited'
    BY <1>0, <1>2, <1>3 DEF Awaited
  <1>8. Admission' /\ SlotsHeld'
    BY DEF IInv, Admission, SlotsHeld, Admitted, Gated, TopLevel
  <1>9. CompletedRan'
    <2>1. \A e \in Exec : row[e] = "completed" => Returned(e)
      BY DEF IInv, CompletedRan, Returned
    <2>2. \A e \in Exec : row'[e] = "completed" => Returned(e)'
      BY <1>1, <2>1
    <2>3. QED
      BY <2>2 DEF CompletedRan, Returned
  <1>10. OneRunPerTry'
    BY <1>2 DEF IInv, OneRunPerTry
  <1>11. QED
    BY <1>4, <1>5, <1>6, <1>7, <1>8, <1>9, <1>10 DEF IInv

-----------------------------------------------------------------------------
(* Steps of the backend.                                                   *)

Holding == {"admitted", "placed", "polling", "leaving"}

\* A step of one execution's try that touches no container.
LEMMA BackendKeeps ==
  ASSUME IInv, NEW e \in Exec, NEW s \in Step_PC, NEW status \in Row_Status,
         UNCHANGED <<docker, client, executor, tries>>,
         step' = [step EXCEPT ![e] = s],
         s \in Unsent => step[e] \in Unsent,
         s \in {"loaded", "counted", "leaving"} => Gated(e),
         outcome' = [outcome EXCEPT ![e] = status],
         status = "completed" => Returned(e),
         row' \in [Exec -> Row_Status],
         \A o \in Exec : row'[o] = "completed" => row[o] = "completed" \/ Returned(o),
         inflight' \subseteq inflight \cup {e},
         \A o \in inflight : o # e /\ Admitted(o) => o \in inflight',
         \A o \in inflight' : o # e /\ o \in abandoned => o \in abandoned',
         e \in inflight' => Gated(e) /\ (s \in Holding \/ e \in abandoned'),
         Gated(e) /\ s \in Holding => e \in inflight'
  PROVE  IInv'
  <1>0. Typed /\ Told /\ Sent /\ Awaited /\ Admission
    BY DEF IInv
  <1>1. /\ step' \in [Exec -> Step_PC] /\ step'[e] = s /\ \A o \in Exec \ {e} : step'[o] = step[o]
        /\ outcome' \in [Exec -> Row_Status] /\ outcome'[e] = status
        /\ \A o \in Exec \ {e} : outcome'[o] = outcome[o]
    BY <1>0 DEF Typed
  <1>2. UNCHANGED <<threads, joined, requests, files>>
    BY DEF executor
  <1>3. Typed'
    BY <1>0, <1>1, <1>2 DEF Typed
  <1>4. Told'
    BY <1>0, <1>1, <1>2 DEF Told, Returned
  <1>5. Sent'
    <2>1. \A o \in Exec : step'[o] \in Unsent => step[o] \in Unsent
      BY <1>1
    <2>2. \A r \in requests : r.of \in Exec
      BY <1>0 DEF Typed
    <2>3. QED
      BY <1>0, <1>2, <2>1, <2>2 DEF Sent
  <1>6. Awaited'
    BY <1>0, <1>2 DEF Awaited
  <1>7. Admission'
    BY <1>0, <1>1 DEF Admission, Gated, TopLevel
  <1>8. CompletedRan' /\ OneRunPerTry'
    BY <1>2 DEF IInv, CompletedRan, OneRunPerTry, Returned
  <1>9. SlotsHeld'
    <2>1. ASSUME NEW o \in inflight' PROVE Admitted(o)' \/ o \in abandoned'
      <3>1. CASE o = e
        BY <1>1, <3>1 DEF Admitted, Holding
      <3>2. CASE o # e
        BY <1>0, <1>1, <2>1, <3>2 DEF IInv, SlotsHeld, Admitted, Typed
      <3>3. QED
        BY <3>1, <3>2
    <2>2. ASSUME NEW o \in Exec, Gated(o), Admitted(o)' PROVE o \in inflight'
      <3>1. CASE o = e
        BY <1>1, <2>2, <3>1 DEF Admitted, Holding
      <3>2. CASE o # e
        <4>1. Admitted(o) /\ o \in inflight
          BY <1>1, <2>2, <3>2 DEF IInv, SlotsHeld, Admitted
        <4>2. QED
          BY <3>2, <4>1
      <3>3. QED
        BY <3>1, <3>2
    <2>3. QED
      BY <2>1, <2>2 DEF SlotsHeld, Gated, TopLevel
  <1>10. QED
    BY <1>3, <1>4, <1>5, <1>6, <1>7, <1>8, <1>9 DEF IInv

\* What is known of the execution that takes such a step.
LEMMA Facts ==
  ASSUME IInv, NEW e \in Exec
  PROVE  /\ step[e] \in Step_PC /\ outcome[e] \in Row_Status
         /\ outcome[e] = "completed" => Returned(e)
         /\ outcome = [outcome EXCEPT ![e] = outcome[e]]
         /\ row \in [Exec -> Row_Status]
         /\ step[e] \in {"loaded", "counted", "leaving"} => Gated(e)
         /\ e \in inflight => Gated(e) /\ (step[e] \in Holding \/ e \in abandoned)
         /\ Gated(e) /\ step[e] \in Holding => e \in inflight
  BY DEF IInv, Typed, Told, Admission, SlotsHeld, Admitted, Holding

LEMMA LoadKeeps == ASSUME IInv, NEW e \in Exec, Load(e) PROVE IInv'
  <1>0. Typed /\ Told /\ Sent /\ Awaited /\ Admission
    BY DEF IInv
  <1>1. /\ step[e] = "queued"
        /\ step' = [step EXCEPT ![e] = IF Gated(e) THEN "loaded" ELSE "admitted"]
        /\ tries' = [tries EXCEPT ![e] = @ + 1]
        /\ row' = [row EXCEPT ![e] = IF @ = "none" THEN "running" ELSE @]
        /\ UNCHANGED <<docker, client, threads, joined, requests, files, outcome, inflight, abandoned>>
    BY DEF Load, Goes, containers, executor
  <1>2. /\ step' \in [Exec -> Step_PC] /\ \A o \in Exec \ {e} : step'[o] = step[o]
        /\ step'[e] \in {"loaded", "admitted"} /\ (step'[e] = "loaded" <=> Gated(e))
        /\ tries' \in [Exec -> Nat] /\ tries'[e] = tries[e] + 1
        /\ \A o \in Exec \ {e} : tries'[o] = tries[o]
    BY <1>0, <1>1 DEF Typed, Step_PC
  <1>3. row' \in [Exec -> Row_Status] /\ \A o \in Exec : row'[o] = "completed" => row[o] = "completed"
    BY <1>0, <1>1 DEF Typed, Row_Status
  <1>4. Typed' /\ Told' /\ Awaited'
    BY <1>0, <1>1, <1>2, <1>3 DEF Typed, Told, Returned, Awaited
  <1>5. Sent'
    <2>1. ASSUME NEW r \in requests
          PROVE  /\ r.try <= tries'[r.of]
                 /\ step'[r.of] \in Unsent => r.try # tries'[r.of]
      <3>1. r.of \in Exec /\ r.try \in Nat /\ r.try <= tries[r.of] /\ tries[r.of] \in Nat
            /\ (step[r.of] \in Unsent => r.try # tries[r.of])
        BY <1>0 DEF Typed, Sent
      <3>2. CASE r.of = e
        BY <1>2, <3>1, <3>2
      <3>3. CASE r.of # e
        BY <1>2, <3>1, <3>3
      <3>4. QED
        BY <3>2, <3>3
    <2>2. ASSUME NEW o \in Exec, NEW k \in DOMAIN threads[o]
          PROVE  /\ threads[o][k].try <= tries'[o]
                 /\ step'[o] \in Unsent => threads[o][k].try # tries'[o]
      <3>1. threads[o][k] \in Threads /\ tries[o] \in Nat
        BY <1>0 DEF Typed
      <3>2. threads[o][k].try \in Nat /\ threads[o][k].try <= tries[o]
            /\ (step[o] \in Unsent => threads[o][k].try # tries[o])
        BY <1>0, <3>1 DEF Threads, Sent
      <3>3. CASE o = e
        BY <1>2, <3>1, <3>2, <3>3
      <3>4. CASE o # e
        BY <1>2, <3>2, <3>4
      <3>5. QED
        BY <3>3, <3>4
    <2>3. QED
      BY <1>1, <2>1, <2>2 DEF Sent
  <1>6. Admission' /\ SlotsHeld'
    <2>1. ~Admitted(e) /\ (Gated(e) => ~Admitted(e)')
      BY <1>1, <1>2 DEF Admitted
    <2>2. QED
      BY <1>0, <1>1, <1>2, <2>1 DEF IInv, Admission, SlotsHeld, Admitted, Gated, TopLevel, Typed
  <1>7. CompletedRan' /\ OneRunPerTry'
    BY <1>1, <1>3 DEF IInv, CompletedRan, OneRunPerTry
  <1>8. QED
    BY <1>4, <1>5, <1>6, <1>7 DEF IInv

LEMMA CountKeeps == ASSUME IInv, NEW e \in Exec, Count(e) PROVE IInv'
  <1>1. step[e] = "loaded" /\ UNCHANGED <<docker, client, executor, tries, row, abandoned>>
    BY DEF Count, containers
  <1>2. PICK old \in SUBSET Prunable : inflight' = inflight \ old
    BY DEF Count
  <1>3. \A o \in inflight : Admitted(o) => o \in inflight'
    BY <1>2 DEF Prunable
  <1>4. PICK s \in {"counted", "reporting"}, status \in {outcome[e], "failed"} :
           step' = [step EXCEPT ![e] = s] /\ outcome' = [outcome EXCEPT ![e] = status]
    BY Facts DEF Count, Goes, Reporting
  <1>5. s \in Step_PC /\ status \in Row_Status /\ (status = "completed" => Returned(e))
    BY <1>4, Facts DEF Step_PC, Row_Status
  <1>6. step[e] \notin Holding
    BY <1>1 DEF Holding
  <1>7. inflight' \subseteq inflight
    BY <1>2
  <1>8. Gated(e) /\ row' \in [Exec -> Row_Status] /\ (e \in inflight' => e \in abandoned')
    BY <1>1, <1>6, <1>7, Facts
  <1>9. s \notin Holding /\ (s \in Unsent => step[e] \in Unsent)
    BY <1>1, <1>4 DEF Holding, Unsent
  <1>10. QED
    BY <1>1, <1>3, <1>4, <1>5, <1>7, <1>8, <1>9, BackendKeeps

\* A step that keeps the slot it has, or has none.
LEMMA SlotKeeps ==
  ASSUME IInv, NEW e \in Exec, NEW s \in Step_PC, NEW status \in Row_Status,
         UNCHANGED <<docker, client, executor, tries, inflight, abandoned>>,
         step' = [step EXCEPT ![e] = s],
         s \in Unsent => step[e] \in Unsent,
         s \in {"loaded", "counted", "leaving"} => Gated(e),
         Gated(e) => (s \in Holding <=> step[e] \in Holding),
         outcome' = [outcome EXCEPT ![e] = status],
         status = "completed" => Returned(e),
         row' \in [Exec -> Row_Status],
         \A o \in Exec : row'[o] = "completed" => row[o] = "completed" \/ Returned(o)
  PROVE  IInv'
  <1>1. inflight' \subseteq inflight \cup {e} /\ \A o \in inflight : o \in inflight'
    OBVIOUS
  <1>2. e \in inflight' => Gated(e) /\ (s \in Holding \/ e \in abandoned')
    BY Facts
  <1>3. Gated(e) /\ s \in Holding => e \in inflight'
    BY Facts
  <1>4. QED
    BY <1>1, <1>2, <1>3, BackendKeeps

LEMMA AdmitKeeps == ASSUME IInv, NEW e \in Exec, Admit(e) PROVE IInv'
  <1>1. /\ step[e] = "counted" /\ step' = [step EXCEPT ![e] = "admitted"]
        /\ UNCHANGED <<docker, client, executor, tries, row, outcome>>
        /\ inflight' = inflight \cup {e} /\ abandoned' = abandoned \ {e}
    BY DEF Admit, Goes, containers
  <1>2. Gated(e) /\ row' \in [Exec -> Row_Status] /\ outcome' = [outcome EXCEPT ![e] = outcome[e]]
    BY <1>1, Facts
  <1>3. "admitted" \in Step_PC /\ "admitted" \in Holding /\ step[e] \in Unsent
    BY <1>1 DEF Step_PC, Holding, Unsent
  <1>4. QED
    BY <1>1, <1>2, <1>3, Facts, BackendKeeps

\* The end of what an admitted try does.
LEMMA LeavingKeeps ==
  ASSUME IInv, NEW e \in Exec, NEW status \in Row_Status, status = "completed" => Returned(e),
         step[e] \in {"admitted", "placed", "polling"}, Leaving(e, status),
         UNCHANGED <<docker, client, executor, tries, inflight, abandoned, row>>
  PROVE  IInv'
  <1>1. PICK s \in {"leaving", "reporting"} :
           step' = [step EXCEPT ![e] = s] /\ (s = "leaving" <=> Gated(e))
    BY DEF Leaving
  <1>2. s \in Step_PC /\ s \notin Unsent /\ step[e] \in Holding /\ (Gated(e) => s \in Holding)
    BY <1>1 DEF Step_PC, Unsent, Holding
  <1>3. row' \in [Exec -> Row_Status] /\ outcome' = [outcome EXCEPT ![e] = status]
    BY Facts DEF Leaving
  <1>4. s \in {"loaded", "counted", "leaving"} => Gated(e)
    BY <1>1
  <1>5. QED
    BY <1>1, <1>2, <1>3, <1>4, SlotKeeps

LEMMA PickKeeps == ASSUME IInv, NEW e \in Exec, Pick(e) PROVE IInv'
  <1>1. step[e] = "admitted" /\ UNCHANGED <<docker, client, executor, tries, inflight, abandoned, row>>
    BY DEF Pick
  <1>2. CASE Leaving(e, "failed")
    BY <1>1, <1>2, LeavingKeeps DEF Row_Status
  <1>3. CASE step' = [step EXCEPT ![e] = "placed"] /\ UNCHANGED outcome
    <2>1. "placed" \in Step_PC /\ "placed" \in Holding /\ step[e] \in Holding /\ step[e] \in Unsent
      BY <1>1 DEF Step_PC, Holding, Unsent
    <2>2. row' \in [Exec -> Row_Status] /\ outcome' = [outcome EXCEPT ![e] = outcome[e]]
      BY <1>1, <1>3, Facts
    <2>3. QED
      BY <1>1, <1>3, <2>1, <2>2, Facts, SlotKeeps
  <1>4. QED
    BY <1>2, <1>3 DEF Pick, Place

LEMMA PollKeeps == ASSUME IInv, NEW e \in Exec, Poll(e) \/ GiveUp(e) PROVE IInv'
  <1>1. step[e] = "polling" /\ UNCHANGED <<docker, client, executor, tries, inflight, abandoned, row>>
    BY DEF Poll, GiveUp, containers
  <1>2. PICK s \in ResultIn(e, place[e]) \cup {"failed"} : Leaving(e, s)
    BY DEF Poll, GiveUp
  <1>3. s \in Row_Status
    BY <1>2 DEF ResultIn, Results, Row_Status
  <1>4. s = "completed" => Returned(e)
    <2>1. SUFFICES ASSUME s = "completed" PROVE Returned(e)
      OBVIOUS
    <2>2. [of |-> e, at |-> place[e], is |-> s] \in files
      BY <1>2, <2>1 DEF ResultIn
    <2>3. QED
      BY <2>1, <2>2 DEF IInv, Told
  <1>5. QED
    BY <1>1, <1>2, <1>3, <1>4, LeavingKeeps

\* The end of a try leaves its slot or what was left of it.
LEMMA OverFacts ==
  ASSUME IInv, NEW e \in Exec, Over(e)
  PROVE  /\ step' = [step EXCEPT ![e] = "over"] /\ "over" \in Step_PC
         /\ "over" \notin Holding /\ "over" \notin Unsent
         /\ outcome' = [outcome EXCEPT ![e] = "none"] /\ "none" \in Row_Status
  BY DEF Over, Step_PC, Holding, Unsent, Row_Status

LEMMA LeaveKeeps == ASSUME IInv, NEW e \in Exec, Leave(e) PROVE IInv'
  <1>1. /\ step[e] = "leaving" /\ UNCHANGED <<docker, client, executor, tries, row, abandoned>>
        /\ inflight' = inflight \ {e}
    BY DEF Leave, containers
  <1>2. PICK s \in {"over", "reporting"}, status \in {"none", outcome[e]} :
           step' = [step EXCEPT ![e] = s] /\ outcome' = [outcome EXCEPT ![e] = status]
    BY Facts DEF Leave, AfterLeaving, Over, Goes
  <1>3. s \in Step_PC /\ s \notin Holding /\ s \notin Unsent /\ status \in Row_Status
        /\ (status = "completed" => Returned(e)) /\ row' \in [Exec -> Row_Status]
    BY <1>1, <1>2, Facts DEF Step_PC, Holding, Unsent, Row_Status
  <1>4. QED
    BY <1>1, <1>2, <1>3, BackendKeeps

LEMMA CommitKeeps == ASSUME IInv, NEW e \in Exec, Commit(e) PROVE IInv'
  <1>1. /\ step[e] = "reporting" /\ Over(e)
        /\ row' = [row EXCEPT ![e] = IF outcome[e] = seen[e] THEN @ ELSE outcome[e]]
        /\ UNCHANGED <<docker, client, executor, tries, inflight, abandoned>>
    BY DEF Commit, containers
  <1>2. step[e] \notin Holding
    BY <1>1 DEF Holding
  <1>3. /\ row' \in [Exec -> Row_Status]
        /\ \A o \in Exec : row'[o] = "completed" => row[o] = "completed" \/ Returned(o)
    BY <1>1, Facts
  <1>4. QED
    BY <1>1, <1>2, <1>3, OverFacts, SlotKeeps

LEMMA RedisErrorKeeps == ASSUME IInv, NEW e \in Exec, RedisError(e) PROVE IInv'
  <1>1. /\ step[e] \in {"loaded", "counted", "leaving"}
        /\ step' = [step EXCEPT ![e] = "reporting"] /\ outcome' = [outcome EXCEPT ![e] = "failed"]
        /\ UNCHANGED <<docker, client, executor, tries, row>>
    BY DEF RedisError, Reporting, containers
  <1>2. /\ inflight' \subseteq inflight \cup {e}
        /\ \A o \in inflight : o # e /\ Admitted(o) => o \in inflight'
        /\ \A o \in inflight' : o # e /\ o \in abandoned => o \in abandoned'
        /\ e \in inflight' => e \in abandoned'
    <2>1. CASE step[e] = "loaded"
      <3>1. PICK old \in SUBSET Prunable : inflight' = inflight \ old /\ UNCHANGED abandoned
        BY <2>1 DEF RedisError
      <3>2. e \in inflight => e \in abandoned
        BY <2>1, Facts DEF Holding
      <3>3. QED
        BY <3>1, <3>2 DEF Prunable
    <2>2. CASE step[e] # "loaded"
      BY <2>2 DEF RedisError
    <2>3. QED
      BY <2>1, <2>2
  <1>3. "reporting" \in Step_PC /\ "reporting" \notin Holding /\ "reporting" \notin Unsent
        /\ "failed" \in Row_Status
    BY DEF Step_PC, Holding, Unsent, Row_Status
  <1>4. Gated(e) /\ row' \in [Exec -> Row_Status]
    BY <1>1, Facts
  <1>5. QED
    BY <1>1, <1>2, <1>3, <1>4, BackendKeeps

LEMMA CancelKeeps == ASSUME IInv, NEW e \in Exec, Cancel(e) PROVE IInv'
  <1>1. UNCHANGED <<docker, client, executor, tries, row>> /\ row' \in [Exec -> Row_Status]
    BY Facts DEF Cancel, containers
  <1>2. CASE /\ step[e] \in {"admitted", "placed", "polling"} /\ Gated(e)
             /\ Leaving(e, "none") /\ UNCHANGED <<inflight, abandoned>>
    BY <1>1, <1>2, LeavingKeeps DEF Row_Status
  <1>3. CASE /\ step[e] \in {"admitted", "placed", "polling"} /\ ~Gated(e)
             /\ Over(e) /\ UNCHANGED <<inflight, abandoned>>
    BY <1>1, <1>3, OverFacts, SlotKeeps
  <1>4. CASE step[e] \in {"loaded", "reporting"} /\ Over(e) /\ UNCHANGED <<inflight, abandoned>>
    <2>1. step[e] \notin Holding
      BY <1>4 DEF Holding
    <2>2. QED
      BY <1>1, <1>4, <2>1, OverFacts, SlotKeeps
  <1>5. CASE /\ step[e] \in {"counted", "leaving"} /\ Over(e)
             /\ inflight' \in {inflight, inflight \cup {e}, inflight \ {e}}
             /\ abandoned' = abandoned \cup ({e} \cap inflight')
    <2>1. Gated(e)
      BY <1>5, Facts
    <2>2. /\ inflight' \subseteq inflight \cup {e}
          /\ \A o \in inflight : o # e => o \in inflight'
          /\ \A o \in inflight' : o # e /\ o \in abandoned => o \in abandoned'
          /\ e \in inflight' => e \in abandoned'
      BY <1>5
    <2>3. QED
      BY <1>1, <1>5, <2>1, <2>2, OverFacts, BackendKeeps
  <1>6. QED
    BY <1>2, <1>3, <1>4, <1>5 DEF Cancel

LEMMA AgainKeeps == ASSUME IInv, NEW e \in Exec, Again(e) PROVE IInv'
  <1>1. /\ step[e] = "over" /\ step' = [step EXCEPT ![e] = "queued"]
        /\ UNCHANGED <<docker, client, executor, tries, inflight, abandoned, row, outcome>>
    BY DEF Again, Goes, containers
  <1>2. "queued" \in Step_PC /\ "queued" \notin Holding /\ "queued" \notin Unsent
        /\ step[e] \notin Holding
    BY <1>1 DEF Step_PC, Holding, Unsent
  <1>3. row' \in [Exec -> Row_Status] /\ outcome' = [outcome EXCEPT ![e] = outcome[e]]
    BY <1>1, Facts
  <1>4. QED
    BY <1>1, <1>2, <1>3, Facts, SlotKeeps

\* A request goes out under a try that has neither a request nor a thread.
LEMMA SendKeeps == ASSUME IInv, NEW e \in Exec, Send(e) PROVE IInv'
  <1>0. Typed /\ Told /\ Sent /\ Awaited /\ Admission
    BY DEF IInv
  <1>1. /\ step[e] = "placed"
        /\ UNCHANGED <<docker, client, threads, joined, files, tries, inflight, abandoned, row>>
    BY DEF Send, containers
  <1>2. CASE Leaving(e, "failed") /\ UNCHANGED requests
    <2>1. UNCHANGED executor
      BY <1>1, <1>2 DEF executor
    <2>2. QED
      BY <1>1, <1>2, <2>1, LeavingKeeps DEF Row_Status
  <1>3. CASE /\ place[e] \in docker \ stopped
             /\ requests' = {r \in requests : r.of # e \/ r.at # place[e]}
                             \cup {[of |-> e, at |-> place[e], try |-> tries[e]]}
             /\ step' = [step EXCEPT ![e] = "polling"]
             /\ UNCHANGED outcome
    <2> DEFINE new == [of |-> e, at |-> place[e], try |-> tries[e]]
    <2>1. new \in [of : Exec, at : Nat, try : Nat] /\ new.of = e /\ new.try = tries[e]
      BY <1>0, <1>3 DEF Typed
    <2>2. \A r \in requests' : r \in requests \/ r = new
      BY <1>3
    <2> HIDE DEF new
    <2>3. step' \in [Exec -> Step_PC] /\ step'[e] = "polling" /\ step[e] \in Unsent
          /\ \A o \in Exec \ {e} : step'[o] = step[o]
      BY <1>0, <1>1, <1>3 DEF Typed, Step_PC, Unsent
    <2>4. Typed' /\ Told'
      BY <1>0, <1>1, <1>3, <2>1, <2>2, <2>3 DEF Typed, Told, Returned
    <2>5. \A o \in Exec : step'[o] \in Unsent => step[o] \in Unsent /\ o # e
      BY <2>3 DEF Unsent
    <2>6. Sent'
      <3>1. ASSUME NEW r \in requests'
            PROVE  r.try <= tries[r.of] /\ (step'[r.of] \in Unsent => r.try # tries[r.of])
        <4>1. CASE r \in requests
          BY <1>0, <2>5, <4>1 DEF Sent, Typed
        <4>2. CASE r = new
          BY <1>0, <2>1, <2>5, <4>2 DEF Typed
        <4>3. QED
          BY <2>2, <4>1, <4>2
      <3>2. QED
        BY <1>0, <1>1, <2>5, <3>1 DEF Sent
    <2>7. Awaited'
      <3>1. \A r \in requests : r.of = e => r.try # tries[e]
        BY <1>0, <2>3 DEF Sent
      <3>2. \A k \in DOMAIN threads[e] : threads[e][k].try # tries[e]
        BY <1>0, <2>3 DEF Sent
      <3>3. QED
        BY <1>0, <1>1, <2>1, <2>2, <3>1, <3>2 DEF Awaited
    <2>8. Admission' /\ SlotsHeld'
      <3>1. \A o \in Exec : Admitted(o) <=> Admitted(o)'
        BY <1>1, <2>3 DEF Admitted
      <3>2. QED
        BY <1>0, <1>1, <2>3, <3>1 DEF IInv, Typed, Admission, SlotsHeld, Gated, TopLevel
    <2>9. CompletedRan' /\ OneRunPerTry'
      BY <1>1 DEF IInv, CompletedRan, OneRunPerTry
    <2>10. QED
      BY <2>4, <2>6, <2>7, <2>8, <2>9 DEF IInv
  <1>4. QED
    BY <1>2, <1>3 DEF Send

-----------------------------------------------------------------------------
(* Requests to continue, containers and failures.                          *)

LEMMA SameThreads == ASSUME Typed, UNCHANGED threads PROVE GoOn
  BY DEF Typed, GoOn

LEMMA ContinueKeeps == ASSUME IInv, NEW c \in Client, Continue(c) PROVE IInv'
  <1>0. Typed /\ Told /\ Awaited
    BY DEF IInv
  <1>1. /\ UNCHANGED <<docker, step, tries, outcome, inflight, abandoned>>
        /\ UNCHANGED <<threads, joined, requests>>
    BY DEF Continue, ReadPaused, SetRunning, WriteAnswer, PollAnswer, CommitAnswer, containers,
       backend, executor
  <1>2. \A f \in files' : f \in files \/ f.is # "completed"
    BY DEF Continue, ReadPaused, SetRunning, WriteAnswer, PollAnswer, CommitAnswer, executor
  <1>3. PICK t : client' = [client EXCEPT ![c] = t]
    BY DEF Continue, ReadPaused, SetRunning, WriteAnswer, PollAnswer, CommitAnswer, ClientGoes,
       ClientReports
  <1>4. /\ DOMAIN client[c] = Client_Fields /\ client[c].outcome \in Row_Status
        /\ client[c].outcome = "completed" => client[c].of \in Exec /\ Returned(client[c].of)
    BY <1>0 DEF Typed, Told
  <1>5. /\ client'[c] = t /\ DOMAIN client' = Client
        /\ \A o \in Client : o # c => client'[o] = client[o]
    BY <1>0, <1>3 DEF Typed
  <1>6. /\ DOMAIN client'[c] = Client_Fields /\ client'[c].outcome \in Row_Status
        /\ client'[c].outcome = "completed" =>
              client'[c].of \in Exec /\ Returned(client'[c].of)
    <2>1. CASE \E e \in Exec : ReadPaused(c, e)
      BY <1>0, <1>5, <2>1 DEF ReadPaused, Typed, Client_Fields, Row_Status
    <2>2. CASE SetRunning(c)
      BY <1>0, <1>4, <2>2 DEF SetRunning, ClientGoes, Typed, Client_Fields
    <2>3. CASE WriteAnswer(c)
      <3>1. CASE client' = [client EXCEPT ![c].pc = "polling"]
        BY <1>0, <1>4, <3>1 DEF Typed, Client_Fields
      <3>2. CASE ClientReports(c, "failed")
        BY <1>0, <1>4, <3>2 DEF ClientReports, Typed, Client_Fields, Row_Status
      <3>3. CASE client' = [client EXCEPT ![c] = Done]
        BY <1>0, <3>3 DEF Done, Idle, Typed, Client_Fields, Row_Status
      <3>4. QED
        BY <2>3, <3>1, <3>2, <3>3 DEF WriteAnswer
    <2>4. CASE PollAnswer(c)
      <3>1. PICK s \in ResultIn(client[c].of, client[c].at) \cup {"failed"} : ClientReports(c, s)
        BY <2>4 DEF PollAnswer
      <3>2. s \in Row_Status
        BY <3>1 DEF ResultIn, Results, Row_Status
      <3>3. s = "completed" => client[c].of \in Exec /\ Returned(client[c].of)
        <4>1. SUFFICES ASSUME s = "completed" PROVE client[c].of \in Exec /\ Returned(client[c].of)
          OBVIOUS
        <4>2. [of |-> client[c].of, at |-> client[c].at, is |-> s] \in files
          BY <3>1, <4>1 DEF ResultIn
        <4>3. QED
          BY <1>0, <4>1, <4>2 DEF Told
      <3>4. QED
        BY <1>0, <1>4, <3>1, <3>2, <3>3 DEF ClientReports, Typed, Client_Fields
    <2>5. CASE CommitAnswer(c)
      BY <1>0, <2>5 DEF CommitAnswer, Done, Idle, Typed, Client_Fields, Row_Status
    <2>6. QED
      BY <2>1, <2>2, <2>3, <2>4, <2>5 DEF Continue
  <1>7. \A o \in Client :
            /\ DOMAIN client'[o] = Client_Fields /\ client'[o].outcome \in Row_Status
            /\ client'[o].outcome = "completed" =>
                  client'[o].of \in Exec /\ Returned(client'[o].of)
    BY <1>0, <1>5, <1>6 DEF Typed, Told
  <1>8. /\ row' \in [Exec -> Row_Status]
        /\ \A e \in Exec : row'[e] = "completed" => row[e] = "completed" \/ Returned(e)
    <2>1. \/ UNCHANGED row
          \/ row' = [row EXCEPT ![client[c].of] = "running"]
          \/ row' = [row EXCEPT ![client[c].of] = client[c].outcome]
      BY DEF Continue, ReadPaused, SetRunning, WriteAnswer, PollAnswer, CommitAnswer, backend
    <2>2. QED
      BY <1>0, <1>4, <2>1 DEF Typed, Row_Status
  <1>9. GoOn /\ docker' \subseteq Nat
    BY <1>0, <1>1, SameThreads DEF Typed
  <1>10. \A r \in requests' : \A k \in DOMAIN threads[r.of] :
            threads[r.of][k].try = r.try => <<r.of, k>> \in joined'
    BY <1>0, <1>1 DEF Awaited
  <1>11. QED
    BY <1>1, <1>2, <1>5, <1>7, <1>8, <1>9, <1>10, ExecutorKeeps

\* A file that an executor writes.
LEMMA WrittenFiles ==
  ASSUME NEW e \in Exec, NEW n, NEW status, Written(e, n, status)
  PROVE  \A f \in files' : f \in files \/ (f.is = status /\ f.of = e)
  BY DEF Written

\* A step in a container that starts nothing.
LEMMA StepKeeps ==
  ASSUME IInv, GoOn, UNCHANGED <<containers, backend, client>>,
         requests' \subseteq requests,
         \A r \in requests' : \A k \in DOMAIN threads[r.of] :
            threads[r.of][k].try = r.try => <<r.of, k>> \in joined',
         \A f \in files' : f \in files \/ (f.is = "completed" => f.of \in Exec /\ Returned(f.of))
  PROVE  IInv'
  <1>1. UNCHANGED <<docker, step, tries, outcome, inflight, abandoned, row, client>>
    BY DEF containers, backend
  <1>2. docker' \subseteq Nat /\ row' \in [Exec -> Row_Status] /\ DOMAIN client' = Client
        /\ \A c \in Client :
            /\ DOMAIN client'[c] = Client_Fields /\ client'[c].outcome \in Row_Status
            /\ client'[c].outcome = "completed" =>
                  client'[c].of \in Exec /\ Returned(client'[c].of)
    BY <1>1 DEF IInv, Typed, Told
  <1>3. QED
    BY <1>1, <1>2, ExecutorKeeps

LEMMA JoinEndsKeeps ==
  ASSUME IInv, NEW e \in Exec, NEW k \in DOMAIN threads[e], JoinEnds(e, k)
  PROVE  IInv'
  <1>0. Typed /\ Awaited
    BY DEF IInv
  <1> DEFINE n == threads[e][k].at
  <1>1. /\ UNCHANGED <<containers, backend, client>>
        /\ joined' = joined \ {<<e, k>>}
        /\ requests' = {r \in requests : r.of # e \/ r.at # n}
    BY DEF JoinEnds, Unjoin
  <1>2. GoOn
    <2>1. CASE ThreadGoes(e, k, Live, "ended")
      BY <1>0, <2>1, GoesOn DEF Live, Thread_PC
    <2>2. CASE UNCHANGED threads
      BY <1>0, <2>2, SameThreads
    <2>3. QED
      BY <2>1, <2>2 DEF JoinEnds, Unjoin
  <1>3. ASSUME NEW r \in requests', NEW j \in DOMAIN threads[r.of], threads[r.of][j].try = r.try
        PROVE  <<r.of, j>> \in joined'
    <2>1. r \in requests /\ (r.of # e \/ r.at # n)
      BY <1>1
    <2>2. <<r.of, j>> \in joined /\ threads[r.of][j].at = r.at
      BY <1>0, <1>3, <2>1 DEF Awaited
    <2>3. <<r.of, j>> # <<e, k>>
      BY <2>1, <2>2
    <2>4. QED
      BY <1>1, <2>2, <2>3
  <1>4. \A f \in files' : f \in files \/ (f.is = "completed" => f.of \in Exec /\ Returned(f.of))
    <2>1. JoinedResult(e, k, {"returned"})
      BY DEF JoinEnds
    <2>2. CASE UNCHANGED files
      BY <2>2
    <2>3. CASE threads[e][k].pc = "returned" /\ Written(e, n, "completed")
      <3>1. Returned(e)
        BY <2>3 DEF Returned
      <3>2. QED
        BY <2>3, <3>1, WrittenFiles
    <2>4. CASE Written(e, n, "failed")
      <3>1. \A f \in files' : f \in files \/ (f.is = "failed" /\ f.of = e)
        BY <2>4, WrittenFiles
      <3>2. QED
        BY <3>1
    <2>5. QED
      BY <2>1, <2>2, <2>3, <2>4 DEF JoinedResult
  <1>5. requests' \subseteq requests
    BY <1>1
  <1> HIDE DEF n
  <1>6. QED
    BY <1>1, <1>2, <1>3, <1>4, <1>5, StepKeeps

LEMMA InContainerKeeps ==
  ASSUME IInv, NEW e \in Exec, NEW k \in DOMAIN threads[e], InContainer(e, k)
  PROVE  IInv'
  <1>0. Typed /\ Awaited
    BY DEF IInv
  <1>1. CASE JoinEnds(e, k)
    BY <1>1, JoinEndsKeeps
  <1>2. CASE FunctionEnds(e, k) \/ Ask(e, k) \/ TakeAnswer(e, k) \/ InputTimeout(e, k)
    <2>1. UNCHANGED <<containers, backend, client, joined, requests>>
      BY <1>2 DEF FunctionEnds, Ask, TakeAnswer, InputTimeout
    <2>2. PICK from \in {{"running"}, {"asking"}}, to \in Thread_PC : ThreadGoes(e, k, from, to)
      BY <1>2 DEF FunctionEnds, Ask, TakeAnswer, InputTimeout, Thread_PC
    <2>3. GoOn
      BY <1>0, <2>2, GoesOn
    <2>4. \A f \in files' : f \in files \/ (f.is = "awaiting_input" /\ f.of = e)
      <3>1. CASE Ask(e, k)
        BY <3>1, WrittenFiles DEF Ask
      <3>2. CASE FunctionEnds(e, k) \/ TakeAnswer(e, k) \/ InputTimeout(e, k)
        BY <3>2 DEF FunctionEnds, TakeAnswer, InputTimeout
      <3>3. QED
        BY <1>2, <3>1, <3>2
    <2>5. \A r \in requests' : \A j \in DOMAIN threads[r.of] :
             threads[r.of][j].try = r.try => <<r.of, j>> \in joined'
      BY <1>0, <2>1 DEF Awaited
    <2>6. requests' \subseteq requests
      BY <2>1
    <2>7. \A f \in files' : f \in files \/ (f.is = "completed" => f.of \in Exec /\ Returned(f.of))
      BY <2>4
    <2>8. QED
      BY <2>1, <2>3, <2>5, <2>6, <2>7, StepKeeps
  <1>3. QED
    BY <1>1, <1>2 DEF InContainer

\* A loop that is not waiting takes a request whose try has not started.
LEMMA BeginKeeps == ASSUME IInv, NEW r \in requests, Begin(r) PROVE IInv'
  <1>0. Typed /\ Told /\ Sent /\ Awaited /\ Admission
    BY DEF IInv
  <1> DEFINE e == r.of
             new == [at |-> r.at, try |-> r.try, pc |-> "running"]
             n == Len(threads[e]) + 1
  <1>1. /\ ~Busy(r.at)
        /\ threads' = [threads EXCEPT ![e] = Append(@, new)]
        /\ joined' = joined \cup {<<e, n>>}
        /\ UNCHANGED <<docker, client, requests, files>>
        /\ UNCHANGED <<row, outcome, step, tries, inflight, abandoned>>
    BY DEF Begin, containers, backend
  <1>2. e \in Exec /\ new \in Threads /\ new.at = r.at /\ new.try = r.try /\ new.pc = "running"
        /\ threads[e] \in Seq(Threads)
    BY <1>0 DEF Typed, Threads, Thread_PC
  <1>3. /\ threads' \in [Exec -> Seq(Threads)]
        /\ \A o \in Exec : o # e => threads'[o] = threads[o]
        /\ threads'[e] = Append(threads[e], new)
    BY <1>0, <1>1, <1>2 DEF Typed
  <1>4. /\ n \notin DOMAIN threads[e] /\ DOMAIN threads'[e] = DOMAIN threads[e] \cup {n}
        /\ threads'[e][n] = new /\ \A k \in DOMAIN threads[e] : threads'[e][k] = threads[e][k]
    BY <1>2, <1>3
  <1>5. \A k \in DOMAIN threads[e] : threads[e][k].try # r.try
    <2>1. SUFFICES ASSUME NEW k \in DOMAIN threads[e], threads[e][k].try = r.try PROVE FALSE
      OBVIOUS
    <2>2. <<e, k>> \in joined /\ At(<<e, k>>) = r.at
      BY <1>0, <2>1 DEF Awaited, At
    <2>3. QED
      BY <1>1, <2>2 DEF Busy
  <1> HIDE DEF e, new, n
  <1>6. Typed'
    BY <1>0, <1>1, <1>3 DEF Typed
  <1>7. \A o \in Exec : Returned(o) => Returned(o)'
    BY <1>3, <1>4 DEF Returned
  <1>8. Told'
    BY <1>0, <1>1, <1>7 DEF Told
  <1>9. Sent'
    <2>1. ASSUME NEW o \in Exec, NEW k \in DOMAIN threads'[o]
          PROVE  /\ threads'[o][k].try <= tries[o]
                 /\ step[o] \in Unsent => threads'[o][k].try # tries[o]
      <3>1. CASE o = e /\ k = n
        BY <1>0, <1>2, <1>4, <3>1 DEF Sent, e
      <3>2. CASE ~(o = e /\ k = n)
        <4>1. k \in DOMAIN threads[o] /\ threads'[o][k] = threads[o][k]
          BY <1>3, <1>4, <2>1, <3>2
        <4>2. QED
          BY <1>0, <4>1 DEF Sent
      <3>3. QED
        BY <3>1, <3>2
    <2>2. QED
      BY <1>0, <1>1, <2>1 DEF Sent
  <1>10. Awaited'
    <2>1. ASSUME NEW q \in requests, NEW k \in DOMAIN threads'[q.of], threads'[q.of][k].try = q.try
          PROVE  <<q.of, k>> \in joined' /\ threads'[q.of][k].at = q.at
      <3>1. q.of \in Exec
        BY <1>0 DEF Typed
      <3>2. CASE q.of = e /\ k = n
        <4>1. q = r
          BY <1>0, <1>2, <1>4, <2>1, <3>2 DEF Awaited, e
        <4>2. QED
          BY <1>1, <1>2, <1>4, <3>2, <4>1
      <3>3. CASE ~(q.of = e /\ k = n)
        <4>1. k \in DOMAIN threads[q.of] /\ threads'[q.of][k] = threads[q.of][k]
          BY <1>3, <1>4, <2>1, <3>1, <3>3
        <4>2. QED
          BY <1>0, <1>1, <2>1, <4>1 DEF Awaited
      <3>4. QED
        BY <3>2, <3>3
    <2>2. QED
      BY <1>0, <1>1, <2>1 DEF Awaited
  <1>11. Admission' /\ SlotsHeld'
    BY <1>1 DEF IInv, Admission, SlotsHeld, Admitted, Gated, TopLevel
  <1>12. CompletedRan'
    <2>1. \A o \in Exec : row[o] = "completed" => Returned(o)
      BY DEF IInv, CompletedRan, Returned
    <2>2. QED
      BY <1>1, <1>7, <2>1 DEF CompletedRan, Returned
  <1>13. OneRunPerTry'
    <2>1. ASSUME NEW o \in Exec, NEW i \in DOMAIN threads'[o], NEW j \in DOMAIN threads'[o],
                 threads'[o][i].try = threads'[o][j].try
          PROVE  i = j
      <3>1. CASE o # e
        BY <1>3, <2>1, <3>1 DEF IInv, OneRunPerTry
      <3>2. CASE o = e
        <4>1. ASSUME NEW k \in DOMAIN threads[e] PROVE threads'[e][k].try # threads'[e][n].try
          BY <1>2, <1>4, <1>5
        <4>2. QED
          BY <1>2, <1>4, <2>1, <3>2, <4>1 DEF IInv, OneRunPerTry
      <3>3. QED
        BY <3>1, <3>2
    <2>2. QED
      BY <2>1 DEF OneRunPerTry
  <1>14. QED
    BY <1>6, <1>8, <1>9, <1>10, <1>11, <1>12, <1>13 DEF IInv

\* Containers that stop, whatever is kept of the rows.
LEMMA LosingKeeps ==
  ASSUME IInv, NEW C, Lost(C), docker' \subseteq Nat,
         UNCHANGED <<step, tries, outcome, inflight, abandoned, client>>,
         row' \in [Exec -> Row_Status],
         \A e \in Exec : row'[e] = "completed" => row[e] = "completed"
  PROVE  IInv'
  <1>1. GoOn
    BY LostGoOn DEF IInv
  <1>2. /\ requests' \subseteq requests /\ files' \subseteq files
        /\ \A r \in requests' : \A k \in DOMAIN threads[r.of] :
              threads[r.of][k].try = r.try => <<r.of, k>> \in joined'
    BY LostForgets DEF IInv
  <1>3. DOMAIN client' = Client
        /\ \A c \in Client :
            /\ DOMAIN client'[c] = Client_Fields /\ client'[c].outcome \in Row_Status
            /\ client'[c].outcome = "completed" =>
                  client'[c].of \in Exec /\ Returned(client'[c].of)
    BY DEF IInv, Typed, Told
  <1>4. QED
    BY <1>1, <1>2, <1>3, ExecutorKeeps

LEMMA AdministerKeeps == ASSUME IInv, Administer PROVE IInv'
  <1>0. Typed
    BY DEF IInv
  <1>1. UNCHANGED <<step, tries, outcome, inflight, abandoned, row, client>>
    BY DEF Administer, ScaleUp, ScaleDown, Reload, backend
  <1>2. PICK C : Lost(C)
    BY DEF Administer, ScaleUp, ScaleDown, Reload
  <1>3. docker' \subseteq Nat
    <2>1. ASSUME NEW target, ScaleUp(target) PROVE docker' \subseteq Nat
      <3> DEFINE b == Len(workers["api"]) + (target - Len(workers["api"]))
      <3>1. PICK made \in SUBSET NewNumbers(target - Len(workers["api"])) : docker' = docker \cup made
        BY <2>1 DEF ScaleUp
      <3>2. \A n \in made : n \in 1 .. b
        BY <3>1 DEF NewNumbers
      <3> HIDE DEF b
      <3>3. \A n \in made : n \in Nat
        BY <3>2
      <3>4. QED
        BY <1>0, <3>1, <3>3 DEF Typed
    <2>2. ASSUME NEW target, ScaleDown(target) \/ Reload PROVE docker' \subseteq Nat
      BY <1>0, <2>2 DEF ScaleDown, Reload, Typed
    <2>3. QED
      BY <2>1, <2>2 DEF Administer
  <1>4. row' \in [Exec -> Row_Status]
    BY <1>0, <1>1 DEF Typed
  <1>5. QED
    BY <1>1, <1>2, <1>3, <1>4, LosingKeeps

LEMMA StopKeeps == ASSUME IInv, NEW n, Stop(n) PROVE IInv'
  <1>1. /\ UNCHANGED <<docker, step, tries, outcome, inflight, abandoned, row, client>>
        /\ Lost({n})
    BY DEF Stop, backend
  <1>2. docker' \subseteq Nat /\ row' \in [Exec -> Row_Status]
    BY <1>1 DEF IInv, Typed
  <1>3. QED
    BY <1>1, <1>2, LosingKeeps

LEMMA RestartKeeps == ASSUME IInv, NEW p \in Proc, Restart(p) PROVE IInv'
  <1>0. Typed /\ Told /\ Sent /\ Awaited /\ Admission
    BY DEF IInv
  <1> DEFINE lost == {e \in Exec : ProcOf[e] = p /\ step[e] \notin {"queued", "over"}}
  <1>1. /\ step' = [e \in Exec |-> IF e \in lost THEN "over" ELSE step[e]]
        /\ outcome' = [e \in Exec |-> IF e \in lost THEN "none" ELSE outcome[e]]
        /\ abandoned' = abandoned \cup (lost \cap inflight)
        /\ client' = IF p = "api" THEN [c \in Client |-> Done] ELSE client
        /\ UNCHANGED <<docker, row, inflight, tries, threads, joined, requests, files>>
    BY DEF Restart, executor
  <1> HIDE DEF lost
  <1>2. /\ step' \in [Exec -> Step_PC] /\ outcome' \in [Exec -> Row_Status]
        /\ \A e \in Exec : /\ step'[e] = step[e] \/ step'[e] = "over"
                           /\ outcome'[e] \in {outcome[e], "none"}
    BY <1>0, <1>1 DEF Typed, Step_PC, Row_Status
  <1>3. /\ DOMAIN client' = Client
        /\ \A c \in Client : client'[c] = client[c] \/ client'[c] = Done
    BY <1>0, <1>1 DEF Typed
  <1>4. DOMAIN Done = Client_Fields /\ Done.outcome = "none" /\ "none" \in Row_Status
    BY DEF Done, Idle, Client_Fields, Row_Status
  <1>5. Typed'
    BY <1>0, <1>1, <1>2, <1>3, <1>4 DEF Typed
  <1>6. Told'
    BY <1>0, <1>1, <1>2, <1>3, <1>4 DEF Told, Returned
  <1>7. Sent'
    <2>1. \A e \in Exec : step'[e] \in Unsent => step[e] \in Unsent
      BY <1>2 DEF Unsent
    <2>2. \A r \in requests : r.of \in Exec
      BY <1>0 DEF Typed
    <2>3. QED
      BY <1>0, <1>1, <2>1, <2>2 DEF Sent
  <1>8. Awaited'
    BY <1>0, <1>1 DEF Awaited
  <1>9. Admission'
    BY <1>0, <1>1, <1>2 DEF Admission, Gated, TopLevel
  <1>10. SlotsHeld'
    <2>1. \A e \in inflight : Admitted(e)' \/ e \in abandoned'
      BY <1>0, <1>1 DEF IInv, Typed, SlotsHeld, Admitted
    <2>2. \A e \in Exec : Admitted(e)' => Admitted(e)
      BY <1>2 DEF Admitted
    <2>3. QED
      BY <1>1, <2>1, <2>2 DEF IInv, SlotsHeld, Gated, TopLevel
  <1>11. CompletedRan' /\ OneRunPerTry'
    BY <1>1 DEF IInv, CompletedRan, OneRunPerTry
  <1>12. QED
    BY <1>5, <1>6, <1>7, <1>8, <1>9, <1>10, <1>11 DEF IInv

LEMMA InitializeKeeps == ASSUME IInv, Initialize PROVE IInv'
  <1>0. Typed
    BY DEF IInv
  <1>1. UNCHANGED <<step, tries, outcome, inflight, abandoned, client>>
        /\ row' = [e \in Exec |-> Interrupt(e)] /\ Lost(docker \cup docker')
    BY DEF Initialize
  <1>2. /\ row' \in [Exec -> Row_Status]
        /\ \A e \in Exec : row'[e] = "completed" => row[e] = "completed"
    BY <1>0, <1>1 DEF Typed, Interrupt, Row_Status
  <1>3. docker' \subseteq Nat
    <2>1. PICK kept \in SUBSET docker :
             \A n \in docker' : n \in kept \/ n \in 1 .. DefaultWorkers + Cardinality(kept)
      BY DEF Initialize
    <2> DEFINE b == DefaultWorkers + Cardinality(kept)
    <2>2. \A n \in docker' : n \in kept \/ n \in 1 .. b
      BY <2>1
    <2> HIDE DEF b
    <2>3. \A n \in 1 .. b : n \in Nat
      OBVIOUS
    <2>4. \A n \in kept : n \in Nat
      BY <1>0 DEF Typed
    <2>5. QED
      BY <2>2, <2>3, <2>4
  <1>4. QED
    BY <1>1, <1>2, <1>3, LosingKeeps

-----------------------------------------------------------------------------

LEMMA IInvInit == ASSUME Init PROVE IInv
  <1>1. docker \subseteq Nat /\ DOMAIN client = Client /\ \A c \in Client : client[c] = Idle
    BY SharedAssumption DEF Init
  <1>2. DOMAIN Idle = Client_Fields /\ Idle.outcome = "none"
    BY DEF Idle, Client_Fields
  <1>3. threads = [e \in Exec |-> <<>>] /\ threads \in [Exec -> Seq(Threads)]
    BY DEF Init
  <1>4. Typed
    BY <1>1, <1>2, <1>3 DEF Init, Typed, Row_Status, Step_PC
  <1>5. Told /\ Sent /\ Awaited /\ Admission /\ CompletedRan /\ OneRunPerTry /\ SlotsHeld
    BY <1>1, <1>2, <1>3 DEF Init, Told, Sent, Awaited, Admission, Unsent, CompletedRan,
       OneRunPerTry, SlotsHeld, Admitted
  <1>6. QED
    BY <1>4, <1>5 DEF IInv

LEMMA IInvNext == ASSUME IInv, [Next]_vars PROVE IInv'
  <1>1. ASSUME NEW e \in Exec, Backend(e) PROVE IInv'
    BY <1>1, LoadKeeps, CountKeeps, AdmitKeeps, PickKeeps, SendKeeps, PollKeeps, LeaveKeeps,
       CommitKeeps, RedisErrorKeeps, CancelKeeps, AgainKeeps DEF Backend
  <1>2. CASE UNCHANGED vars
    BY <1>2 DEF vars, containers, lists, backend, executor, IInv, Typed, Told, Returned, Sent,
       Awaited, Admission, CompletedRan, OneRunPerTry, SlotsHeld, Admitted, Gated, TopLevel
  <1>3. QED
    BY <1>1, <1>2, ContinueKeeps, InContainerKeeps, BeginKeeps, AdministerKeeps, StopKeeps,
       RestartKeeps, InitializeKeeps DEF Next

\* A try of a function's job starts it at most once, whatever is scaled,
\* reloaded, restarted or run again (container_executor.run removes a request
\* when its loop has joined the thread).
THEOREM StartedOncePerTry == Spec => []OneRunPerTry
  <1>1. IInv => OneRunPerTry
    BY DEF IInv
  <1>2. QED
    BY <1>1, IInvInit, IInvNext, PTL DEF Spec

\* An Execution row says COMPLETED only when its function returned
\* (_execute_inline_shared's result, as execution_engine commits it), in that
\* try or in an earlier one.
THEOREM CompletedIsTrue == Spec => []CompletedRan
  <1>1. IInv => CompletedRan
    BY DEF IInv
  <1>2. QED
    BY <1>1, IInvInit, IInvNext, PTL DEF Spec

\* Admission slots are held by top-level executions under way, or were left
\* behind by a process that died or by a command to Redis that failed or was
\* interrupted, which pruning removes (shared_pool_admission).
THEOREM SlotsAreHeld == Spec => []SlotsHeld
  <1>1. IInv => SlotsHeld
    BY DEF IInv
  <1>2. QED
    BY <1>1, IInvInit, IInvNext, PTL DEF Spec
=============================================================================
