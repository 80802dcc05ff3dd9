--------------------------- MODULE SharedWorkers ---------------------------
(***************************************************************************)
(* Trusted functions in the shared worker containers: admission, choice of *)
(* a worker, the executor's loop inside the container, pauses in input(),  *)
(* and what scaling, reloading and restarts do to all of them.             *)
(*                                                                         *)
(*   services/shared_admission.py       shared_pool_admission              *)
(*   services/shared_worker_manager.py  SharedWorkerManager                *)
(*   container_executor.py              run, _execute_inline_shared        *)
(*   services/executor/_docker_resume.py, and the rows that                *)
(*   services/execution_engine.py keeps of it                              *)
(*                                                                         *)
(* A container is the number in its name sinas-shared-<number>; its files  *)
(* and threads are lost when it stops.  Files are named by the execution,  *)
(* so a try of its job may meet those of an earlier one.  Each process     *)
(* keeps its own list of the containers.  Packages, images, code and the   *)
(* database's errors are left out.                                         *)
(***************************************************************************)
EXTENDS Integers, FiniteSets, SequencesExt

CONSTANTS
    Worker,         \* queue worker processes
    Exec,           \* executions of functions with shared_pool set
    Enqueued,       \* those whose row enqueue_function has created
    ProcOf,         \* the process that executes each
    Parent,         \* the execution whose function calls this one, or Nobody
    Nobody,
    Asks,           \* executions whose functions may call input()
    Client,         \* requests to continue an execution
    DefaultWorkers, \* settings.default_worker_count
    Reserve,        \* settings.shared_pool_reserve
    Target,         \* numbers of workers an administrator asks for
    MaxTries,       \* bound: runs of each job, arq's and from the dead letters
    MaxEvents       \* bound: scale and reload requests, containers stopped
                    \* from outside, processes restarted, jobs cancelled and
                    \* Redis errors, together

Proc == Worker \cup {"api"}

ASSUME SharedAssumption ==
    /\ ProcOf \in [Exec -> Worker] /\ "api" \notin Worker
    /\ Parent \in [Exec -> Exec \cup {Nobody}] /\ Nobody \notin Exec
    /\ Asks \subseteq Exec /\ Enqueued \subseteq Exec
    /\ DefaultWorkers \in Nat \ {0} /\ Reserve \in Nat
    /\ Target \subseteq Nat
    /\ MaxTries \in [Exec -> Nat] /\ MaxEvents \in Nat

VARIABLES
    docker,     \* the worker containers that exist
    stopped,    \* those that do not run
    workers,    \* self.workers of each process, in the order of its dict
    turn,       \* next_worker_index of each process
    row,        \* status of the Execution row
    handle,     \* the container in its container_id
    step,       \* where the job's try is, in execute_function
    seen,       \* the row's status as that try's session knows it
    place,      \* the container chosen for that try
    outcome,    \* what it is about to commit
    client,     \* where each request to continue is, and with what
    inflight,   \* the Redis set of admitted top-level executions
    threads,    \* the threads started for an execution, in their order
    joined,     \* the threads that an executor loop waits for
    requests,   \* request and trigger files, with the try that wrote them
    files,      \* result files, by what they say, and resume files
    tries,      \* history: how often the job was run
    abandoned,  \* history: executions that could not take their slot back
    events

containers == <<docker, stopped>>
lists == <<workers, turn>>
backend == <<row, handle, step, seen, place, outcome, inflight, tries, abandoned>>
executor == <<threads, joined, requests, files>>
vars == <<containers, lists, backend, client, executor, events>>

Idle == [pc |-> "none", of |-> Nobody, at |-> 0, outcome |-> "none"]
Done == [Idle EXCEPT !.pc = "over"]

Init ==
    /\ docker = 1 .. DefaultWorkers /\ stopped = {}
    /\ workers = [p \in Proc |-> SetToSeq(docker)]
    /\ turn = [p \in Proc |-> 0]
    /\ row = [e \in Exec |-> IF e \in Enqueued THEN "pending" ELSE "none"]
    /\ handle = [e \in Exec |-> 0]
    /\ step = [e \in Exec |-> "queued"]
    /\ seen = [e \in Exec |-> "none"]
    /\ place = [e \in Exec |-> 0]
    /\ outcome = [e \in Exec |-> "none"]
    /\ client = [c \in Client |-> Idle]
    /\ inflight = {} /\ abandoned = {}
    /\ threads = [e \in Exec |-> <<>>] /\ joined = {}
    /\ requests = {} /\ files = {}
    /\ tries = [e \in Exec |-> 0]
    /\ events = 0

Listed(p) == {workers[p][i] : i \in DOMAIN workers[p]}

Live == {"running", "asking"}

\* Where the thread <<e, k>> runs.
At(t) == threads[t[1]][t[2]].at

\* The files in /tmp and the threads of containers that stop are lost.
Lost(C) ==
    /\ threads' = [e \in Exec |-> [k \in DOMAIN threads[e] |->
                     IF threads[e][k].at \in C /\ threads[e][k].pc \in Live
                     THEN [threads[e][k] EXCEPT !.pc = "ended"] ELSE threads[e][k]]]
    /\ joined' = {t \in joined : At(t) \notin C}
    /\ requests' = {r \in requests : r.at \notin C}
    /\ files' = {f \in files : f.at \notin C}

\* The executions that hold a slot, or would if they were gated.
Admitted(e) == step[e] \in {"admitted", "placed", "polling", "leaving"}

Event == events < MaxEvents /\ events' = events + 1

-----------------------------------------------------------------------------
(***************************************************************************)
(* A try of the job: its row and its admission.                            *)
(***************************************************************************)

TopLevel(e) == Parent[e] = Nobody

Gated(e) == Reserve > 0 /\ TopLevel(e)

Cap == IF DefaultWorkers - Reserve > 1 THEN DefaultWorkers - Reserve ELSE 1

\* Entries are pruned an hour after they were added, when whoever was under
\* way then no longer is.
Prunable == {e \in inflight : ~Admitted(e)}

\* The try has ended, and its session with it.
Over(e) ==
    /\ step' = [step EXCEPT ![e] = "over"]
    /\ seen' = [seen EXCEPT ![e] = "none"]
    /\ place' = [place EXCEPT ![e] = 0]
    /\ outcome' = [outcome EXCEPT ![e] = "none"]

Goes(e, from, to) == step[e] = from /\ step' = [step EXCEPT ![e] = to]

\* The first run is called by a user or by a function that runs.
Called(e) ==
    \/ TopLevel(e) \/ tries[e] > 0
    \/ \E o \in Exec : o = Parent[e] /\ \E k \in DOMAIN threads[o] : threads[o][k].pc = "running"

\* The row is created, or found as an earlier try, or the request that
\* enqueued the job, left it.
Load(e) ==
    /\ Goes(e, "queued", IF Gated(e) THEN "loaded" ELSE "admitted") /\ Called(e)
    /\ tries' = [tries EXCEPT ![e] = @ + 1]
    /\ row' = [row EXCEPT ![e] = IF @ = "none" THEN "running" ELSE @]
    /\ seen' = [seen EXCEPT ![e] = row'[e]]
    /\ UNCHANGED <<containers, lists, handle, place, outcome, inflight, abandoned, client, executor, events>>

\* The try has something to commit.
Reporting(e, status) ==
    /\ step' = [step EXCEPT ![e] = "reporting"]
    /\ outcome' = [outcome EXCEPT ![e] = status]

Count(e) ==
    /\ step[e] = "loaded"
    /\ \E old \in SUBSET Prunable :
          /\ inflight' = inflight \ old
          /\ \/ Cardinality(inflight') < Cap /\ Goes(e, "loaded", "counted") /\ UNCHANGED outcome
             \/ Cardinality(inflight') >= Cap /\ Reporting(e, "failed")    \* SharedPoolSaturated
    /\ UNCHANGED <<containers, lists, row, handle, seen, place, tries, abandoned, client, executor, events>>

\* Added in a second command, whatever was added since the count.
Admit(e) ==
    /\ Goes(e, "counted", "admitted")
    /\ inflight' = inflight \cup {e} /\ abandoned' = abandoned \ {e}
    /\ UNCHANGED <<containers, lists, row, handle, seen, place, outcome, tries, client, executor, events>>

\* What becomes of an admitted execution; none when it is cancelled.
Leaving(e, status) ==
    /\ step' = [step EXCEPT ![e] = IF Gated(e) THEN "leaving" ELSE "reporting"]
    /\ outcome' = [outcome EXCEPT ![e] = status]

AfterLeaving(e) ==
    \/ outcome[e] = "none" /\ Over(e)
    \/ /\ outcome[e] # "none" /\ Goes(e, "leaving", "reporting")
       /\ UNCHANGED <<seen, place, outcome>>

\* Wrong: only an execution that completes gives its slot back.
LeaveKeepingSlot(e) ==
    /\ step[e] = "leaving" /\ AfterLeaving(e)
    /\ inflight' = IF outcome[e] = "completed" THEN inflight \ {e} ELSE inflight
    /\ UNCHANGED <<containers, lists, row, handle, tries, abandoned, client, executor, events>>

\* The finally clause gives the slot back.
Leave(e) ==
    /\ step[e] = "leaving" /\ AfterLeaving(e)
    /\ inflight' = inflight \ {e}
    /\ UNCHANGED <<containers, lists, row, handle, tries, abandoned, client, executor, events>>

\* An error of Redis, whose command may have been done, is a failure of the
\* execution whatever became of its function.
RedisError(e) ==
    /\ Event
    /\ \/ /\ step[e] = "loaded"
          /\ \E old \in SUBSET Prunable : inflight' = inflight \ old
          /\ UNCHANGED abandoned
       \/ /\ step[e] = "counted"
          /\ inflight' \in {inflight, inflight \cup {e}} /\ abandoned' = abandoned \cup ({e} \cap inflight')
       \/ /\ step[e] = "leaving"
          /\ inflight' \in {inflight, inflight \ {e}} /\ abandoned' = abandoned \cup ({e} \cap inflight')
    /\ Reporting(e, "failed")
    /\ UNCHANGED <<containers, lists, row, handle, seen, place, tries, client, executor>>

\* The session writes the status if it takes it for a new one.
Commit(e) ==
    /\ step[e] = "reporting" /\ Over(e)
    /\ row' = [row EXCEPT ![e] = IF outcome[e] = seen[e] THEN @ ELSE outcome[e]]
    /\ handle' = [handle EXCEPT ![e] = IF outcome[e] = "awaiting_input" THEN place[e] ELSE @]
    /\ UNCHANGED <<containers, lists, inflight, tries, abandoned, client, executor, events>>

\* The job is cancelled, by job_timeout or the shutdown of its worker: the
\* finally clause runs, the except clause does not.
Cancel(e) ==
    /\ Event
    /\ \/ /\ step[e] \in {"admitted", "placed", "polling"}
          /\ \/ Gated(e) /\ Leaving(e, "none") /\ UNCHANGED <<seen, place>>
             \/ ~Gated(e) /\ Over(e)
          /\ UNCHANGED <<inflight, abandoned>>
       \/ /\ step[e] \in {"loaded", "reporting"} /\ Over(e)
          /\ UNCHANGED <<inflight, abandoned>>
       \/ /\ step[e] = "counted" /\ Over(e)
          /\ inflight' \in {inflight, inflight \cup {e}} /\ abandoned' = abandoned \cup ({e} \cap inflight')
       \/ /\ step[e] = "leaving" /\ Over(e)
          /\ inflight' \in {inflight, inflight \ {e}} /\ abandoned' = abandoned \cup ({e} \cap inflight')
    /\ UNCHANGED <<containers, lists, row, handle, tries, client, executor>>

\* arq runs the job again, or its dead letter is retried, under the same id.
Again(e) ==
    /\ tries[e] < MaxTries[e]
    /\ Goes(e, "over", "queued")
    /\ UNCHANGED <<containers, lists, row, handle, seen, place, outcome, inflight, tries, abandoned, client, executor, events>>

-----------------------------------------------------------------------------
(***************************************************************************)
(* Choice of a worker, request and result.                                 *)
(***************************************************************************)

\* Round robin over the process's own list, whether or not they are busy.
Place(e, list) ==
    /\ place' = [place EXCEPT ![e] = list[(turn[ProcOf[e]] % Len(list)) + 1]]
    /\ turn' = [turn EXCEPT ![ProcOf[e]] = @ + 1]
    /\ step' = [step EXCEPT ![e] = "placed"]
    /\ UNCHANGED outcome

\* A process that knows no worker looks for them again, and starts those that
\* do not run.
Pick(e) ==
    LET p == ProcOf[e] IN
    /\ step[e] = "admitted"
    /\ \/ /\ workers[p] # <<>>
          /\ Place(e, workers[p])
          /\ UNCHANGED <<workers, stopped>>
       \/ /\ workers[p] = <<>> /\ docker # {}
          /\ workers' = [workers EXCEPT ![p] = SetToSeq(docker)]
          /\ stopped' = {}
          /\ Place(e, workers'[p])
       \/ /\ workers[p] = <<>> /\ docker = {}
          /\ Leaving(e, "failed")
          /\ UNCHANGED <<place, lists, stopped>>
    /\ UNCHANGED <<docker, row, handle, seen, inflight, tries, abandoned, client, executor, events>>

\* The lock is not held any more: the container may have gone.  A request
\* file of an earlier try is overwritten.
Send(e) ==
    /\ step[e] = "placed"
    /\ \/ /\ place[e] \in docker \ stopped
          /\ requests' = {r \in requests : r.of # e \/ r.at # place[e]}
                          \cup {[of |-> e, at |-> place[e], try |-> tries[e]]}
          /\ step' = [step EXCEPT ![e] = "polling"]
          /\ UNCHANGED <<workers, outcome>>
       \/ /\ place[e] \in stopped       \* dropped from the list
          /\ workers' = [workers EXCEPT ![ProcOf[e]] = Remove(@, place[e])]
          /\ Leaving(e, "failed")
          /\ UNCHANGED requests
       \/ /\ place[e] \notin docker     \* and this one is not
          /\ Leaving(e, "failed")
          /\ UNCHANGED <<workers, requests>>
    /\ UNCHANGED <<containers, turn, row, handle, seen, place, inflight, tries, abandoned, client,
                   threads, joined, files, events>>

Results == {"awaiting_input", "completed", "failed"}

\* What the result file of an execution in a container may say.
ResultIn(e, n) == {s \in Results : [of |-> e, at |-> n, is |-> s] \in files}

\* The poll in the container finds a result file: this try's, or one that was
\* there.
Poll(e) ==
    /\ step[e] = "polling"
    /\ \E s \in ResultIn(e, place[e]) : Leaving(e, s)
    /\ UNCHANGED <<containers, lists, row, handle, seen, place, inflight, tries, abandoned, client, executor, events>>

\* It finds none in time, or it ends with its container.
GiveUp(e) ==
    /\ step[e] = "polling"
    /\ Leaving(e, "failed")
    /\ UNCHANGED <<containers, lists, row, handle, seen, place, inflight, tries, abandoned, client, executor, events>>

-----------------------------------------------------------------------------
(***************************************************************************)
(* POST /executions/{id}/continue: resume_execution and docker_resume.     *)
(***************************************************************************)

ClientGoes(c, from, to) == client[c].pc = from /\ client' = [client EXCEPT ![c].pc = to]

ReadPaused(c, e) ==
    /\ client[c].pc = "none"
    /\ row[e] = "awaiting_input" /\ handle[e] # 0
    /\ client' = [client EXCEPT ![c] = [pc |-> "read", of |-> e, at |-> handle[e], outcome |-> "none"]]
    /\ UNCHANGED <<containers, lists, backend, executor, events>>

SetRunning(c) ==
    /\ ClientGoes(c, "read", "resuming")
    /\ row' = [row EXCEPT ![client[c].of] = "running"]
    /\ UNCHANGED <<containers, lists, handle, step, seen, place, outcome, inflight, tries, abandoned, executor, events>>

ClientReports(c, status) ==
    client' = [client EXCEPT ![c].pc = "reporting", ![c].outcome = status]

WriteAnswer(c) ==
    /\ client[c].pc = "resuming"
    /\ \/ /\ client[c].at \in docker \ stopped
          /\ files' = files \cup {[of |-> client[c].of, at |-> client[c].at, is |-> "answer"]}
          /\ client' = [client EXCEPT ![c].pc = "polling"]
       \/ /\ client[c].at \notin docker     \* "Container no longer available"
          /\ ClientReports(c, "failed")
          /\ UNCHANGED files
       \/ /\ client[c].at \in stopped       \* Docker's error is not caught
          /\ client' = [client EXCEPT ![c] = Done]
          /\ UNCHANGED files
    /\ UNCHANGED <<containers, lists, backend, threads, joined, requests, events>>

\* It finds a result file, or none in time.
PollAnswer(c) ==
    /\ client[c].pc = "polling"
    /\ \E s \in ResultIn(client[c].of, client[c].at) \cup {"failed"} : ClientReports(c, s)
    /\ UNCHANGED <<containers, lists, backend, executor, events>>

CommitAnswer(c) ==
    /\ client[c].pc = "reporting" /\ client' = [client EXCEPT ![c] = Done]
    /\ row' = [row EXCEPT ![client[c].of] = client[c].outcome]
    /\ handle' = [handle EXCEPT ![client[c].of] =
                     CASE client[c].outcome = "awaiting_input" -> client[c].at
                       [] client[c].outcome = "completed" -> 0
                       [] OTHER -> @]
    /\ UNCHANGED <<containers, lists, step, seen, place, outcome, inflight, tries, abandoned, executor, events>>

-----------------------------------------------------------------------------
(***************************************************************************)
(* The executor in a container: one request at a time, in a thread that it *)
(* joins.                                                                  *)
(***************************************************************************)

Busy(n) == \E t \in joined : At(t) = n

Begin(r) ==
    /\ ~Busy(r.at)
    /\ threads' = [threads EXCEPT ![r.of] =
                      Append(@, [at |-> r.at, try |-> r.try, pc |-> "running"])]
    /\ joined' = joined \cup {<<r.of, Len(threads[r.of]) + 1>>}
    /\ UNCHANGED <<containers, lists, backend, client, requests, files, events>>

ThreadGoes(e, k, from, to) ==
    /\ threads[e][k].pc \in from
    /\ threads' = [threads EXCEPT ![e][k].pc = to]

\* The function returns, whether or not it waited for what it called, or
\* raises.
FunctionEnds(e, k) ==
    /\ ThreadGoes(e, k, {"running"}, "returned") \/ ThreadGoes(e, k, {"running"}, "ended")
    /\ UNCHANGED <<containers, lists, backend, client, joined, requests, files, events>>

Written(e, n, status) ==
    files' = {f \in files : f.of # e \/ f.at # n \/ f.is = "answer"}
             \cup {[of |-> e, at |-> n, is |-> status]}

\* input() replaces the result file.
Ask(e, k) ==
    /\ e \in Asks /\ ThreadGoes(e, k, {"running"}, "asking")
    /\ Written(e, threads[e][k].at, "awaiting_input")
    /\ UNCHANGED <<containers, lists, backend, client, joined, requests, events>>

\* The result file keeps saying that input is awaited.
TakeAnswer(e, k) ==
    LET answer == [of |-> e, at |-> threads[e][k].at, is |-> "answer"] IN
    /\ answer \in files
    /\ ThreadGoes(e, k, {"asking"}, "running")
    /\ files' = files \ {answer}
    /\ UNCHANGED <<containers, lists, backend, client, joined, requests, events>>

\* INPUT_POLL_TIMEOUT, or the timer's exception in the parked thread.
InputTimeout(e, k) ==
    /\ ThreadGoes(e, k, {"asking"}, "ended")
    /\ UNCHANGED <<containers, lists, backend, client, joined, requests, files, events>>

\* No result is written over an awaited input, whichever thread awaits it.
JoinedResult(e, k, ended) ==
    LET n == threads[e][k].at IN
    IF "awaiting_input" \in ResultIn(e, n) THEN UNCHANGED files
    ELSE Written(e, n, IF threads[e][k].pc \in ended THEN "completed" ELSE "failed")

\* The thread has ended or the join times out; the timer's exception may or
\* may not end the thread.
Unjoin(e, k) ==
    /\ <<e, k>> \in joined /\ joined' = joined \ {<<e, k>>}
    /\ \/ ThreadGoes(e, k, Live, "ended")
       \/ UNCHANGED threads
    /\ UNCHANGED <<containers, lists, backend, client, events>>

\* Wrong: a thread that is still alive has not raised, so it has completed.
JoinEndsAlive(e, k) ==
    /\ Unjoin(e, k)
    /\ JoinedResult(e, k, {"returned"} \cup Live)
    /\ requests' = {r \in requests : r.of # e \/ r.at # threads[e][k].at}

\* Wrong: the request of a paused function is not removed.
JoinKeepsRequest(e, k) ==
    /\ Unjoin(e, k)
    /\ JoinedResult(e, k, {"returned"})
    /\ requests' = IF "awaiting_input" \in ResultIn(e, threads[e][k].at) THEN requests
                   ELSE {r \in requests : r.of # e \/ r.at # threads[e][k].at}

\* The request is removed, or one that a later try has put in its place.
JoinEnds(e, k) ==
    /\ Unjoin(e, k)
    /\ JoinedResult(e, k, {"returned"})
    /\ requests' = {r \in requests : r.of # e \/ r.at # threads[e][k].at}

-----------------------------------------------------------------------------
(***************************************************************************)
(* Administration: the API process scales and reloads by its own list.     *)
(***************************************************************************)

\* The numbers of the workers it adds: the lowest it does not know.
NewNumbers(count) ==
    {n \in 1 .. (Len(workers["api"]) + count) \ Listed("api") :
        Cardinality(1 .. n \ Listed("api")) <= count}

\* A container of the same name that exists is replaced.
ScaleUp(target) ==
    /\ Event
    /\ target > Len(workers["api"])
    /\ \E made \in SUBSET NewNumbers(target - Len(workers["api"])) :
          /\ docker' = docker \cup made /\ stopped' = stopped \ made
          /\ workers' = [workers EXCEPT !["api"] = @ \o SetToSeq(made)]
          /\ Lost(made)
    /\ UNCHANGED <<turn, backend, client>>

Name(n) == <<n>>

Handle(e) == <<"trusted", handle[e]>>

paused_containers == {Handle(e) : e \in {e \in Exec : row[e] = "awaiting_input"}}

\* Containers with a paused execution are to be spared, but no name is a handle.
ScaleDown(target) ==
    LET Removed == {workers["api"][i] : i \in target + 1 .. Len(workers["api"])}
        gone == {n \in Removed : Name(n) \notin paused_containers}
    IN
    /\ Event
    /\ target < Len(workers["api"])
    /\ docker' = docker \ gone /\ stopped' = stopped \ gone
    /\ workers' = [workers EXCEPT !["api"] = SelectSeq(@, LAMBDA n : n \notin gone)]
    /\ Lost(gone)
    /\ UNCHANGED <<turn, backend, client>>

\* Every container on the list is restarted.
Reload ==
    /\ Event
    /\ stopped' = stopped \ Listed("api")
    /\ Lost(docker \cap Listed("api"))
    /\ UNCHANGED <<docker, lists, backend, client>>

-----------------------------------------------------------------------------
(***************************************************************************)
(* Failures.                                                               *)
(***************************************************************************)

Stop(n) ==
    /\ Event
    /\ stopped' = stopped \cup {n}
    /\ Lost({n})
    /\ UNCHANGED <<docker, lists, backend, client>>

\* A queue worker or the API process restarts: what it was doing is lost, and
\* it lists and starts the containers that exist.
Restart(p) ==
    LET lost == {e \in Exec : ProcOf[e] = p /\ step[e] \notin {"queued", "over"}} IN
    /\ Event
    /\ step' = [e \in Exec |-> IF e \in lost THEN "over" ELSE step[e]]
    /\ seen' = [e \in Exec |-> IF e \in lost THEN "none" ELSE seen[e]]
    /\ place' = [e \in Exec |-> IF e \in lost THEN 0 ELSE place[e]]
    /\ outcome' = [e \in Exec |-> IF e \in lost THEN "none" ELSE outcome[e]]
    /\ abandoned' = abandoned \cup (lost \cap inflight)
    /\ client' = IF p = "api" THEN [c \in Client |-> Done] ELSE client
    /\ workers' = [workers EXCEPT ![p] = SetToSeq(docker)]
    /\ turn' = [turn EXCEPT ![p] = 0]
    /\ stopped' = {}
    /\ UNCHANGED <<docker, row, handle, inflight, tries, executor>>

\* _cleanup_stuck_executions
Interrupt(e) == IF row[e] \in {"running", "awaiting_input"} THEN "failed" ELSE row[e]

\* The scheduler starts: workers of an old image are removed, the others are
\* restarted, rows that run or wait are marked failed, and the default number
\* is made up.
Initialize ==
    /\ Event
    /\ \E stale \in SUBSET docker :
          LET kept == docker \ stale IN
          docker' = kept \cup {n \in 1 .. DefaultWorkers + Cardinality(kept) :
                                 /\ n \notin kept
                                 /\ Cardinality(1 .. n \ kept) + Cardinality(kept) <= DefaultWorkers}
    /\ stopped' = {}
    /\ Lost(docker \cup docker')
    /\ row' = [e \in Exec |-> Interrupt(e)]
    /\ UNCHANGED <<lists, handle, step, seen, place, outcome, inflight, tries, abandoned, client>>

-----------------------------------------------------------------------------

Backend(e) ==
    \/ Load(e) \/ Count(e) \/ Admit(e) \/ Pick(e) \/ Send(e) \/ Poll(e) \/ GiveUp(e)
    \/ Leave(e) \/ Commit(e) \/ RedisError(e) \/ Cancel(e) \/ Again(e)

Continue(c) ==
    \/ \E e \in Exec : ReadPaused(c, e)
    \/ SetRunning(c) \/ WriteAnswer(c) \/ PollAnswer(c) \/ CommitAnswer(c)

InContainer(e, k) ==
    FunctionEnds(e, k) \/ Ask(e, k) \/ TakeAnswer(e, k) \/ InputTimeout(e, k) \/ JoinEnds(e, k)

Administer ==
    \/ \E target \in Target : ScaleUp(target) \/ ScaleDown(target)
    \/ Reload

Next ==
    \/ \E e \in Exec : Backend(e) \/ \E k \in DOMAIN threads[e] : InContainer(e, k)
    \/ \E c \in Client : Continue(c)
    \/ \E r \in requests : Begin(r)
    \/ Administer
    \/ \E n \in docker \ stopped : Stop(n)
    \/ \E p \in Proc : Restart(p)
    \/ Initialize

Spec == Init /\ [][Next]_vars

-----------------------------------------------------------------------------
(***************************************************************************)
(* Properties.                                                             *)
(***************************************************************************)

\* A row says completed only when its function has returned: not when it was
\* stopped by its timeout, lost with its container or left waiting.
CompletedRan ==
    \A e \in Exec : row[e] = "completed" => \E k \in DOMAIN threads[e] : threads[e][k].pc = "returned"

\* A try of the job starts the function at most once, although its request
\* outlives its thread when it pauses, a later try finds what it left under
\* the same names, and containers restart.
OneRunPerTry ==
    \A e \in Exec : \A i, j \in DOMAIN threads[e] : threads[e][i].try = threads[e][j].try => i = j

\* With slots reserved, a top-level execution under way has a slot, and one
\* that is not has none, unless its process died with it or its command to
\* Redis was interrupted or failed.
SlotsHeld ==
    /\ \A e \in inflight : Admitted(e) \/ e \in abandoned
    /\ \A e \in Exec : Gated(e) /\ Admitted(e) => e \in inflight

=============================================================================
