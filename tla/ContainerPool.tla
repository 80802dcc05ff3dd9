--------------------------- MODULE ContainerPool ---------------------------
(***************************************************************************)
(* The pool of sandbox containers.  Docker's containers are shared by all  *)
(* backend processes, but each process keeps a pool of its own in memory,  *)
(* filled by discovery when it starts: the scheduler creates and checks    *)
(* containers, workers acquire and release them, and the API process       *)
(* scales on an administrator's request.                                   *)
(*                                                                         *)
(*   services/container_pool.py  ContainerPool                             *)
(*   services/code_execution.py  execute_code                              *)
(*   scheduler/service.py, queue/worker.py, main.py: who starts which pool *)
(*                                                                         *)
(* A container is its number in sinas-sandbox-<number>: the code knows it  *)
(* by name only, and a new container of that name replaces the old one.    *)
(* Packages, networks and what a function computes are left out.           *)
(***************************************************************************)
EXTENDS Integers, FiniteSets, SequencesExt

CONSTANTS
    Worker,         \* processes that execute functions
    Exec,           \* executions that need a sandbox container
    Code,           \* those of the code_execution tool
    ProcOf,         \* the worker an execution runs in
    Request,        \* POST /containers/scale requests
    Target,         \* the sizes they ask for, cut to MaxSize
    MinSize,        \* settings.sandbox_min_size
    MinIdle,        \* settings.sandbox_min_idle
    MaxSize,        \* settings.sandbox_max_size
    MaxExecutions,  \* settings.sandbox_max_executions
    MaxFaults,      \* bound: Docker errors, lost containers, interrupted releases,
                    \*   names the replenish loop takes while they are purged
    MaxRestarts     \* bound: restarts of processes

Proc == Worker \cup {"api", "scheduler"}
Name == Nat \ {0}
Maker == Request \cup {"replenisher"}

ASSUME PoolAssumption ==
    /\ Code \subseteq Exec
    /\ ProcOf \in [Exec -> Worker]
    /\ IsFiniteSet(Request)
    /\ Worker \cap {"api", "scheduler"} = {}
    /\ "replenisher" \notin Request
    /\ Target \subseteq 0 .. MaxSize
    /\ MinSize \in Nat /\ MinIdle \in Nat /\ MaxSize \in Nat
    /\ MinIdle <= MaxSize /\ MinSize <= MaxSize
    /\ MaxExecutions \in Nat \ {0}
    /\ MaxFaults \in Nat /\ MaxRestarts \in Nat

VARIABLES
    docker,     \* the containers that exist
    idle,       \* the idle containers of each process, oldest first
    pc,         \* where each execution is
    held,       \* the container an execution has acquired
    maker,      \* what the replenish loop and each scale request are doing
    room,       \* how many containers they may still create or remove
    making,     \* the container they are creating
    dead,       \* what the scheduler's health check found dead
    purging,    \* the one of these that it is destroying, 0 when none
    faults, restarts

executions == <<pc, held>>
makers == <<maker, room, making>>
bounds == <<faults, restarts>>
vars == <<docker, idle, executions, makers, dead, purging, bounds>>

Pooled == [name : Name, runs : Nat]
Nothing == [name |-> 1, runs |-> 0]     \* a held container not in use

-----------------------------------------------------------------------------
(***************************************************************************)
(* The state of one process's pool.                                        *)
(***************************************************************************)

\* An execution of code never releases: release is a coroutine that
\* asyncio.to_thread creates and nobody awaits.
Holding(e) == pc[e] \in {"held", "returned", "raised", "leaked"}

in_use(p) == {held[e].name : e \in {e \in Exec : ProcOf[e] = p /\ Holding(e)}}

InUse(p) == Cardinality({e \in Exec : ProcOf[e] = p /\ Holding(e)})

IdleNames(p) == {idle[p][i].name : i \in DOMAIN idle[p]}

HomeOf(m) == IF m \in Request THEN "api" ELSE "scheduler"

_creating_names(p) ==
    {making[m] : m \in {m \in Maker : HomeOf(m) = p /\ maker[m] = "creating"}}

\* Destroying a container keeps the condition's lock.
Locked(p) ==
    \/ \E e \in Exec : ProcOf[e] = p /\ pc[e] = "destroying"
    \/ \E r \in Request : p = "api" /\ maker[r] = "shrinking"
    \/ p = "scheduler" /\ purging # 0

Known(p) == IdleNames(p) \cup in_use(p) \cup _creating_names(p)

\* Wrong: a number never used before.
FreshName(p) ==
    LET Above == {n \in 1 .. Cardinality(Known(p)) + MaxSize : \A k \in Known(p) : k < n}
    IN  CHOOSE n \in Above : \A k \in Above : n <= k

\* _next_available_name: the lowest number the process does not know of.
FreeName(p) ==
    LET Free == (1 .. Cardinality(Known(p)) + 1) \ Known(p)
    IN  CHOOSE n \in Free : \A k \in Free : n <= k

\* All containers that exist, in some order.
Discovered ==
    CHOOSE s \in [1 .. Cardinality(docker) -> [name : docker, runs : {0}]] :
        \A i, j \in DOMAIN s : s[i].name = s[j].name => i = j

\* Some containers may be left from an earlier life of the backend; every
\* process but the scheduler has discovered them, the scheduler fills up.
Init ==
    /\ docker \in {1 .. n : n \in 0 .. MaxSize}
    /\ idle = [p \in Proc |-> Discovered]
    /\ pc = [e \in Exec |-> "waiting"]
    /\ held = [e \in Exec |-> Nothing]
    /\ maker = [m \in Maker |-> IF m \in Request THEN "asked" ELSE "growing"]
    /\ room = [m \in Maker |->
                 IF m \in Request \/ Cardinality(docker) > MinSize THEN 0
                 ELSE MinSize - Cardinality(docker)]
    /\ making = [m \in Maker |-> 1]
    /\ dead = {} /\ purging = 0
    /\ faults = 0 /\ restarts = 0

Goto(e, to) == pc' = [pc EXCEPT ![e] = to]

Fault == faults < MaxFaults /\ faults' = faults + 1

-----------------------------------------------------------------------------
(***************************************************************************)
(* Acquire.                                                                *)
(***************************************************************************)

Take(e, i) ==
    LET p == ProcOf[e] IN
    /\ held' = [held EXCEPT ![e] = idle[p][i]]
    /\ idle' = [idle EXCEPT ![p] = SubSeq(@, i + 1, Len(@))]
    /\ Goto(e, "held")

Alive(p) == {i \in DOMAIN idle[p] : idle[p][i].name \in docker}

\* The first idle container that Docker knows; those before it are dropped.
Acquire(e) ==
    LET p == ProcOf[e] IN
    /\ pc[e] = "waiting" /\ ~Locked(p)
    /\ idle[p] # <<>>
    /\ \/ \E i \in Alive(p) : (\A k \in Alive(p) : i <= k) /\ Take(e, i)
       \/ /\ Alive(p) = {}
          /\ idle' = [idle EXCEPT ![p] = <<>>]
          /\ Goto(e, "waiting again")
          /\ UNCHANGED held
    /\ UNCHANGED <<docker, makers, dead, purging, bounds>>

\* After all idle containers were dead, the next one is taken unseen.
AcquireAgain(e) ==
    /\ pc[e] = "waiting again" /\ ~Locked(ProcOf[e])
    /\ idle[ProcOf[e]] # <<>>
    /\ Take(e, 1)
    /\ UNCHANGED <<docker, makers, dead, purging, bounds>>

\* sandbox_acquire_timeout
AcquireTimeout(e) ==
    /\ pc[e] \in {"waiting", "waiting again"}
    /\ idle[ProcOf[e]] = <<>>
    /\ Goto(e, "over")
    /\ UNCHANGED <<docker, idle, held, makers, dead, purging, bounds>>

-----------------------------------------------------------------------------
(***************************************************************************)
(* Execution and release.                                                  *)
(***************************************************************************)

\* The function returns or raises; it raises when its container is gone.
Finish(e) ==
    /\ pc[e] = "held"
    /\ \/ held[e].name \in docker /\ Goto(e, IF e \in Code THEN "leaked" ELSE "returned")
       \/ Goto(e, IF e \in Code THEN "leaked" ELSE "raised")
    /\ UNCHANGED <<docker, idle, held, makers, dead, purging, bounds>>

\* The job is cancelled or times out: except Exception does not see it, so
\* the container is released untainted.
Cancel(e) ==
    /\ \/ pc[e] \in {"waiting", "waiting again"} /\ Goto(e, "over")
       \/ pc[e] = "held" /\ Goto(e, IF e \in Code THEN "leaked" ELSE "returned")
    /\ UNCHANGED <<docker, idle, held, makers, dead, purging, bounds>>

Recycle(e) == pc[e] = "raised" \/ held[e].runs + 1 >= MaxExecutions

\* The container goes back to the pool, once more used.
PutBack(e) ==
    idle' = [idle EXCEPT ![ProcOf[e]] = Append(@, [held[e] EXCEPT !.runs = @ + 1])]

\* Wrong: a container put back stays in use.
ReleaseKeeping(e) ==
    /\ pc[e] \in {"returned", "raised"} /\ ~Locked(ProcOf[e])
    /\ IF Recycle(e) \/ held[e].name \notin docker
       THEN Goto(e, "destroying") /\ UNCHANGED idle
       ELSE Goto(e, "leaked") /\ PutBack(e)
    /\ UNCHANGED <<docker, held, makers, dead, purging, bounds>>

Release(e) ==
    /\ pc[e] \in {"returned", "raised"} /\ ~Locked(ProcOf[e])
    /\ \/ /\ Recycle(e)
          /\ Goto(e, "destroying")
          /\ UNCHANGED <<idle, held, faults>>
       \/ /\ ~Recycle(e) /\ held[e].name \in docker
          /\ PutBack(e)
          /\ Goto(e, "over")
          /\ held' = [held EXCEPT ![e] = Nothing]
          /\ UNCHANGED faults
       \/ /\ ~Recycle(e)        \* its files cannot be cleaned up
          /\ (held[e].name \notin docker /\ UNCHANGED faults) \/ Fault
          /\ Goto(e, "destroying")
          /\ UNCHANGED <<idle, held>>
    /\ UNCHANGED <<docker, makers, dead, purging, restarts>>

\* A container that cannot be removed is forgotten by this process.
Destroy(e) ==
    /\ pc[e] = "destroying"
    /\ \/ docker' = docker \ {held[e].name} /\ UNCHANGED faults
       \/ Fault /\ UNCHANGED docker
    /\ held' = [held EXCEPT ![e] = Nothing]
    /\ Goto(e, "over")
    /\ UNCHANGED <<idle, makers, dead, purging, restarts>>

\* The job is cancelled while it waits for the lock.
ReleaseInterrupted(e) ==
    /\ Fault
    /\ pc[e] \in {"returned", "raised"} /\ Locked(ProcOf[e])
    /\ Goto(e, "leaked")
    /\ UNCHANGED <<docker, idle, held, makers, dead, purging, restarts>>

-----------------------------------------------------------------------------
(***************************************************************************)
(* Creation, by the scheduler's initialize and _replenish_loop and by      *)
(* scale in the API process.                                               *)
(***************************************************************************)

\* The loop's total is read once, and counts what it creates itself.
ReplenishWake ==
    /\ maker["replenisher"] = "rest"
    /\ maker' = [maker EXCEPT !["replenisher"] = "topping up"]
    /\ room' = [room EXCEPT !["replenisher"] = MaxSize - Len(idle["scheduler"])]
    /\ UNCHANGED <<docker, idle, executions, making, dead, purging, bounds>>

Wanted(m) ==
    /\ room[m] > 0
    /\ maker[m] = "topping up" => Len(idle["scheduler"]) < MinIdle

\* The name is chosen without the lock: it may be one that is purged.
Create(m) ==
    /\ maker[m] \in {"topping up", "growing"}
    /\ Wanted(m)
    /\ IF HomeOf(m) = "scheduler" /\ FreeName("scheduler") = purging
       THEN Fault ELSE UNCHANGED faults
    /\ making' = [making EXCEPT ![m] = FreeName(HomeOf(m))]
    /\ maker' = [maker EXCEPT ![m] = "creating"]
    /\ UNCHANGED <<docker, idle, executions, room, dead, purging, restarts>>

CreateEnough(m) ==
    /\ maker[m] \in {"topping up", "growing"}
    /\ ~Wanted(m)
    /\ maker' = [maker EXCEPT ![m] = IF m \in Request THEN "over" ELSE "rest"]
    /\ room' = [room EXCEPT ![m] = 0]
    /\ UNCHANGED <<docker, idle, executions, making, dead, purging, bounds>>

\* A container that squats on the name is removed, whoever uses it.
Created(m) ==
    /\ maker[m] = "creating"
    /\ docker' = docker \cup {making[m]}
    /\ maker' = [maker EXCEPT ![m] = "created"]
    /\ UNCHANGED <<idle, executions, room, making, dead, purging, bounds>>

\* Between its creation and this step no set of the pool has its name.
AddIdle(m) ==
    /\ maker[m] = "created" /\ ~Locked(HomeOf(m))
    /\ idle' = [idle EXCEPT ![HomeOf(m)] = Append(@, [name |-> making[m], runs |-> 0])]
    /\ room' = [room EXCEPT ![m] = @ - 1]
    /\ maker' = [maker EXCEPT ![m] = IF m \in Request THEN "growing" ELSE "topping up"]
    /\ making' = [making EXCEPT ![m] = 1]
    /\ UNCHANGED <<docker, executions, dead, purging, bounds>>

CreateRaises(m) ==
    /\ maker[m] = "creating" /\ Fault
    /\ docker' = docker \ {making[m]}
    /\ maker' = [maker EXCEPT ![m] = IF m \in Request THEN "over" ELSE "rest"]
    /\ UNCHANGED <<idle, executions, room, making, dead, purging, restarts>>

\* target is at most MaxSize
Scale(r, target) ==
    LET current == Len(idle["api"]) + InUse("api") IN
    /\ maker[r] = "asked"
    /\ room' = [room EXCEPT ![r] = IF target > current THEN target - current
                                   ELSE current - target]
    /\ maker' = [maker EXCEPT ![r] = IF target > current THEN "growing"
                                     ELSE IF target < current THEN "to shrink"
                                     ELSE "over"]
    /\ UNCHANGED <<docker, idle, executions, making, dead, purging, bounds>>

\* Idle containers of this process, the newest first, whoever else has them.
Shrink(r) ==
    /\ \/ maker[r] = "to shrink" /\ ~Locked("api")
       \/ maker[r] = "shrinking"
    /\ \/ /\ room[r] > 0 /\ idle["api"] # <<>>
          /\ idle' = [idle EXCEPT !["api"] = Front(@)]
          /\ \/ docker' = docker \ {Last(idle["api"]).name} /\ UNCHANGED faults
             \/ Fault /\ UNCHANGED docker
          /\ room' = [room EXCEPT ![r] = @ - 1]
          /\ maker' = [maker EXCEPT ![r] = "shrinking"]
       \/ /\ room[r] = 0 \/ idle["api"] = <<>>
          /\ maker' = [maker EXCEPT ![r] = "over"]
          /\ UNCHANGED <<docker, idle, room, faults>>
    /\ UNCHANGED <<executions, making, dead, purging, restarts>>

-----------------------------------------------------------------------------
(***************************************************************************)
(* The scheduler's health check, and restarts.                             *)
(***************************************************************************)

HealthCheck ==
    /\ maker["replenisher"] # "growing"
    /\ dead = {} /\ purging = 0
    /\ dead' = IdleNames("scheduler") \ docker
    /\ UNCHANGED <<docker, idle, executions, makers, purging, bounds>>

\* Any error counts as dead, and so does a container that does not run.
HealthCheckErrs ==
    /\ Fault
    /\ maker["replenisher"] # "growing"
    /\ dead = {} /\ purging = 0
    /\ \E n \in IdleNames("scheduler") :
          dead' = (IdleNames("scheduler") \ docker) \cup {n}
    /\ UNCHANGED <<docker, idle, executions, makers, purging, restarts>>

\* Wrong: what was found dead is destroyed and kept in the pool.
PurgeDocker(n) ==
    /\ purging' = n
    /\ dead' = dead \ {n}
    /\ UNCHANGED idle

\* Out of the pool, then out of Docker.
Purge(n) ==
    /\ purging' = n
    /\ dead' = dead \ {n}
    /\ \/ \E i \in DOMAIN idle["scheduler"] :
             /\ idle["scheduler"][i].name = n
             /\ idle' = [idle EXCEPT !["scheduler"] = RemoveAt(@, i)]
       \/ n \notin IdleNames("scheduler") /\ UNCHANGED idle

HealthPurge ==
    /\ purging = 0
    /\ \E n \in dead : Purge(n)
    /\ UNCHANGED <<docker, executions, makers, bounds>>

\* The container of that name is removed, even if it has been created again;
\* or it is not, and forgotten.  The lock is kept until all are purged.
HealthDestroy ==
    /\ purging # 0
    /\ \/ docker' = docker \ {purging} /\ UNCHANGED faults
       \/ Fault /\ UNCHANGED docker
    /\ \/ \E n \in dead : Purge(n)
       \/ dead = {} /\ purging' = 0 /\ UNCHANGED <<idle, dead>>
    /\ UNCHANGED <<executions, makers, restarts>>

\* A container disappears from outside.
Vanish(n) ==
    /\ Fault
    /\ docker' = docker \ {n}
    /\ UNCHANGED <<idle, executions, makers, dead, purging, restarts>>

\* Executions end with their process, which then discovers what exists.
Restart(p) ==
    /\ restarts < MaxRestarts /\ restarts' = restarts + 1
    /\ idle' = [idle EXCEPT ![p] = Discovered]
    /\ LET lost == {e \in Exec : ProcOf[e] = p /\ pc[e] # "waiting"} IN
          /\ pc' = [e \in Exec |-> IF e \in lost THEN "over" ELSE pc[e]]
          /\ held' = [e \in Exec |-> IF e \in lost THEN Nothing ELSE held[e]]
    /\ maker' = [m \in Maker |->
                   IF HomeOf(m) # p THEN maker[m]
                   ELSE IF m = "replenisher" THEN "growing"
                   ELSE IF maker[m] = "asked" THEN "asked" ELSE "over"]
    /\ room' = IF p = "scheduler"
               THEN [room EXCEPT !["replenisher"] =
                       IF Cardinality(docker) > MinSize THEN 0
                       ELSE MinSize - Cardinality(docker)]
               ELSE room
    /\ dead' = IF p = "scheduler" THEN {} ELSE dead
    /\ purging' = IF p = "scheduler" THEN 0 ELSE purging
    /\ UNCHANGED <<docker, making, faults>>

-----------------------------------------------------------------------------

Replenish ==
    \/ ReplenishWake
    \/ Create("replenisher") \/ CreateEnough("replenisher")
    \/ Created("replenisher") \/ AddIdle("replenisher")

HealthLoop == HealthCheck \/ HealthPurge \/ HealthDestroy

Use(e) ==
    \/ Acquire(e) \/ AcquireAgain(e) \/ AcquireTimeout(e)
    \/ Finish(e) \/ Cancel(e) \/ Release(e) \/ Destroy(e) \/ ReleaseInterrupted(e)

Administer(r) ==
    \/ \E target \in Target : Scale(r, target)
    \/ Create(r) \/ CreateEnough(r) \/ Created(r) \/ AddIdle(r)
    \/ Shrink(r)

Next ==
    \/ \E e \in Exec : Use(e)
    \/ \E r \in Request : Administer(r)
    \/ Replenish
    \/ \E m \in Maker : CreateRaises(m)
    \/ HealthLoop \/ HealthCheckErrs
    \/ \E n \in docker : Vanish(n)
    \/ \E p \in Proc : Restart(p)

\* The scheduler's two loops run for ever.
Spec == Init /\ [][Next]_vars /\ WF_vars(Replenish) /\ WF_vars(HealthLoop)

-----------------------------------------------------------------------------
(***************************************************************************)
(* Properties.                                                             *)
(***************************************************************************)

TypeOK ==
    /\ docker \subseteq Name
    /\ idle \in [Proc -> Seq(Pooled)]
    /\ pc \in [Exec -> {"waiting", "waiting again", "held", "returned", "raised",
                        "destroying", "leaked", "over"}]
    /\ held \in [Exec -> Pooled]
    /\ maker \in [Maker -> {"asked", "rest", "topping up", "growing", "creating",
                            "created", "to shrink", "shrinking", "over"}]
    /\ room \in [Maker -> Int]
    /\ making \in [Maker -> Name]
    /\ dead \subseteq Name /\ purging \in Name \cup {0}
    /\ faults \in Nat /\ restarts \in Nat

OneRequest == \A r, s \in Request : r = s

\* One process hands a container to one execution at a time: no container
\* is idle twice, held twice, or idle while it is held.  (With two scale
\* requests at once it may be: see AddIdle.)
HeldOnce ==
    OneRequest => \A p \in Proc :
        /\ \A i, j \in DOMAIN idle[p] : idle[p][i].name = idle[p][j].name => i = j
        /\ IdleNames(p) \cap in_use(p) = {}
        /\ Cardinality(in_use(p)) = InUse(p)

\* Although processes do not know of each other's containers, together they
\* never have more than the maximum: each takes the lowest number it does
\* not know.  (Two scale requests at once may count the same containers.)
WithinMaximum == OneRequest => docker \subseteq 1 .. MaxSize

\* What workers destroy without telling anyone, the scheduler's health check
\* finds missing and its replenish loop creates again.
PoolRefills == <>[](Cardinality(docker) >= MinIdle)

=============================================================================
