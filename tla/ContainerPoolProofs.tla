------------------------ MODULE ContainerPoolProofs ------------------------
(***************************************************************************)
(* For any number of workers, executions, Docker errors and restarts, with *)
(* one scale request at a time: the processes that share Docker without    *)
(* knowing of each other's containers never have more than the maximum     *)
(* (IInv), and none hands a container to two executions (HInv).            *)
(***************************************************************************)
EXTENDS ContainerPool, FiniteSetTheorems, SequenceTheorems, TLAPS

LEMMA LeastElement ==
  ASSUME NEW S \in SUBSET Nat, S # {}
  PROVE  \E n \in S : \A k \in S : n <= k
  <1> DEFINE T == {1 .. n : n \in S}
  <1>1. T \subseteq FiniteSubsetsOf(Nat)
    BY FS_Interval DEF FiniteSubsetsOf
  <1>2. IsWellFoundedOn(StrictSubsetOrdering(Nat), FiniteSubsetsOf(Nat))
    BY FS_StrictSubsetOrderingWellFounded
  <1>3. T # {}
    OBVIOUS
  <1> HIDE DEF T
  <1>4. PICK x \in T : \A y \in T : <<y, x>> \notin StrictSubsetOrdering(Nat)
    BY <1>1, <1>2, <1>3, WFMin
  <1> USE DEF T
  <1>5. PICK n \in S : x = 1 .. n
    OBVIOUS
  <1>6. ASSUME NEW k \in S, k < n PROVE FALSE
    <2>1. 1 .. k \subseteq Nat /\ 1 .. n \subseteq Nat /\ 1 .. k \subseteq 1 .. n /\ 1 .. k # 1 .. n
      <3>1. n \in 1 .. n /\ n \notin 1 .. k
        BY <1>6
      <3>2. QED
        BY <1>6, <3>1
    <2>2. <<1 .. k, x>> \in StrictSubsetOrdering(Nat)
      BY <1>5, <2>1 DEF StrictSubsetOrdering
    <2>3. QED
      BY <1>4, <2>2
  <1>7. QED
    BY <1>6

LEMMA FreeNumber ==
  ASSUME NEW S \in SUBSET Nat, IsFiniteSet(S)
  PROVE  LET F == (1 .. Cardinality(S) + 1) \ S
             n == CHOOSE n \in F : \A k \in F : n <= k
         IN  n \in 1 .. Cardinality(S) + 1 /\ n \notin S
  <1> DEFINE F == (1 .. Cardinality(S) + 1) \ S
  <1>0. Cardinality(S) \in Nat
    BY FS_CardinalityType
  <1>1. F # {}
    <2> SUFFICES ASSUME 1 .. Cardinality(S) + 1 \in SUBSET S PROVE FALSE
      OBVIOUS
    <2>1. Cardinality(1 .. Cardinality(S) + 1) <= Cardinality(S)
      BY FS_Subset
    <2>2. Cardinality(1 .. Cardinality(S) + 1) = Cardinality(S) + 1
      BY <1>0, FS_Interval
    <2>3. QED
      BY <1>0, <2>1, <2>2
  <1>2. \E n \in F : \A k \in F : n <= k
    <2>1. F \in SUBSET Nat
      BY <1>0
    <2> HIDE DEF F
    <2>2. QED
      BY <2>1, <1>1, LeastElement
  <1>3. QED
    BY <1>2

LEMMA ImageFinite ==
  ASSUME NEW S, IsFiniteSet(S), NEW f, NEW T, T = {f[x] : x \in S}
  PROVE  IsFiniteSet(T) /\ Cardinality(T) <= Cardinality(S)
  <1> DEFINE g == [x \in S |-> f[x]]
  <1>1. g \in Surjection(S, T)
    BY DEF Surjection
  <1>2. QED
    BY <1>1, FS_Surjection

-----------------------------------------------------------------------------
(* What a process knows.                                                   *)

Making(m) == maker[m] \in {"topping up", "growing", "creating", "created"}

\* With one scale request at a time: what a maker may still create fits
\* beside what its process knows, and so does the number it is creating.
Budget ==
    OneRequest => \A m \in Maker :
        /\ Making(m) => room[m] + Len(idle[HomeOf(m)]) <= MaxSize
        /\ maker[m] \in {"creating", "created"} => making[m] <= MaxSize /\ room[m] >= 1

IInv == TypeOK /\ IsFiniteSet(docker) /\ Budget /\ WithinMaximum

LEMMA DiscoveredType ==
  ASSUME docker \subseteq Name, IsFiniteSet(docker)
  PROVE  Discovered \in Seq(Pooled) /\ Len(Discovered) = Cardinality(docker)
  <1> DEFINE n == Cardinality(docker)
             E == [name : docker, runs : {0}]
  <1>1. n \in Nat /\ ExistsBijection(1 .. n, docker)
    BY FS_CardinalityType
  <1>0. PICK g : g \in Bijection(1 .. n, docker)
    BY <1>1 DEF ExistsBijection
  <1>2. g \in [1 .. n -> docker] /\ \A i, j \in 1 .. n : g[i] = g[j] => i = j
    BY <1>0 DEF Bijection, Injection, IsInjective
  <1>3. [i \in 1 .. n |-> [name |-> g[i], runs |-> 0]] \in [1 .. n -> E]
    BY <1>2
  <1>4. \E s \in [1 .. n -> E] : \A i, j \in DOMAIN s : s[i].name = s[j].name => i = j
    BY <1>2, <1>3
  <1>5. Discovered \in [1 .. n -> E]
    BY <1>4 DEF Discovered
  <1>6. E \subseteq Pooled
    BY DEF Pooled
  <1>7. Discovered \in [1 .. n -> Pooled]
    BY <1>5, <1>6
  <1>8. QED
    BY <1>1, <1>7

\* A maker lives in a process that executes nothing.
LEMMA NothingInUse ==
  ASSUME NEW m \in Maker
  PROVE  in_use(HomeOf(m)) = {} /\ InUse(HomeOf(m)) = 0
  <1>1. {e \in Exec : ProcOf[e] = HomeOf(m) /\ Holding(e)} = {}
    BY PoolAssumption DEF HomeOf
  <1>2. QED
    BY <1>1, FS_EmptySet DEF in_use, InUse

LEMMA IdleNamesFinite ==
  ASSUME TypeOK, NEW p \in Proc
  PROVE  /\ IsFiniteSet(IdleNames(p))
         /\ Cardinality(IdleNames(p)) <= Len(idle[p])
         /\ IdleNames(p) \subseteq Name
  <1>1. idle[p] \in Seq(Pooled)
    BY DEF TypeOK
  <1>2. DOMAIN idle[p] = 1 .. Len(idle[p]) /\ Len(idle[p]) \in Nat
    BY <1>1
  <1> DEFINE f == [i \in 1 .. Len(idle[p]) |-> idle[p][i].name]
  <1>3. IdleNames(p) = {f[i] : i \in 1 .. Len(idle[p])}
    BY <1>2 DEF IdleNames
  <1>4. IsFiniteSet(1 .. Len(idle[p])) /\ Cardinality(1 .. Len(idle[p])) = Len(idle[p])
    BY <1>2, FS_Interval
  <1> HIDE DEF f
  <1>5. IsFiniteSet(IdleNames(p)) /\ Cardinality(IdleNames(p)) <= Len(idle[p])
    BY <1>3, <1>4, ImageFinite
  <1>6. IdleNames(p) \subseteq Name
    <2>1. \A i \in 1 .. Len(idle[p]) : idle[p][i] \in Pooled
      BY <1>1
    <2>2. \A i \in 1 .. Len(idle[p]) : idle[p][i].name \in Name
      BY <2>1 DEF Pooled
    <2>3. QED
      BY <1>2, <2>2 DEF IdleNames
  <1>7. QED
    BY <1>5, <1>6

LEMMA FreeNameType ==
  ASSUME TypeOK, NEW m \in Maker
  PROVE  FreeName(HomeOf(m)) \in Name
  <1> DEFINE p == HomeOf(m)
  <1>1. p \in Proc
    BY DEF HomeOf, Proc
  <1>2. IsFiniteSet(Maker)
    BY PoolAssumption, FS_AddElement DEF Maker
  <1>3. IsFiniteSet({making[k] : k \in Maker})
    BY <1>2, ImageFinite
  <1>4. /\ IsFiniteSet(_creating_names(p))
        /\ _creating_names(p) \subseteq Name
    <2>1. _creating_names(p) \in SUBSET {making[k] : k \in Maker}
      BY DEF _creating_names
    <2>2. {making[k] : k \in Maker} \subseteq Name
      BY DEF TypeOK
    <2>3. IsFiniteSet(_creating_names(p))
      BY <1>3, <2>1, FS_Subset
    <2>4. QED
      BY <2>1, <2>2, <2>3
  <1>5. Known(p) = IdleNames(p) \cup _creating_names(p)
    BY NothingInUse DEF Known
  <1>6. IsFiniteSet(Known(p)) /\ Known(p) \in SUBSET Nat
    BY <1>1, <1>4, <1>5, IdleNamesFinite, FS_Union DEF Name
  <1>7. FreeName(p) \in 1 .. Cardinality(Known(p)) + 1
    BY <1>6, FreeNumber DEF FreeName
  <1>8. QED
    BY <1>6, <1>7, FS_CardinalityType DEF Name

\* With one request at a time the free number is at most one above the
\* number of idle containers.
LEMMA FreeNameBound ==
  ASSUME TypeOK, OneRequest, NEW m \in Maker, maker[m] # "creating"
  PROVE  FreeName(HomeOf(m)) <= Len(idle[HomeOf(m)]) + 1
  <1> DEFINE p == HomeOf(m)
  <1>1. p \in Proc
    BY DEF HomeOf, Proc
  <1>2. _creating_names(p) = {}
    BY PoolAssumption DEF _creating_names, HomeOf, Maker, OneRequest
  <1>3. Known(p) = IdleNames(p)
    BY <1>2, NothingInUse DEF Known
  <1>4. IsFiniteSet(Known(p)) /\ Known(p) \in SUBSET Nat /\ Cardinality(Known(p)) <= Len(idle[p])
    BY <1>1, <1>3, IdleNamesFinite DEF Name
  <1>5. FreeName(p) \in 1 .. Cardinality(Known(p)) + 1
    BY <1>4, FreeNumber DEF FreeName
  <1>6. Cardinality(Known(p)) \in Nat /\ Len(idle[p]) \in Nat
    <2>1. idle[p] \in Seq(Pooled)
      BY <1>1 DEF TypeOK
    <2>2. QED
      BY <1>4, <2>1, FS_CardinalityType
  <1>7. QED
    BY <1>4, <1>5, <1>6

-----------------------------------------------------------------------------
(* Steps.                                                                  *)


Exec_PC == {"waiting", "waiting again", "held", "returned", "raised",
            "destroying", "leaked", "over"}

Maker_PC == {"asked", "rest", "topping up", "growing", "creating", "created",
             "to shrink", "shrinking", "over"}

LEMMA NothingType == Nothing \in Pooled
  BY DEF Nothing, Pooled, Name

LEMMA PooledMore == ASSUME NEW c \in Pooled PROVE [c EXCEPT !.runs = @ + 1] \in Pooled
  BY DEF Pooled

LEMMA FaultType == ASSUME TypeOK, Fault PROVE faults' \in Nat
  <1>1. faults \in Nat
    BY DEF TypeOK
  <1>2. faults' = faults + 1
    BY DEF Fault
  <1>3. QED
    BY <1>1, <1>2

LEMMA WorkerOnly ==
  ASSUME NEW e \in Exec
  PROVE  ProcOf[e] \in Proc /\ \A m \in Maker : ProcOf[e] # HomeOf(m)
  BY PoolAssumption DEF HomeOf, Proc

\* What executions do to the pool: the makers and the scheduler's and the
\* API's idle containers are left alone, and Docker's containers only go.
ByExecution ==
    /\ UNCHANGED <<makers, dead, purging, restarts>>
    /\ docker' \subseteq docker
    /\ \A m \in Maker : idle'[HomeOf(m)] = idle[HomeOf(m)]

LEMMA IdleOfWorker ==
  ASSUME TypeOK, NEW e \in Exec, NEW s \in Seq(Pooled),
         idle' = [idle EXCEPT ![ProcOf[e]] = s]
  PROVE  /\ idle' \in [Proc -> Seq(Pooled)]
         /\ \A m \in Maker : idle'[HomeOf(m)] = idle[HomeOf(m)]
  <1>1. idle \in [Proc -> Seq(Pooled)]
    BY DEF TypeOK
  <1>2. \A m \in Maker : HomeOf(m) \in Proc
    BY DEF HomeOf, Proc
  <1>3. QED
    BY <1>1, <1>2, WorkerOnly

LEMMA TakeType ==
  ASSUME TypeOK, NEW e \in Exec, NEW i \in DOMAIN idle[ProcOf[e]], Take(e, i)
  PROVE  /\ held' \in [Exec -> Pooled]
         /\ idle' \in [Proc -> Seq(Pooled)]
         /\ \A m \in Maker : idle'[HomeOf(m)] = idle[HomeOf(m)]
         /\ pc' \in [Exec -> Exec_PC]
  <1>1. idle[ProcOf[e]] \in Seq(Pooled)
    BY WorkerOnly DEF TypeOK
  <1>2. idle[ProcOf[e]][i] \in Pooled
    BY <1>1
  <1> DEFINE s == SubSeq(idle[ProcOf[e]], i + 1, Len(idle[ProcOf[e]]))
  <1>3. s \in Seq(Pooled)
    BY <1>1
  <1>4. idle' = [idle EXCEPT ![ProcOf[e]] = s]
    BY DEF Take
  <1> HIDE DEF s
  <1>5. idle' \in [Proc -> Seq(Pooled)] /\ \A m \in Maker : idle'[HomeOf(m)] = idle[HomeOf(m)]
    BY <1>3, <1>4, IdleOfWorker
  <1>6. held' \in [Exec -> Pooled]
    BY <1>2 DEF Take, TypeOK
  <1>7. pc' \in [Exec -> Exec_PC]
    BY DEF Take, TypeOK, Goto, Exec_PC
  <1>8. QED
    BY <1>5, <1>6, <1>7

\* Enough to be well typed after a step of an execution.
LEMMA ExecutionType ==
  ASSUME TypeOK,
         UNCHANGED <<makers, dead, purging, restarts>>,
         docker' \subseteq docker,
         faults' \in Nat,
         pc' \in [Exec -> Exec_PC],
         held' \in [Exec -> Pooled],
         idle' \in [Proc -> Seq(Pooled)],
         \A m \in Maker : idle'[HomeOf(m)] = idle[HomeOf(m)]
  PROVE  TypeOK' /\ ByExecution
  <1>1. /\ docker' \subseteq Name /\ dead' \subseteq Name /\ purging' \in Name \cup {0}
        /\ restarts' \in Nat /\ room' \in [Maker -> Int] /\ making' \in [Maker -> Name]
    BY DEF TypeOK, makers
  <1>2. maker' = maker
    BY DEF makers
  <1>3. QED
    BY <1>1, <1>2 DEF TypeOK, Exec_PC, ByExecution

LEMMA AcquireType == ASSUME TypeOK, NEW e \in Exec, Acquire(e) PROVE TypeOK' /\ ByExecution
  <1>1. UNCHANGED <<docker, makers, dead, purging, bounds>>
    BY DEF Acquire
  <1>2. CASE \E i \in Alive(ProcOf[e]) : Take(e, i)
    <2>1. PICK i \in Alive(ProcOf[e]) : Take(e, i)
      BY <1>2
    <2>2. i \in DOMAIN idle[ProcOf[e]]
      BY DEF Alive
    <2>3. QED
      BY <1>1, <2>1, <2>2, TakeType, ExecutionType DEF TypeOK, bounds
  <1>3. CASE /\ idle' = [idle EXCEPT ![ProcOf[e]] = <<>>]
             /\ Goto(e, "waiting again")
             /\ UNCHANGED held
    <2>1. /\ idle' \in [Proc -> Seq(Pooled)]
          /\ \A m \in Maker : idle'[HomeOf(m)] = idle[HomeOf(m)]
      BY <1>3, EmptySeq, IdleOfWorker
    <2>2. pc' \in [Exec -> Exec_PC]
      BY <1>3 DEF TypeOK, Goto, Exec_PC
    <2>3. QED
      BY <1>1, <1>3, <2>1, <2>2, ExecutionType DEF TypeOK, bounds
  <1>4. QED
    BY <1>2, <1>3 DEF Acquire

LEMMA ReleaseType == ASSUME TypeOK, NEW e \in Exec, Release(e) PROVE TypeOK' /\ ByExecution
  <1>1. UNCHANGED <<docker, makers, dead, purging, restarts>>
    BY DEF Release
  <1>2. faults' \in Nat
    BY FaultType DEF Release, TypeOK
  <1>3. pc' \in [Exec -> Exec_PC]
    BY DEF Release, TypeOK, Goto, Exec_PC
  <1>4. held' \in [Exec -> Pooled]
    BY NothingType DEF Release, TypeOK
  <1>5. PutBack(e) \/ UNCHANGED idle
    BY DEF Release
  <1>6. CASE PutBack(e)
    <2>1. idle[ProcOf[e]] \in Seq(Pooled) /\ held[e] \in Pooled
      BY WorkerOnly DEF TypeOK
    <2>2. Append(idle[ProcOf[e]], [held[e] EXCEPT !.runs = @ + 1]) \in Seq(Pooled)
      BY <2>1, PooledMore, AppendProperties
    <2>3. idle' = [idle EXCEPT ![ProcOf[e]] =
                     Append(idle[ProcOf[e]], [held[e] EXCEPT !.runs = @ + 1])]
      BY <1>6 DEF PutBack
    <2>4. /\ idle' \in [Proc -> Seq(Pooled)]
          /\ \A m \in Maker : idle'[HomeOf(m)] = idle[HomeOf(m)]
      BY <2>2, <2>3, IdleOfWorker
    <2>5. QED
      BY <1>1, <1>2, <1>3, <1>4, <2>4, ExecutionType
  <1>7. CASE UNCHANGED idle
    BY <1>1, <1>2, <1>3, <1>4, <1>7, ExecutionType DEF TypeOK
  <1>8. QED
    BY <1>5, <1>6, <1>7

LEMMA UseType == ASSUME TypeOK, NEW e \in Exec, Use(e) PROVE TypeOK' /\ ByExecution
  <1>1. CASE Acquire(e)
    BY <1>1, AcquireType
  <1>2. CASE AcquireAgain(e)
    <2>1. 1 \in DOMAIN idle[ProcOf[e]]
      <3>1. idle[ProcOf[e]] \in Seq(Pooled) /\ idle[ProcOf[e]] # <<>>
        BY <1>2, WorkerOnly DEF AcquireAgain, TypeOK
      <3>2. QED
        BY <3>1
    <2>2. QED
      BY <1>2, <2>1, TakeType, ExecutionType DEF AcquireAgain, TypeOK, bounds
  <1>3. CASE AcquireTimeout(e) \/ Finish(e) \/ Cancel(e)
    <2>1. UNCHANGED <<docker, idle, held, makers, dead, purging, bounds>>
      BY <1>3 DEF AcquireTimeout, Finish, Cancel
    <2>2. pc' \in [Exec -> Exec_PC]
      BY <1>3 DEF AcquireTimeout, Finish, Cancel, TypeOK, Goto, Exec_PC
    <2>3. QED
      BY <2>1, <2>2, ExecutionType DEF TypeOK, bounds
  <1>4. CASE Release(e)
    BY <1>4, ReleaseType
  <1>5. CASE Destroy(e)
    <2>1. UNCHANGED <<idle, makers, dead, purging, restarts>> /\ docker' \subseteq docker
      BY <1>5 DEF Destroy
    <2>2. pc' \in [Exec -> Exec_PC] /\ held' \in [Exec -> Pooled]
      BY <1>5, NothingType DEF Destroy, TypeOK, Goto, Exec_PC
    <2>3. faults' \in Nat
      BY <1>5, FaultType DEF Destroy, TypeOK
    <2>4. QED
      BY <2>1, <2>2, <2>3, ExecutionType DEF TypeOK
  <1>6. CASE ReleaseInterrupted(e)
    <2>1. UNCHANGED <<docker, idle, held, makers, dead, purging, restarts>>
      BY <1>6 DEF ReleaseInterrupted
    <2>2. pc' \in [Exec -> Exec_PC]
      BY <1>6 DEF ReleaseInterrupted, TypeOK, Goto, Exec_PC
    <2>4. faults' \in Nat
      BY <1>6, FaultType DEF ReleaseInterrupted
    <2>3. QED
      BY <2>1, <2>2, <2>4, ExecutionType DEF TypeOK
  <1>7. QED
    BY <1>1, <1>2, <1>3, <1>4, <1>5, <1>6 DEF Use

LEMMA UseKeeps == ASSUME IInv, NEW e \in Exec, Use(e) PROVE IInv'
  <1>1. TypeOK' /\ ByExecution
    BY UseType DEF IInv
  <1>2. IsFiniteSet(docker')
    BY <1>1, FS_Subset DEF IInv, ByExecution
  <1>3. WithinMaximum'
    BY <1>1 DEF IInv, WithinMaximum, ByExecution, OneRequest
  <1>4. Budget'
    BY <1>1 DEF IInv, Budget, ByExecution, makers, Making, OneRequest
  <1>5. QED
    BY <1>1, <1>2, <1>3, <1>4 DEF IInv

\* Enough for a step of the makers or of the health check.
LEMMA MakerType ==
  ASSUME TypeOK,
         UNCHANGED <<pc, held, restarts>>,
         docker' \subseteq Name, dead' \subseteq Name /\ purging' \in Name \cup {0}, faults' \in Nat,
         idle' \in [Proc -> Seq(Pooled)],
         maker' \in [Maker -> Maker_PC], room' \in [Maker -> Int],
         making' \in [Maker -> Name]
  PROVE  TypeOK'
  BY DEF TypeOK, Maker_PC

LEMMA HomeIdle ==
  ASSUME TypeOK, NEW m \in Maker
  PROVE  /\ HomeOf(m) \in Proc
         /\ idle[HomeOf(m)] \in Seq(Pooled)
         /\ Len(idle[HomeOf(m)]) \in Nat
         /\ room[m] \in Int /\ making[m] \in Name
  <1>1. HomeOf(m) \in Proc
    BY DEF HomeOf, Proc
  <1>2. idle[HomeOf(m)] \in Seq(Pooled)
    BY <1>1 DEF TypeOK
  <1>3. room[m] \in Int /\ making[m] \in Name
    BY DEF TypeOK
  <1>4. QED
    BY <1>1, <1>2, <1>3

\* A maker that has no room to spare for itself does not matter.
LEMMA BudgetOf ==
  ASSUME IInv, OneRequest,
         NEW m \in Maker,
         \A k \in Maker \ {m} : maker'[k] = maker[k] /\ room'[k] = room[k] /\ making'[k] = making[k],
         \A k \in Maker : HomeOf(k) # HomeOf(m) => idle'[HomeOf(k)] = idle[HomeOf(k)],
         Making(m)' => room'[m] + Len(idle'[HomeOf(m)]) <= MaxSize,
         maker'[m] \in {"creating", "created"} => making'[m] <= MaxSize /\ room'[m] >= 1
  PROVE  Budget'
  <1>1. \A k \in Maker : HomeOf(k) = HomeOf(m) => k = m
    BY PoolAssumption DEF HomeOf, Maker, OneRequest
  <1>2. ASSUME NEW k \in Maker
        PROVE  /\ Making(k)' => room'[k] + Len(idle'[HomeOf(k)]) <= MaxSize
               /\ maker'[k] \in {"creating", "created"} => making'[k] <= MaxSize /\ room'[k] >= 1
    <2>1. CASE k = m
      BY <2>1
    <2>2. CASE k # m
      <3>1. maker'[k] = maker[k] /\ room'[k] = room[k] /\ making'[k] = making[k]
        BY <2>2
      <3>2. idle'[HomeOf(k)] = idle[HomeOf(k)]
        BY <1>1, <2>2
      <3>3. QED
        BY <3>1, <3>2 DEF IInv, Budget, Making
    <2>3. QED
      BY <2>1, <2>2
  <1>3. QED
    BY <1>2 DEF Budget

LEMMA CreateKeeps == ASSUME IInv, NEW m \in Maker, Create(m) PROVE IInv'
  <1>0. TypeOK
    BY DEF IInv
  <1>1. UNCHANGED <<docker, idle, executions, room, dead, purging, restarts>> /\ faults' \in Nat
    BY <1>0, FaultType DEF Create, TypeOK
  <1>2. FreeName(HomeOf(m)) \in Name
    BY <1>0, FreeNameType
  <1>3. maker' = [maker EXCEPT ![m] = "creating"] /\ making' = [making EXCEPT ![m] = FreeName(HomeOf(m))]
    BY DEF Create
  <1>4. maker' \in [Maker -> Maker_PC] /\ making' \in [Maker -> Name]
    BY <1>0, <1>2, <1>3 DEF TypeOK, Maker_PC
  <1>5. TypeOK'
    BY <1>0, <1>1, <1>4, MakerType DEF TypeOK, executions
  <1>6. IsFiniteSet(docker') /\ WithinMaximum'
    BY <1>1 DEF IInv, WithinMaximum, OneRequest
  <1>7. ASSUME OneRequest PROVE Budget'
    <2>1. maker[m] \in {"topping up", "growing"} /\ room[m] > 0
      BY DEF Create, Wanted
    <2>2. FreeName(HomeOf(m)) <= Len(idle[HomeOf(m)]) + 1
      BY <1>0, <1>7, <2>1, FreeNameBound
    <2>3. room[m] + Len(idle[HomeOf(m)]) <= MaxSize
      BY <1>7, <2>1 DEF IInv, Budget, Making
    <2>4. Len(idle[HomeOf(m)]) \in Nat /\ room[m] \in Int /\ FreeName(HomeOf(m)) \in Int /\ MaxSize \in Int
      BY <1>0, <1>2, HomeIdle, PoolAssumption DEF Name
    <2> DEFINE n == FreeName(HomeOf(m))
               l == Len(idle[HomeOf(m)])
               q == room[m]
    <2>a. n \in Int /\ l \in Int /\ q \in Int /\ MaxSize \in Int
      BY <2>4
    <2>b. q > 0 /\ n <= l + 1 /\ q + l <= MaxSize
      BY <2>1, <2>2, <2>3
    <2> HIDE DEF n, l, q
    <2>5. n <= MaxSize /\ q >= 1
      BY <2>a, <2>b
    <2> USE DEF n, l, q
    <2>6. making'[m] = FreeName(HomeOf(m))
      BY <1>0, <1>3 DEF TypeOK
    <2>7. \A k \in Maker \ {m} : maker'[k] = maker[k] /\ room'[k] = room[k] /\ making'[k] = making[k]
      BY <1>0, <1>1, <1>3 DEF TypeOK
    <2>8. QED
      BY <1>1, <1>7, <2>3, <2>5, <2>6, <2>7, BudgetOf
  <1>8. Budget'
    BY <1>7 DEF Budget, OneRequest
  <1>9. QED
    BY <1>5, <1>6, <1>8 DEF IInv

LEMMA CreateEnoughKeeps == ASSUME IInv, NEW m \in Maker, CreateEnough(m) PROVE IInv'
  <1>0. TypeOK
    BY DEF IInv
  <1>1. UNCHANGED <<docker, idle, executions, making, dead, purging, bounds>>
    BY DEF CreateEnough
  <1>2. /\ maker' = [maker EXCEPT ![m] = IF m \in Request THEN "over" ELSE "rest"]
        /\ room' = [room EXCEPT ![m] = 0]
    BY DEF CreateEnough
  <1>3. TypeOK'
    <2>1. maker' \in [Maker -> Maker_PC]
      BY <1>0, <1>2 DEF TypeOK, Maker_PC
    <2>0. room \in [Maker -> Int]
      BY <1>0 DEF TypeOK
    <2>2. room' \in [Maker -> Int]
      BY <1>2, <2>0
    <2>3. /\ UNCHANGED <<pc, held, restarts>> /\ dead' \subseteq Name /\ purging' \in Name \cup {0} /\ faults' \in Nat
          /\ docker' \subseteq Name
          /\ idle' \in [Proc -> Seq(Pooled)] /\ making' \in [Maker -> Name]
      BY <1>0, <1>1 DEF TypeOK, executions, bounds
    <2>4. QED
      BY <1>0, <2>1, <2>2, <2>3, MakerType
  <1>4. maker'[m] \in {"over", "rest"}
    BY <1>0, <1>2 DEF TypeOK
  <1>5. \A k \in Maker \ {m} : maker'[k] = maker[k] /\ room'[k] = room[k] /\ making'[k] = making[k]
    BY <1>0, <1>1, <1>2 DEF TypeOK
  <1>6. OneRequest => Budget'
    BY <1>1, <1>4, <1>5, BudgetOf DEF Making
  <1>7. QED
    BY <1>1, <1>3, <1>6 DEF IInv, WithinMaximum, OneRequest, Budget

LEMMA CreatedKeeps == ASSUME IInv, NEW m \in Maker, Created(m) PROVE IInv'
  <1>0. TypeOK
    BY DEF IInv
  <1>1. UNCHANGED <<idle, executions, room, making, dead, purging, bounds>>
    BY DEF Created
  <1>2. /\ maker[m] = "creating"
        /\ maker' = [maker EXCEPT ![m] = "created"]
        /\ docker' = docker \cup {making[m]}
    BY DEF Created
  <1>3. TypeOK'
    <2>1. docker' \subseteq Name
      BY <1>0, <1>2 DEF TypeOK
    <2>2. maker' \in [Maker -> Maker_PC]
      BY <1>0, <1>2 DEF TypeOK, Maker_PC
    <2>3. /\ UNCHANGED <<pc, held, restarts>> /\ dead' \subseteq Name /\ purging' \in Name \cup {0} /\ faults' \in Nat
          /\ idle' \in [Proc -> Seq(Pooled)]
          /\ room' \in [Maker -> Int] /\ making' \in [Maker -> Name]
      BY <1>0, <1>1 DEF TypeOK, executions, bounds
    <2>4. QED
      BY <1>0, <2>1, <2>2, <2>3, MakerType
  <1>4. IsFiniteSet(docker')
    BY <1>2, FS_AddElement DEF IInv
  <1>5. ASSUME OneRequest PROVE docker' \subseteq 1 .. MaxSize /\ Budget'
    <2>1. /\ making[m] <= MaxSize /\ room[m] >= 1
          /\ room[m] + Len(idle[HomeOf(m)]) <= MaxSize
      BY <1>2, <1>5 DEF IInv, Budget, Making
    <2>2. making[m] \in 1 .. MaxSize
      <3>1. making[m] \in Nat \ {0} /\ MaxSize \in Nat
        BY <1>0, HomeIdle, PoolAssumption DEF Name
      <3>2. QED
        BY <2>1, <3>1
    <2>3. \A k \in Maker \ {m} : maker'[k] = maker[k] /\ room'[k] = room[k] /\ making'[k] = making[k]
      BY <1>0, <1>1, <1>2 DEF TypeOK
    <2>4. Budget'
      BY <1>1, <1>5, <2>1, <2>3, BudgetOf
    <2>5. docker' \subseteq 1 .. MaxSize
      BY <1>2, <1>5, <2>2 DEF IInv, WithinMaximum
    <2>6. QED
      BY <2>4, <2>5
  <1>6. WithinMaximum' /\ Budget'
    BY <1>5 DEF WithinMaximum, Budget, OneRequest
  <1>7. QED
    BY <1>3, <1>4, <1>6 DEF IInv

LEMMA AddIdleKeeps == ASSUME IInv, NEW m \in Maker, AddIdle(m) PROVE IInv'
  <1>0. TypeOK
    BY DEF IInv
  <1>1. UNCHANGED <<docker, executions, dead, purging, bounds>>
    BY DEF AddIdle
  <1> DEFINE s == Append(idle[HomeOf(m)], [name |-> making[m], runs |-> 0])
  <1>2. /\ maker[m] = "created"
        /\ maker' = [maker EXCEPT ![m] = IF m \in Request THEN "growing" ELSE "topping up"]
        /\ room' = [room EXCEPT ![m] = @ - 1]
        /\ making' = [making EXCEPT ![m] = 1]
        /\ idle' = [idle EXCEPT ![HomeOf(m)] = s]
    BY DEF AddIdle
  <1>3. /\ HomeOf(m) \in Proc /\ idle[HomeOf(m)] \in Seq(Pooled)
        /\ Len(idle[HomeOf(m)]) \in Nat /\ room[m] \in Int /\ making[m] \in Name
    BY <1>0, HomeIdle
  <1>4. [name |-> making[m], runs |-> 0] \in Pooled
    BY <1>3 DEF Pooled
  <1>5. s \in Seq(Pooled) /\ Len(s) = Len(idle[HomeOf(m)]) + 1
    BY <1>3, <1>4, AppendProperties
  <1> HIDE DEF s
  <1>6. idle' \in [Proc -> Seq(Pooled)] /\ idle'[HomeOf(m)] = s
    BY <1>0, <1>2, <1>3, <1>5 DEF TypeOK
  <1>7. room' \in [Maker -> Int] /\ room'[m] = room[m] - 1
    <2>0. room \in [Maker -> Int]
      BY <1>0 DEF TypeOK
    <2>1. room[m] - 1 \in Int
      BY <1>3
    <2>2. room' = [room EXCEPT ![m] = room[m] - 1]
      BY <1>2
    <2>3. room' \in [Maker -> Int]
      BY <2>0, <2>1, <2>2
    <2>4. room'[m] = room[m] - 1
      BY <2>0, <2>2
    <2>5. QED
      BY <2>3, <2>4
  <1>8. making' \in [Maker -> Name]
    <2>1. making \in [Maker -> Name]
      BY <1>0 DEF TypeOK
    <2>2. 1 \in Name
      BY DEF Name
    <2>3. QED
      BY <1>2, <2>1, <2>2
  <1>9. maker' \in [Maker -> Maker_PC] /\ maker'[m] \in {"growing", "topping up"}
    BY <1>0, <1>2 DEF TypeOK, Maker_PC
  <1>10. TypeOK'
    BY <1>0, <1>1, <1>6, <1>7, <1>8, <1>9, MakerType DEF TypeOK, executions, bounds
  <1>11. \A k \in Maker \ {m} : maker'[k] = maker[k] /\ room'[k] = room[k] /\ making'[k] = making[k]
    BY <1>0, <1>2 DEF TypeOK
  <1>12. \A k \in Maker : HomeOf(k) # HomeOf(m) => idle'[HomeOf(k)] = idle[HomeOf(k)]
    BY <1>0, <1>2, HomeIdle DEF TypeOK
  <1>13. ASSUME OneRequest PROVE Budget'
    <2>1. room[m] + Len(idle[HomeOf(m)]) <= MaxSize
      BY <1>2, <1>13 DEF IInv, Budget, Making
    <2>2. room'[m] + Len(idle'[HomeOf(m)]) <= MaxSize
      BY <1>3, <1>5, <1>6, <1>7, <2>1
    <2>3. QED
      BY <1>9, <1>11, <1>12, <1>13, <2>2, BudgetOf
  <1>14. Budget'
    BY <1>13 DEF Budget, OneRequest
  <1>15. QED
    BY <1>1, <1>10, <1>14 DEF IInv, WithinMaximum, OneRequest

LEMMA CreateRaisesKeeps == ASSUME IInv, NEW m \in Maker, CreateRaises(m) PROVE IInv'
  <1>0. TypeOK
    BY DEF IInv
  <1>1. UNCHANGED <<idle, executions, room, making, dead, purging, restarts>>
    BY DEF CreateRaises
  <1>2. /\ maker' = [maker EXCEPT ![m] = IF m \in Request THEN "over" ELSE "rest"]
        /\ docker' = docker \ {making[m]}
    BY DEF CreateRaises
  <1>3. TypeOK'
    <2>1. maker' \in [Maker -> Maker_PC]
      BY <1>0, <1>2 DEF TypeOK, Maker_PC
    <2>2. faults' \in Nat
      BY <1>0, FaultType DEF CreateRaises
    <2>3. /\ UNCHANGED <<pc, held, restarts>> /\ dead' \subseteq Name /\ purging' \in Name \cup {0}
          /\ docker' \subseteq Name /\ room' \in [Maker -> Int]
          /\ idle' \in [Proc -> Seq(Pooled)] /\ making' \in [Maker -> Name]
      BY <1>0, <1>1, <1>2 DEF TypeOK, executions
    <2>4. QED
      BY <1>0, <2>1, <2>2, <2>3, MakerType
  <1>4. maker'[m] \in {"over", "rest"}
    BY <1>0, <1>2 DEF TypeOK
  <1>5. \A k \in Maker \ {m} : maker'[k] = maker[k] /\ room'[k] = room[k] /\ making'[k] = making[k]
    BY <1>0, <1>1, <1>2 DEF TypeOK
  <1>6. OneRequest => Budget'
    BY <1>1, <1>4, <1>5, BudgetOf DEF Making
  <1>7. IsFiniteSet(docker') /\ WithinMaximum'
    BY <1>2, FS_Subset DEF IInv, WithinMaximum, OneRequest
  <1>8. QED
    BY <1>3, <1>6, <1>7 DEF IInv, OneRequest, Budget

LEMMA ReplenishWakeKeeps == ASSUME IInv, ReplenishWake PROVE IInv'
  <1> DEFINE m == "replenisher"
             l == Len(idle["scheduler"])
  <1>0. TypeOK /\ m \in Maker /\ HomeOf(m) = "scheduler"
    BY PoolAssumption DEF IInv, Maker, HomeOf
  <1>1. UNCHANGED <<docker, idle, executions, making, dead, purging, bounds>>
    BY DEF ReplenishWake
  <1>2. /\ maker' = [maker EXCEPT ![m] = "topping up"]
        /\ room' = [room EXCEPT ![m] = MaxSize - l]
    BY DEF ReplenishWake
  <1>3. l \in Nat /\ MaxSize \in Nat
    BY <1>0, HomeIdle, PoolAssumption
  <1> HIDE DEF l
  <1>4. MaxSize - l \in Int
    BY <1>3
  <1>5. room' \in [Maker -> Int] /\ room'[m] = MaxSize - l
    <2>1. room \in [Maker -> Int]
      BY <1>0 DEF TypeOK
    <2>2. QED
      BY <1>0, <1>2, <1>4, <2>1
  <1>6. maker' \in [Maker -> Maker_PC] /\ maker'[m] = "topping up"
    BY <1>0, <1>2 DEF TypeOK, Maker_PC
  <1>7. TypeOK'
    <2>3. /\ UNCHANGED <<pc, held, restarts>> /\ dead' \subseteq Name /\ purging' \in Name \cup {0} /\ faults' \in Nat
          /\ docker' \subseteq Name
          /\ idle' \in [Proc -> Seq(Pooled)] /\ making' \in [Maker -> Name]
      BY <1>0, <1>1 DEF TypeOK, executions, bounds
    <2>4. QED
      BY <1>0, <1>5, <1>6, <2>3, MakerType
  <1>8. \A k \in Maker \ {m} : maker'[k] = maker[k] /\ room'[k] = room[k] /\ making'[k] = making[k]
    BY <1>0, <1>1, <1>2 DEF TypeOK
  <1>9. room'[m] + l <= MaxSize
    BY <1>3, <1>5
  <1>10. Len(idle'[HomeOf(m)]) = l
    BY <1>0, <1>1 DEF l
  <1>11. OneRequest => Budget'
    BY <1>0, <1>1, <1>6, <1>8, <1>9, <1>10, BudgetOf
  <1>12. QED
    BY <1>1, <1>7, <1>11 DEF IInv, WithinMaximum, OneRequest, Budget

LEMMA ScaleKeeps ==
  ASSUME IInv, NEW r \in Request, NEW target \in Target, Scale(r, target)
  PROVE  IInv'
  <1> DEFINE l == Len(idle["api"])
             q == IF target > l THEN target - l ELSE l - target
  <1>0. TypeOK /\ r \in Maker /\ HomeOf(r) = "api"
    BY DEF IInv, Maker, HomeOf
  <1>1. UNCHANGED <<docker, idle, executions, making, dead, purging, bounds>>
    BY DEF Scale
  <1>2. l \in Nat /\ target \in 0 .. MaxSize /\ MaxSize \in Nat
    BY <1>0, HomeIdle, PoolAssumption
  <1>3. l + InUse("api") = l
    BY <1>0, <1>2, NothingInUse
  <1>4. /\ room' = [room EXCEPT ![r] = q]
        /\ maker' = [maker EXCEPT ![r] = IF target > l THEN "growing"
                                         ELSE IF target < l THEN "to shrink" ELSE "over"]
    BY <1>3 DEF Scale
  <1> HIDE DEF l
  <1>5. q \in Int /\ (target > l => q + l <= MaxSize)
    BY <1>2
  <1> HIDE DEF q
  <1>6. room' \in [Maker -> Int] /\ room'[r] = q
    <2>1. room \in [Maker -> Int]
      BY <1>0 DEF TypeOK
    <2>2. QED
      BY <1>0, <1>4, <1>5, <2>1
  <1>7. /\ maker' \in [Maker -> Maker_PC]
        /\ maker'[r] \in {"growing", "to shrink", "over"}
        /\ maker'[r] = "growing" => target > l
    <2>1. maker \in [Maker -> Maker_PC]
      BY <1>0 DEF TypeOK, Maker_PC
    <2>2. QED
      BY <1>0, <1>4, <2>1 DEF Maker_PC
  <1>8. TypeOK'
    <2>3. /\ UNCHANGED <<pc, held, restarts>> /\ dead' \subseteq Name /\ purging' \in Name \cup {0} /\ faults' \in Nat
          /\ docker' \subseteq Name
          /\ idle' \in [Proc -> Seq(Pooled)] /\ making' \in [Maker -> Name]
      BY <1>0, <1>1 DEF TypeOK, executions, bounds
    <2>4. QED
      BY <1>0, <1>6, <1>7, <2>3, MakerType
  <1>9. \A k \in Maker \ {r} : maker'[k] = maker[k] /\ room'[k] = room[k] /\ making'[k] = making[k]
    BY <1>0, <1>1, <1>4 DEF TypeOK
  <1>10. Len(idle'[HomeOf(r)]) = l
    BY <1>0, <1>1 DEF l
  <1>11. Making(r)' => room'[r] + Len(idle'[HomeOf(r)]) <= MaxSize
    BY <1>5, <1>6, <1>7, <1>10 DEF Making
  <1>12. OneRequest => Budget'
    BY <1>0, <1>1, <1>7, <1>9, <1>11, BudgetOf
  <1>13. QED
    BY <1>1, <1>8, <1>12 DEF IInv, WithinMaximum, OneRequest, Budget

LEMMA ShrinkKeeps == ASSUME IInv, NEW r \in Request, Shrink(r) PROVE IInv'
  <1>0. TypeOK /\ r \in Maker /\ HomeOf(r) = "api" /\ "api" \in Proc
    BY DEF IInv, Maker, HomeOf, Proc
  <1>1. UNCHANGED <<executions, making, dead, purging, restarts>>
    BY DEF Shrink
  <1>2. maker' = [maker EXCEPT ![r] = "shrinking"] \/ maker' = [maker EXCEPT ![r] = "over"]
    BY DEF Shrink
  <1>3. maker' \in [Maker -> Maker_PC] /\ ~Making(r)'
    BY <1>0, <1>2 DEF TypeOK, Maker_PC, Making
  <1>4. docker' \subseteq docker
    BY DEF Shrink
  <1>5. /\ idle' \in [Proc -> Seq(Pooled)]
        /\ \A p \in Proc \ {"api"} : idle'[p] = idle[p]
    <2>1. CASE idle["api"] # <<>> /\ idle' = [idle EXCEPT !["api"] = Front(idle["api"])]
      <3>1. idle["api"] \in Seq(Pooled) /\ idle["api"] # <<>>
        BY <1>0, <2>1 DEF TypeOK
      <3>2. Front(idle["api"]) \in Seq(Pooled)
        BY <3>1 DEF Front
      <3>3. idle \in [Proc -> Seq(Pooled)]
        BY <1>0 DEF TypeOK
      <3>4. QED
        BY <2>1, <3>2, <3>3
    <2>2. CASE UNCHANGED idle
      BY <1>0, <2>2 DEF TypeOK
    <2>3. QED
      BY <2>1, <2>2 DEF Shrink
  <1>6. room' \in [Maker -> Int] /\ \A k \in Maker \ {r} : room'[k] = room[k]
    <2>1. room \in [Maker -> Int]
      BY <1>0 DEF TypeOK
    <2>2. room[r] - 1 \in Int
      BY <1>0, <2>1
    <2>3. room' = [room EXCEPT ![r] = room[r] - 1] \/ room' = room
      BY DEF Shrink
    <2>4. QED
      BY <2>1, <2>2, <2>3
  <1>7. faults' \in Nat
    <2>1. UNCHANGED faults \/ Fault
      BY DEF Shrink
    <2>2. QED
      BY <1>0, <2>1, FaultType DEF TypeOK
  <1>8. TypeOK'
    <2>3. /\ UNCHANGED <<pc, held, restarts>> /\ dead' \subseteq Name /\ purging' \in Name \cup {0}
          /\ docker' \subseteq Name /\ making' \in [Maker -> Name]
      BY <1>0, <1>1, <1>4 DEF TypeOK, executions
    <2>4. QED
      BY <1>0, <1>3, <1>5, <1>6, <1>7, <2>3, MakerType
  <1>9. \A k \in Maker \ {r} : maker'[k] = maker[k] /\ room'[k] = room[k] /\ making'[k] = making[k]
    BY <1>0, <1>1, <1>2, <1>6 DEF TypeOK
  <1>10. \A k \in Maker : HomeOf(k) # HomeOf(r) => idle'[HomeOf(k)] = idle[HomeOf(k)]
    BY <1>0, <1>5, HomeIdle
  <1>11. OneRequest => Budget'
    BY <1>0, <1>3, <1>9, <1>10, BudgetOf DEF Making
  <1>12. IsFiniteSet(docker') /\ WithinMaximum'
    BY <1>4, FS_Subset DEF IInv, WithinMaximum, OneRequest
  <1>13. QED
    BY <1>8, <1>11, <1>12 DEF IInv, OneRequest, Budget

-----------------------------------------------------------------------------
(* The health check, and restarts.                                         *)

\* Nothing the makers count on changes, or an idle container goes.
LEMMA FewerIdle ==
  ASSUME IInv, UNCHANGED makers,
         docker' \subseteq docker,
         idle' \in [Proc -> Seq(Pooled)],
         \A p \in Proc : Len(idle'[p]) <= Len(idle[p])
  PROVE  IsFiniteSet(docker') /\ Budget' /\ WithinMaximum'
  <1>1. IsFiniteSet(docker') /\ WithinMaximum'
    BY FS_Subset DEF IInv, WithinMaximum, OneRequest
  <1>2. ASSUME OneRequest, NEW m \in Maker
        PROVE  /\ Making(m)' => room'[m] + Len(idle'[HomeOf(m)]) <= MaxSize
               /\ maker'[m] \in {"creating", "created"} => making'[m] <= MaxSize /\ room'[m] >= 1
    <2>1. maker' = maker /\ room' = room /\ making' = making
      BY DEF makers
    <2>2. /\ HomeOf(m) \in Proc /\ Len(idle[HomeOf(m)]) \in Nat /\ room[m] \in Int
      BY HomeIdle DEF IInv
    <2>3. idle'[HomeOf(m)] \in Seq(Pooled) /\ Len(idle'[HomeOf(m)]) \in Nat
          /\ Len(idle'[HomeOf(m)]) <= Len(idle[HomeOf(m)])
      BY <2>2
    <2>4. Making(m) => room[m] + Len(idle[HomeOf(m)]) <= MaxSize
      BY <1>2 DEF IInv, Budget
    <2>5. maker[m] \in {"creating", "created"} => making[m] <= MaxSize /\ room[m] >= 1
      BY <1>2 DEF IInv, Budget
    <2> DEFINE a == Len(idle'[HomeOf(m)])
               b == Len(idle[HomeOf(m)])
               q == room[m]
    <2>6. a \in Nat /\ b \in Nat /\ q \in Int /\ MaxSize \in Nat /\ a <= b
      BY <2>2, <2>3, PoolAssumption
    <2>7. Making(m) => q + b <= MaxSize
      BY <2>4
    <2> HIDE DEF a, b, q
    <2>8. Making(m) => q + a <= MaxSize
      BY <2>6, <2>7
    <2>9. QED
      BY <2>1, <2>5, <2>8 DEF Making, a, b, q
  <1>3. Budget'
    BY <1>2 DEF Budget, OneRequest
  <1>4. QED
    BY <1>1, <1>3

LEMMA HealthCheckKeeps == ASSUME IInv, HealthCheck \/ HealthCheckErrs PROVE IInv'
  <1>1. UNCHANGED <<docker, idle, executions, makers, restarts>> /\ faults' \in Nat
    BY FaultType DEF HealthCheck, HealthCheckErrs, bounds, IInv, TypeOK
  <1>2. dead' \subseteq Name /\ purging' \in Name \cup {0}
    <2>1. "scheduler" \in Proc
      BY DEF Proc
    <2>2. QED
      BY <2>1, IdleNamesFinite DEF IInv, TypeOK, HealthCheck, HealthCheckErrs
  <1>3. TypeOK'
    BY <1>1, <1>2 DEF IInv, TypeOK, executions, makers
  <1>4. QED
    BY <1>1, <1>3 DEF IInv, makers, WithinMaximum, OneRequest, Budget, Making

LEMMA HealthPurgeKeeps == ASSUME IInv, HealthPurge \/ HealthDestroy PROVE IInv'
  <1>0. TypeOK /\ "scheduler" \in Proc
    BY DEF IInv, Proc
  <1>1. UNCHANGED <<executions, makers, restarts>> /\ faults' \in Nat
    BY <1>0, FaultType DEF HealthPurge, HealthDestroy, bounds, TypeOK
  <1>2. docker' \subseteq docker /\ dead' \subseteq dead /\ purging' \in Name \cup {0}
    BY <1>0 DEF HealthPurge, HealthDestroy, Purge, TypeOK
  <1>3. idle["scheduler"] \in Seq(Pooled) /\ idle \in [Proc -> Seq(Pooled)]
    BY <1>0 DEF TypeOK
  <1>4. idle' \in [Proc -> Seq(Pooled)] /\ \A p \in Proc : Len(idle'[p]) <= Len(idle[p])
    <2>0. \A p \in Proc : Len(idle[p]) \in Nat
      BY <1>3
    <2>1. CASE UNCHANGED idle
      BY <1>3, <2>0, <2>1
    <2>2. CASE \E i \in DOMAIN idle["scheduler"] :
                 idle' = [idle EXCEPT !["scheduler"] = RemoveAt(idle["scheduler"], i)]
      <3> DEFINE s == idle["scheduler"]
      <3>1. PICK i \in DOMAIN s : idle' = [idle EXCEPT !["scheduler"] = RemoveAt(s, i)]
        BY <2>2
      <3>2. s \in Seq(Pooled) /\ Len(s) \in Nat
        BY <1>3
      <3> HIDE DEF s
      <3>3. i \in 1 .. Len(s)
        BY <3>1, <3>2
      <3>4. /\ SubSeq(s, 1, i - 1) \in Seq(Pooled) /\ Len(SubSeq(s, 1, i - 1)) = i - 1
            /\ SubSeq(s, i + 1, Len(s)) \in Seq(Pooled) /\ Len(SubSeq(s, i + 1, Len(s))) = Len(s) - i
        BY <3>2, <3>3
      <3>5. RemoveAt(s, i) = SubSeq(s, 1, i - 1) \o SubSeq(s, i + 1, Len(s))
        BY DEF RemoveAt
      <3>6. RemoveAt(s, i) \in Seq(Pooled) /\ Len(RemoveAt(s, i)) <= Len(s)
        <4> DEFINE t == SubSeq(s, 1, i - 1)
                   u == SubSeq(s, i + 1, Len(s))
        <4>1. t \in Seq(Pooled) /\ u \in Seq(Pooled) /\ Len(t) = i - 1 /\ Len(u) = Len(s) - i
          BY <3>4
        <4>2. RemoveAt(s, i) = t \o u
          BY <3>5
        <4> HIDE DEF t, u
        <4>3. t \o u \in Seq(Pooled) /\ Len(t \o u) = Len(t) + Len(u)
          BY <4>1, ConcatProperties
        <4>4. QED
          BY <3>2, <3>3, <4>1, <4>2, <4>3
      <3> USE DEF s
      <3>7. idle'["scheduler"] = RemoveAt(s, i) /\ \A p \in Proc \ {"scheduler"} : idle'[p] = idle[p]
        BY <1>0, <1>3, <3>1
      <3>8. idle' \in [Proc -> Seq(Pooled)]
        BY <1>3, <3>1, <3>6
      <3>9. QED
        BY <2>0, <3>6, <3>7, <3>8
    <2>3. QED
      BY <2>1, <2>2 DEF HealthPurge, HealthDestroy, Purge
  <1>5. TypeOK'
    BY <1>0, <1>1, <1>2, <1>4 DEF TypeOK, executions, makers
  <1>6. QED
    BY <1>1, <1>2, <1>4, <1>5, FewerIdle DEF IInv

LEMMA VanishKeeps == ASSUME IInv, NEW n \in docker, Vanish(n) PROVE IInv'
  <1>0. TypeOK
    BY DEF IInv
  <1>1. UNCHANGED <<idle, executions, makers, dead, purging, restarts>> /\ docker' \subseteq docker
    BY DEF Vanish
  <1>2. faults' \in Nat
    BY <1>0, FaultType DEF Vanish
  <1>3. TypeOK'
    BY <1>0, <1>1, <1>2 DEF TypeOK, executions, makers
  <1>4. idle' \in [Proc -> Seq(Pooled)] /\ \A p \in Proc : Len(idle'[p]) <= Len(idle[p])
    <2>1. idle \in [Proc -> Seq(Pooled)]
      BY <1>0 DEF TypeOK
    <2>2. \A p \in Proc : Len(idle[p]) \in Nat
      BY <2>1
    <2>3. QED
      BY <1>1, <2>1, <2>2
  <1>5. QED
    BY <1>1, <1>3, <1>4, FewerIdle DEF IInv

\* What the scheduler may create after discovering what exists.
LEMMA FillsUp ==
  ASSUME IsFiniteSet(docker), NEW q,
         q = IF Cardinality(docker) > MinSize THEN 0 ELSE MinSize - Cardinality(docker)
  PROVE  /\ q \in Int /\ Cardinality(docker) \in Nat
         /\ docker \subseteq 1 .. MaxSize => q + Cardinality(docker) <= MaxSize
  <1>1. Cardinality(docker) \in Nat /\ MinSize \in Nat /\ MaxSize \in Nat /\ MinSize <= MaxSize
    BY FS_CardinalityType, PoolAssumption
  <1>2. docker \subseteq 1 .. MaxSize => Cardinality(docker) <= MaxSize
    <2>0. MaxSize \in Int /\ MaxSize - 1 + 1 = MaxSize /\ (1 > MaxSize => MaxSize = 0)
      BY <1>1
    <2>1. IsFiniteSet(1 .. MaxSize) /\ Cardinality(1 .. MaxSize) = MaxSize
      BY <2>0, FS_Interval
    <2>2. QED
      BY <2>1, FS_Subset
  <1> DEFINE n == Cardinality(docker)
  <1>3. /\ n \in Nat /\ q = IF n > MinSize THEN 0 ELSE MinSize - n
        /\ docker \subseteq 1 .. MaxSize => n <= MaxSize
    BY <1>1, <1>2
  <1> HIDE DEF n
  <1>4. q \in Int
    BY <1>1, <1>3
  <1>5. docker \subseteq 1 .. MaxSize => q + n <= MaxSize
    BY <1>1, <1>3
  <1>6. QED
    BY <1>3, <1>4, <1>5 DEF n

LEMMA RestartKeeps == ASSUME IInv, NEW p \in Proc, Restart(p) PROVE IInv'
  <1> DEFINE q == IF Cardinality(docker) > MinSize THEN 0 ELSE MinSize - Cardinality(docker)
  <1>0. TypeOK /\ IsFiniteSet(docker) /\ docker \subseteq Name
    BY DEF IInv, TypeOK
  <1>1. UNCHANGED <<docker, making, faults>> /\ idle' = [idle EXCEPT ![p] = Discovered]
    BY DEF Restart
  <1>2. Discovered \in Seq(Pooled) /\ Len(Discovered) = Cardinality(docker)
    BY <1>0, DiscoveredType
  <1>3. /\ q \in Int /\ Cardinality(docker) \in Nat
        /\ docker \subseteq 1 .. MaxSize => q + Cardinality(docker) <= MaxSize
    BY <1>0, FillsUp
  <1>4. idle' \in [Proc -> Seq(Pooled)] /\ idle'[p] = Discovered
        /\ \A o \in Proc \ {p} : idle'[o] = idle[o]
    BY <1>0, <1>1, <1>2 DEF TypeOK
  <1>5. pc' \in [Exec -> Exec_PC] /\ held' \in [Exec -> Pooled]
    <2>1. pc \in [Exec -> Exec_PC] /\ held \in [Exec -> Pooled] /\ "over" \in Exec_PC
      BY <1>0 DEF TypeOK, Exec_PC
    <2> DEFINE lost == {e \in Exec : ProcOf[e] = p /\ pc[e] # "waiting"}
    <2>2. /\ pc' = [e \in Exec |-> IF e \in lost THEN "over" ELSE pc[e]]
          /\ held' = [e \in Exec |-> IF e \in lost THEN Nothing ELSE held[e]]
      BY DEF Restart
    <2> HIDE DEF lost
    <2>3. QED
      BY <2>1, <2>2, NothingType
  <1>6. maker' \in [Maker -> Maker_PC]
    <2>1. maker \in [Maker -> Maker_PC]
      BY <1>0 DEF TypeOK, Maker_PC
    <2>2. QED
      BY <2>1 DEF Restart, Maker_PC
  <1>7. \A m \in Maker : HomeOf(m) # p => maker'[m] = maker[m]
    BY DEF Restart
  <1>8. \A r \in Request : p = "api" => maker'[r] \in {"asked", "over"}
    BY PoolAssumption DEF Restart, HomeOf, Maker
  <1>9. /\ room' \in [Maker -> Int]
        /\ \A m \in Maker : m # "replenisher" \/ p # "scheduler" => room'[m] = room[m]
        /\ p = "scheduler" => room'["replenisher"] = q
    <2>1. room \in [Maker -> Int] /\ "replenisher" \in Maker
      BY <1>0 DEF TypeOK, Maker
    <2>2. room' = IF p = "scheduler" THEN [room EXCEPT !["replenisher"] = q] ELSE room
      BY DEF Restart
    <2> HIDE DEF q
    <2>3. QED
      BY <1>3, <2>1, <2>2 DEF q
  <1> HIDE DEF q
  <1>10. TypeOK'
    <2>1. restarts \in Nat /\ restarts' = restarts + 1
      BY <1>0 DEF TypeOK, Restart
    <2>2. restarts' \in Nat
      BY <2>1
    <2>3. docker' \subseteq Name /\ making' \in [Maker -> Name] /\ faults' \in Nat /\ dead' \subseteq Name /\ purging' \in Name \cup {0}
      BY <1>0, <1>1 DEF TypeOK, Restart
    <2>4. QED
      BY <1>4, <1>5, <1>6, <1>9, <2>2, <2>3 DEF TypeOK, Exec_PC, Maker_PC
  <1>11. IsFiniteSet(docker') /\ WithinMaximum'
    BY <1>0, <1>1 DEF IInv, WithinMaximum, OneRequest
  <1>12. ASSUME OneRequest, NEW m \in Maker
         PROVE  /\ Making(m)' => room'[m] + Len(idle'[HomeOf(m)]) <= MaxSize
                /\ maker'[m] \in {"creating", "created"} => making'[m] <= MaxSize /\ room'[m] >= 1
    <2>1. CASE HomeOf(m) # p
      <3>1. HomeOf(m) \in Proc /\ (p = "scheduler" => m # "replenisher")
        BY <2>1, PoolAssumption DEF HomeOf, Proc, Maker
      <3>2. maker'[m] = maker[m] /\ room'[m] = room[m] /\ making'[m] = making[m]
            /\ idle'[HomeOf(m)] = idle[HomeOf(m)]
        BY <1>1, <1>4, <1>7, <1>9, <2>1, <3>1
      <3>3. QED
        BY <1>12, <3>2 DEF IInv, Budget, Making
    <2>2. CASE HomeOf(m) = p /\ m \in Request
      <3>1. p = "api"
        BY <2>2 DEF HomeOf
      <3>2. QED
        BY <1>8, <2>2, <3>1 DEF Making
    <2>3. CASE HomeOf(m) = p /\ m \notin Request
      <3>1. m = "replenisher" /\ p = "scheduler"
        BY <2>3 DEF HomeOf, Maker
      <3>2. maker'[m] = "growing"
        BY PoolAssumption, <2>3, <3>1 DEF Restart
      <3>3. room'[m] + Len(idle'[HomeOf(m)]) <= MaxSize
        <4>1. room'[m] = q /\ idle'[HomeOf(m)] = Discovered
          BY <1>4, <1>9, <2>3, <3>1
        <4>2. docker \subseteq 1 .. MaxSize
          BY <1>12 DEF IInv, WithinMaximum
        <4>3. QED
          BY <1>2, <1>3, <4>1, <4>2
      <3>4. QED
        BY <3>2, <3>3
    <2>4. QED
      BY <2>1, <2>2, <2>3
  <1>13. Budget'
    BY <1>12 DEF Budget, OneRequest
  <1>14. QED
    BY <1>10, <1>11, <1>13 DEF IInv

-----------------------------------------------------------------------------

LEMMA IInvInit == ASSUME Init PROVE IInv
  <1>0. PICK n \in 0 .. MaxSize : docker = 1 .. n
    BY DEF Init
  <1>1. MaxSize \in Nat /\ MinSize \in Nat
    BY PoolAssumption
  <1>2. docker \subseteq Name /\ docker \subseteq 1 .. MaxSize /\ IsFiniteSet(docker)
    <2>1. IsFiniteSet(1 .. n)
      BY <1>0, <1>1, FS_Interval
    <2>2. QED
      BY <1>0, <1>1, <2>1 DEF Name
  <1> DEFINE q == IF Cardinality(docker) > MinSize THEN 0 ELSE MinSize - Cardinality(docker)
  <1>3. Discovered \in Seq(Pooled) /\ Len(Discovered) = Cardinality(docker)
    BY <1>2, DiscoveredType
  <1>4. q \in Int /\ Cardinality(docker) \in Nat /\ q + Cardinality(docker) <= MaxSize
    BY <1>2, FillsUp
  <1>5. \A m \in Maker : room[m] \in {0, q} /\ (m \notin Request => room[m] = q)
    BY DEF Init
  <1> HIDE DEF q
  <1>6. room \in [Maker -> Int]
    <2>1. room = [m \in Maker |-> room[m]]
      BY DEF Init
    <2>2. \A m \in Maker : room[m] \in Int
      BY <1>4, <1>5
    <2>3. QED
      BY <2>1, <2>2
  <1>7. idle \in [Proc -> Seq(Pooled)] /\ \A p \in Proc : idle[p] = Discovered
    BY <1>3 DEF Init
  <1>8. TypeOK
    <2>1. pc \in [Exec -> Exec_PC] /\ held \in [Exec -> Pooled]
      BY NothingType DEF Init, Exec_PC
    <2>2. maker \in [Maker -> Maker_PC] /\ making \in [Maker -> Name]
      BY DEF Init, Maker_PC, Name
    <2>3. dead \subseteq Name /\ purging \in Name \cup {0} /\ faults \in Nat /\ restarts \in Nat
      BY DEF Init
    <2>4. QED
      BY <1>2, <1>6, <1>7, <2>1, <2>2, <2>3 DEF TypeOK, Exec_PC, Maker_PC
  <1>9. Budget
    <2>1. ASSUME NEW m \in Maker, Making(m) PROVE room[m] + Len(idle[HomeOf(m)]) <= MaxSize
      <3>1. m \notin Request
        BY <2>1 DEF Init, Making
      <3>2. HomeOf(m) \in Proc
        BY DEF HomeOf, Proc
      <3>3. room[m] = q /\ Len(idle[HomeOf(m)]) = Cardinality(docker)
        BY <1>3, <1>5, <1>7, <3>1, <3>2
      <3>4. QED
        BY <1>4, <3>3
    <2>2. \A m \in Maker : maker[m] \notin {"creating", "created"}
      BY DEF Init
    <2>3. QED
      BY <2>1, <2>2 DEF Budget
  <1>10. QED
    BY <1>2, <1>8, <1>9 DEF IInv, WithinMaximum

LEMMA IInvNext == ASSUME IInv, [Next]_vars PROVE IInv'
  <1>1. CASE \E e \in Exec : Use(e)
    BY <1>1, UseKeeps
  <1>2. CASE \E r \in Request : Administer(r)
    <2>1. PICK r \in Request : Administer(r)
      BY <1>2
    <2>2. r \in Maker
      BY DEF Maker
    <2>3. QED
      BY <2>1, <2>2, ScaleKeeps, CreateKeeps, CreateEnoughKeeps, CreatedKeeps,
         AddIdleKeeps, ShrinkKeeps DEF Administer
  <1>3. CASE Replenish
    <2>1. "replenisher" \in Maker
      BY DEF Maker
    <2>2. QED
      BY <1>3, <2>1, ReplenishWakeKeeps, CreateKeeps, CreateEnoughKeeps, CreatedKeeps,
         AddIdleKeeps DEF Replenish
  <1>4. CASE \E m \in Maker : CreateRaises(m)
    BY <1>4, CreateRaisesKeeps
  <1>5. CASE HealthCheck \/ HealthCheckErrs
    BY <1>5, HealthCheckKeeps
  <1>6. CASE HealthPurge \/ HealthDestroy
    BY <1>6, HealthPurgeKeeps
  <1>7. CASE \E n \in docker : Vanish(n)
    BY <1>7, VanishKeeps
  <1>8. CASE \E p \in Proc : Restart(p)
    BY <1>8, RestartKeeps
  <1>9. CASE UNCHANGED vars
    <2>1. UNCHANGED <<docker, idle, pc, held, maker, room, making, dead, purging, faults, restarts>>
      BY <1>9 DEF vars, executions, makers, bounds
    <2>2. TypeOK' /\ Budget' /\ WithinMaximum' /\ IsFiniteSet(docker')
      BY <2>1 DEF IInv, TypeOK, Budget, WithinMaximum, OneRequest, Making
    <2>3. QED
      BY <2>2 DEF IInv
  <1>10. QED
    BY <1>1, <1>2, <1>3, <1>4, <1>5, <1>6, <1>7, <1>8, <1>9 DEF Next, HealthLoop

\* The processes' pools and what they are doing keep their types.
THEOREM TypeCorrect == Spec => []TypeOK
  <1>1. Init => IInv
    BY IInvInit
  <1>2. IInv /\ [Next]_vars => IInv'
    BY IInvNext
  <1>3. IInv => TypeOK
    BY DEF IInv
  <1>4. QED
    BY <1>1, <1>2, <1>3, PTL DEF Spec

\* With one scale request at a time there are never more sandbox containers
\* than settings.sandbox_max_size, although the scheduler and the API process
\* create them without knowing of each other's (_create_container).
THEOREM AtMostMaximum == Spec => []WithinMaximum
  <1>1. Init => IInv
    BY IInvInit
  <1>2. IInv /\ [Next]_vars => IInv'
    BY IInvNext
  <1>3. IInv => WithinMaximum
    BY DEF IInv
  <1>4. QED
    BY <1>1, <1>2, <1>3, PTL DEF Spec

-----------------------------------------------------------------------------
(***************************************************************************)
(* One container, one execution: what a process has idle, what its         *)
(* executions hold and what its makers are about to add stay apart.        *)
(***************************************************************************)

OnceIn(s) == \A i, j \in DOMAIN s : s[i].name = s[j].name => i = j

NamesIn(s) == {s[i].name : i \in DOMAIN s}

\* What a process has idle, what its executions hold and what is about to be
\* added to its idle containers are different containers.
Apart ==
    /\ \A p \in Proc : OnceIn(idle[p])
    /\ \A e \in Exec : Holding(e) => held[e].name \notin NamesIn(idle[ProcOf[e]])
    /\ \A d, e \in Exec :
          ProcOf[d] = ProcOf[e] /\ Holding(d) /\ Holding(e) /\ held[d].name = held[e].name => d = e
    /\ \A m \in Maker :
          maker[m] \in {"creating", "created"} => making[m] \notin NamesIn(idle[HomeOf(m)])

Holders(p) == {e \in Exec : ProcOf[e] = p /\ Holding(e)}

HInv ==
    /\ IInv
    /\ OneRequest => Apart
    /\ \A p \in Proc : IsFiniteSet(Holders(p))

\* What is left of a list of idle containers when some are taken out.
LEMMA PartOf ==
  ASSUME NEW s, NEW t, NEW h,
         \A i \in DOMAIN t : h[i] \in DOMAIN s /\ t[i] = s[h[i]],
         \A i, j \in DOMAIN t : h[i] = h[j] => i = j,
         OnceIn(s)
  PROVE  OnceIn(t) /\ NamesIn(t) \subseteq NamesIn(s)
  BY DEF OnceIn, NamesIn

LEMMA SubSeqPart ==
  ASSUME NEW s \in Seq(Pooled), OnceIn(s), NEW m \in Nat \ {0}, NEW n \in Nat, n <= Len(s)
  PROVE  /\ SubSeq(s, m, n) \in Seq(Pooled)
         /\ OnceIn(SubSeq(s, m, n)) /\ NamesIn(SubSeq(s, m, n)) \subseteq NamesIn(s)
         /\ \A i \in 1 .. m - 1 : i \in DOMAIN s => s[i].name \notin NamesIn(SubSeq(s, m, n))
  <1> DEFINE t == SubSeq(s, m, n)
             h == [i \in 1 .. n - m + 1 |-> m + i - 1]
  <1>1. \A i \in m .. n : s[i] \in Pooled
    OBVIOUS
  <1>2. /\ t \in Seq(Pooled)
        /\ Len(t) = IF m <= n THEN n - m + 1 ELSE 0
        /\ \A i \in 1 .. n - m + 1 : t[i] = s[m + i - 1]
    BY <1>1, SubSeqProperties
  <1> HIDE DEF t
  <1>3. DOMAIN t = 1 .. n - m + 1 /\ DOMAIN s = 1 .. Len(s)
    BY <1>2
  <1>4. /\ \A i \in DOMAIN t : h[i] \in DOMAIN s /\ h[i] >= m /\ t[i] = s[h[i]]
        /\ \A i, j \in DOMAIN t : h[i] = h[j] => i = j
    BY <1>2, <1>3
  <1> HIDE DEF h
  <1>5. OnceIn(t) /\ NamesIn(t) \subseteq NamesIn(s)
    BY <1>4, PartOf
  <1>6. ASSUME NEW i \in 1 .. m - 1, i \in DOMAIN s, NEW k \in DOMAIN t, s[i].name = t[k].name
        PROVE  FALSE
    <2>1. i = h[k]
      BY <1>4, <1>6 DEF OnceIn
    <2>2. h[k] \in Nat /\ h[k] >= m /\ i < m
      BY <1>3, <1>4, <1>6
    <2>3. QED
      BY <2>1, <2>2
  <1>7. QED
    BY <1>2, <1>5, <1>6 DEF t, NamesIn

LEMMA RemovePart ==
  ASSUME NEW s \in Seq(Pooled), OnceIn(s), NEW k \in DOMAIN s
  PROVE  OnceIn(RemoveAt(s, k)) /\ NamesIn(RemoveAt(s, k)) \subseteq NamesIn(s)
  <1> DEFINE a == SubSeq(s, 1, k - 1)
             b == SubSeq(s, k + 1, Len(s))
             t == a \o b
             h == [i \in 1 .. Len(s) - 1 |-> IF i < k THEN i ELSE i + 1]
  <1>0. k \in 1 .. Len(s) /\ Len(s) \in Nat /\ DOMAIN s = 1 .. Len(s)
    OBVIOUS
  <1>1. /\ a \in Seq(Pooled) /\ Len(a) = k - 1
        /\ \A i \in 1 .. k - 1 : a[i] = s[i]
    <2>1. k - 1 \in Int /\ \A i \in 1 .. k - 1 : s[i] \in Pooled
      BY <1>0
    <2>2. /\ a \in Seq(Pooled) /\ Len(a) = IF 1 <= k - 1 THEN (k - 1) - 1 + 1 ELSE 0
          /\ \A i \in 1 .. (k - 1) - 1 + 1 : a[i] = s[1 + i - 1]
      BY <2>1, SubSeqProperties
    <2> HIDE DEF a
    <2>3. QED
      BY <1>0, <2>2
  <1>2. /\ b \in Seq(Pooled) /\ Len(b) = Len(s) - k
        /\ \A i \in 1 .. Len(s) - k : b[i] = s[k + i]
    <2>1. k + 1 \in Int /\ Len(s) \in Int /\ \A i \in k + 1 .. Len(s) : s[i] \in Pooled
      BY <1>0
    <2>2. /\ b \in Seq(Pooled) /\ Len(b) = IF k + 1 <= Len(s) THEN Len(s) - (k + 1) + 1 ELSE 0
          /\ \A i \in 1 .. Len(s) - (k + 1) + 1 : b[i] = s[(k + 1) + i - 1]
      BY <2>1, SubSeqProperties
    <2> DEFINE l == Len(s)
    <2>3. k \in Int /\ l \in Int /\ k <= l
      BY <1>0
    <2> HIDE DEF b, l
    <2>4. /\ l - (k + 1) + 1 = l - k
          /\ (IF k + 1 <= l THEN l - (k + 1) + 1 ELSE 0) = l - k
          /\ \A i \in 1 .. l - k : (k + 1) + i - 1 = k + i
      BY <2>3
    <2> USE DEF l
    <2>5. QED
      BY <2>2, <2>4
  <1> HIDE DEF a, b
  <1>3. /\ t \in Seq(Pooled) /\ Len(t) = Len(s) - 1
        /\ \A i \in 1 .. Len(s) - 1 : t[i] = IF i <= k - 1 THEN a[i] ELSE b[i - (k - 1)]
    <2>1. /\ t \in Seq(Pooled) /\ Len(t) = Len(a) + Len(b)
          /\ \A i \in 1 .. Len(a) + Len(b) : t[i] = IF i <= Len(a) THEN a[i] ELSE b[i - Len(a)]
      BY <1>1, <1>2, ConcatProperties
    <2> HIDE DEF t
    <2>2. Len(a) + Len(b) = Len(s) - 1
      BY <1>0, <1>1, <1>2
    <2>3. QED
      BY <1>1, <2>1, <2>2
  <1>4. RemoveAt(s, k) = t
    BY DEF RemoveAt, a, b
  <1> HIDE DEF t
  <1>5. DOMAIN t = 1 .. Len(s) - 1
    BY <1>3
  <1>6. ASSUME NEW i \in DOMAIN t PROVE h[i] \in DOMAIN s /\ t[i] = s[h[i]]
    <2>1. i \in 1 .. Len(s) - 1
      BY <1>5
    <2>2. CASE i < k
      <3>1. i \in 1 .. k - 1 /\ i \in 1 .. Len(s) /\ i <= k - 1
        BY <1>0, <2>1, <2>2
      <3>2. t[i] = a[i] /\ a[i] = s[i] /\ h[i] = i
        BY <1>1, <1>3, <2>1, <2>2, <3>1
      <3>3. QED
        BY <1>0, <3>1, <3>2
    <2>3. CASE ~(i < k)
      <3>1. t[i] = b[i - (k - 1)] /\ i - (k - 1) \in 1 .. Len(s) - k
        BY <1>0, <1>3, <2>1, <2>3
      <3>2. t[i] = s[k + (i - (k - 1))]
        BY <1>2, <3>1
      <3>3. k + (i - (k - 1)) = i + 1 /\ h[i] = i + 1
        BY <1>0, <2>1, <2>3
      <3>4. QED
        BY <1>0, <2>1, <3>2, <3>3
    <2>4. QED
      BY <2>2, <2>3
  <1>7. \A i, j \in DOMAIN t : h[i] = h[j] => i = j
    BY <1>0, <1>5
  <1> HIDE DEF h
  <1>8. OnceIn(t) /\ NamesIn(t) \subseteq NamesIn(s)
    BY <1>6, <1>7, PartOf
  <1>9. QED
    BY <1>4, <1>8

LEMMA AppendPart ==
  ASSUME NEW s \in Seq(Pooled), OnceIn(s), NEW c \in Pooled, c.name \notin NamesIn(s)
  PROVE  OnceIn(Append(s, c)) /\ NamesIn(Append(s, c)) = NamesIn(s) \cup {c.name}
  <1> DEFINE t == Append(s, c)
  <1>1. /\ t \in Seq(Pooled) /\ Len(t) = Len(s) + 1
        /\ \A i \in 1 .. Len(s) : t[i] = s[i]
        /\ t[Len(s) + 1] = c
    BY AppendProperties
  <1> HIDE DEF t
  <1>2. DOMAIN s = 1 .. Len(s) /\ DOMAIN t = 1 .. Len(s) + 1 /\ Len(s) \in Nat
    BY <1>1
  <1>3. \A i \in DOMAIN t : (i \in DOMAIN s /\ t[i] = s[i]) \/ (i = Len(s) + 1 /\ t[i] = c)
    <2>1. \A i \in DOMAIN t : i \in 1 .. Len(s) \/ i = Len(s) + 1
      BY <1>2
    <2>2. QED
      BY <1>1, <1>2, <2>1
  <1>4. \A i \in DOMAIN s : i \in DOMAIN t /\ t[i] = s[i]
    BY <1>1, <1>2
  <1>5. Len(s) + 1 \in DOMAIN t /\ t[Len(s) + 1] = c
    BY <1>1, <1>2
  <1>6. OnceIn(t)
    <2>1. \A i \in DOMAIN s : s[i].name # c.name
      BY DEF NamesIn
    <2>2. QED
      BY <1>3, <2>1 DEF OnceIn
  <1>7. NamesIn(t) = NamesIn(s) \cup {c.name}
    BY <1>3, <1>4, <1>5 DEF NamesIn
  <1>8. QED
    BY <1>6, <1>7 DEF t

LEMMA DiscoveredOnce ==
  ASSUME docker \subseteq Name, IsFiniteSet(docker)
  PROVE  OnceIn(Discovered)
  <1> DEFINE n == Cardinality(docker)
             E == [name : docker, runs : {0}]
  <1>1. n \in Nat /\ ExistsBijection(1 .. n, docker)
    BY FS_CardinalityType
  <1>0. PICK g : g \in Bijection(1 .. n, docker)
    BY <1>1 DEF ExistsBijection
  <1>2. g \in [1 .. n -> docker] /\ \A i, j \in 1 .. n : g[i] = g[j] => i = j
    BY <1>0 DEF Bijection, Injection, IsInjective
  <1>3. [i \in 1 .. n |-> [name |-> g[i], runs |-> 0]] \in [1 .. n -> E]
    BY <1>2
  <1>4. \E s \in [1 .. n -> E] : \A i, j \in DOMAIN s : s[i].name = s[j].name => i = j
    BY <1>2, <1>3
  <1>5. QED
    BY <1>4 DEF Discovered, OnceIn

\* The number a maker chooses is not one its process knows.
LEMMA FreeNameIsFree ==
  ASSUME TypeOK, NEW m \in Maker
  PROVE  FreeName(HomeOf(m)) \notin NamesIn(idle[HomeOf(m)])
  <1> DEFINE p == HomeOf(m)
             S == Known(p)
  <1>1. p \in Proc
    BY DEF HomeOf, Proc
  <1>2. IsFiniteSet(Maker)
    BY PoolAssumption, FS_AddElement DEF Maker
  <1>3. IsFiniteSet({making[k] : k \in Maker})
    BY <1>2, ImageFinite
  <1>4. /\ IsFiniteSet(_creating_names(p))
        /\ _creating_names(p) \subseteq Name
    <2>1. _creating_names(p) \in SUBSET {making[k] : k \in Maker}
      BY DEF _creating_names
    <2>2. {making[k] : k \in Maker} \subseteq Name
      BY DEF TypeOK
    <2>3. QED
      BY <1>3, <2>1, <2>2, FS_Subset
  <1>5. S = IdleNames(p) \cup _creating_names(p)
    BY NothingInUse DEF Known
  <1>6. IsFiniteSet(S) /\ S \in SUBSET Nat
    BY <1>1, <1>4, <1>5, IdleNamesFinite, FS_Union DEF Name
  <1>7. FreeName(p) \notin S
    <2>1. FreeName(p) = CHOOSE n \in (1 .. Cardinality(S) + 1) \ S :
                           \A k \in (1 .. Cardinality(S) + 1) \ S : n <= k
      BY DEF FreeName
    <2> HIDE DEF S
    <2>2. QED
      BY <1>6, <2>1, FreeNumber
  <1>8. QED
    BY <1>5, <1>7 DEF IdleNames, NamesIn

LEMMA HomesFacts ==
  /\ \A m \in Maker : HomeOf(m) \in Proc
  /\ \A e \in Exec : ProcOf[e] \in Proc /\ \A m \in Maker : ProcOf[e] # HomeOf(m)
  /\ OneRequest => \A k, m \in Maker : HomeOf(k) = HomeOf(m) => k = m
  BY PoolAssumption, WorkerOnly DEF HomeOf, Proc, Maker, OneRequest

\* A step of a maker or of the health check that only takes idle containers
\* out and chooses no new number.
LEMMA PoolsKept ==
  ASSUME Apart, UNCHANGED <<pc, held>>,
         \A p \in Proc : OnceIn(idle'[p]) /\ NamesIn(idle'[p]) \subseteq NamesIn(idle[p]),
         \A m \in Maker : maker'[m] \in {"creating", "created"} =>
            maker[m] \in {"creating", "created"} /\ making'[m] = making[m]
  PROVE  Apart'
  <1>1. \A e \in Exec : Holding(e)' <=> Holding(e)
    BY DEF Holding
  <1>2. QED
    BY <1>1, HomesFacts DEF Apart

LEMMA IdleKept ==
  ASSUME Apart, UNCHANGED <<pc, held, idle>>,
         \A m \in Maker : maker'[m] \in {"creating", "created"} =>
            maker[m] \in {"creating", "created"} /\ making'[m] = making[m]
  PROVE  Apart'
  BY PoolsKept DEF Apart

\* A step of an execution.
LEMMA ExecKept ==
  ASSUME Apart, NEW e \in Exec, UNCHANGED makers,
         \A p \in Proc : p # ProcOf[e] => idle'[p] = idle[p],
         OnceIn(idle'[ProcOf[e]]),
         \A d \in Exec : d # e => pc'[d] = pc[d] /\ held'[d] = held[d],
         Holding(e)' =>
            /\ held'[e].name \notin NamesIn(idle'[ProcOf[e]])
            /\ \A d \in Exec : d # e /\ ProcOf[d] = ProcOf[e] /\ Holding(d) =>
                  held[d].name # held'[e].name,
         \A d \in Exec : d # e /\ ProcOf[d] = ProcOf[e] /\ Holding(d) =>
            held[d].name \notin NamesIn(idle'[ProcOf[e]])
  PROVE  Apart'
  <1>1. \A d \in Exec : d # e => (Holding(d)' <=> Holding(d))
    BY DEF Holding
  <1>2. \A p \in Proc : OnceIn(idle'[p])
    BY DEF Apart
  <1>3. \A d \in Exec : Holding(d)' => held'[d].name \notin NamesIn(idle'[ProcOf[d]])
    BY <1>1, HomesFacts DEF Apart
  <1>4. ASSUME NEW c \in Exec, NEW d \in Exec, ProcOf[c] = ProcOf[d], Holding(c)', Holding(d)',
               held'[c].name = held'[d].name
        PROVE  c = d
    BY <1>1, <1>4 DEF Apart
  <1>5. \A m \in Maker : maker'[m] \in {"creating", "created"} =>
           making'[m] \notin NamesIn(idle'[HomeOf(m)])
    BY HomesFacts DEF Apart, makers
  <1>6. QED
    BY <1>2, <1>3, <1>4, <1>5 DEF Apart

\* What e has is taken out of the idle containers, with those before it.
LEMMA TakeKept ==
  ASSUME TypeOK, Apart, NEW e \in Exec, UNCHANGED makers, ~Holding(e),
         NEW i \in DOMAIN idle[ProcOf[e]], Take(e, i)
  PROVE  Apart'
  <1> DEFINE s == idle[ProcOf[e]]
             t == SubSeq(s, i + 1, Len(s))
  <1>1. /\ held' = [held EXCEPT ![e] = s[i]]
        /\ idle' = [idle EXCEPT ![ProcOf[e]] = t]
        /\ pc' = [pc EXCEPT ![e] = "held"]
    BY DEF Take, Goto
  <1>2. ProcOf[e] \in Proc /\ s \in Seq(Pooled) /\ i \in 1 .. Len(s) /\ Len(s) \in Nat
    <2>1. ProcOf[e] \in Proc
      BY HomesFacts
    <2>2. s \in Seq(Pooled)
      BY <2>1 DEF TypeOK
    <2> HIDE DEF s
    <2>3. i \in DOMAIN s
      BY DEF s
    <2>4. i \in 1 .. Len(s) /\ Len(s) \in Nat
      BY <2>2, <2>3
    <2>5. QED
      BY <2>1, <2>2, <2>4
  <1>3. OnceIn(s)
    BY <1>2 DEF Apart
  <1>4. /\ OnceIn(t) /\ NamesIn(t) \subseteq NamesIn(s)
        /\ s[i].name \notin NamesIn(t)
    <2>1. i + 1 \in Nat \ {0} /\ i \in 1 .. (i + 1) - 1
      BY <1>2
    <2> HIDE DEF s
    <2>2. QED
      BY <1>2, <1>3, <2>1, SubSeqPart
  <1>5. s[i].name \in NamesIn(s)
    BY DEF NamesIn
  <1>6. /\ idle'[ProcOf[e]] = t /\ \A p \in Proc : p # ProcOf[e] => idle'[p] = idle[p]
        /\ held'[e] = s[i]
        /\ \A d \in Exec : d # e => pc'[d] = pc[d] /\ held'[d] = held[d]
    BY <1>1, <1>2 DEF TypeOK
  <1>7. \A d \in Exec : ProcOf[d] = ProcOf[e] /\ Holding(d) => held[d].name \notin NamesIn(s)
    BY DEF Apart
  <1> HIDE DEF s, t
  <1>8. QED
    BY <1>4, <1>5, <1>6, <1>7, ExecKept

\* A container is held on to, or no longer, or put back.
LEMMA UseKept ==
  ASSUME TypeOK, Apart, NEW e \in Exec, Use(e)
  PROVE  Apart'
  <1>0. /\ UNCHANGED makers
        /\ pc \in [Exec -> Exec_PC] /\ held \in [Exec -> Pooled]
        /\ ProcOf[e] \in Proc /\ idle \in [Proc -> Seq(Pooled)]
    BY HomesFacts, UseType DEF ByExecution, TypeOK, Exec_PC
  <1>1. ASSUME UNCHANGED idle,
               \A d \in Exec : d # e => pc'[d] = pc[d] /\ held'[d] = held[d],
               Holding(e)' => Holding(e) /\ held'[e] = held[e]
        PROVE  Apart'
    BY <1>0, <1>1, ExecKept DEF Apart
  <1>2. CASE Acquire(e)
    <2>1. ~Holding(e)
      BY <1>2 DEF Acquire, Holding
    <2>2. CASE \E i \in Alive(ProcOf[e]) : Take(e, i)
      BY <1>0, <2>1, <2>2, TakeKept DEF Alive
    <2>3. CASE idle' = [idle EXCEPT ![ProcOf[e]] = <<>>] /\ Goto(e, "waiting again") /\ UNCHANGED held
      <3>1. /\ idle'[ProcOf[e]] = <<>> /\ \A p \in Proc : p # ProcOf[e] => idle'[p] = idle[p]
            /\ \A d \in Exec : d # e => pc'[d] = pc[d] /\ held'[d] = held[d]
            /\ ~Holding(e)'
        BY <1>0, <2>3 DEF Goto, Holding
      <3>2. OnceIn(<<>>) /\ NamesIn(<<>>) = {}
        BY DEF OnceIn, NamesIn
      <3>3. QED
        BY <1>0, <3>1, <3>2, ExecKept
    <2>4. QED
      BY <1>2, <2>2, <2>3 DEF Acquire
  <1>3. CASE AcquireAgain(e)
    <2>1. ~Holding(e) /\ Take(e, 1) /\ idle[ProcOf[e]] # <<>>
      BY <1>3 DEF AcquireAgain, Holding
    <2>2. idle[ProcOf[e]] \in Seq(Pooled)
      BY <1>0
    <2>3. 1 \in DOMAIN idle[ProcOf[e]]
      BY <2>1, <2>2
    <2>4. QED
      BY <1>0, <2>1, <2>3, TakeKept
  <1>4. CASE AcquireTimeout(e) \/ Finish(e) \/ Cancel(e) \/ ReleaseInterrupted(e)
    BY <1>0, <1>1, <1>4
       DEF AcquireTimeout, Finish, Cancel, ReleaseInterrupted, Goto, Holding
  <1>5. CASE Destroy(e)
    BY <1>0, <1>1, <1>5 DEF Destroy, Goto, Holding
  <1>6. CASE Release(e) /\ ~PutBack(e)
    BY <1>0, <1>1, <1>6 DEF Release, Goto, Holding
  <1>7. CASE Release(e) /\ PutBack(e) /\ UNCHANGED idle
    BY <1>0, <1>1, <1>7 DEF Release, Goto, Holding
  <1>8. CASE Release(e) /\ PutBack(e) /\ idle' # idle
    <2> DEFINE c == [held[e] EXCEPT !.runs = @ + 1]
               s == idle[ProcOf[e]]
    <2>1. /\ Holding(e)
          /\ idle' = [idle EXCEPT ![ProcOf[e]] = Append(s, c)]
          /\ pc' = [pc EXCEPT ![e] = "over"]
          /\ held' = [held EXCEPT ![e] = Nothing]
      BY <1>8 DEF Release, PutBack, Goto, Holding
    <2>2. c \in Pooled /\ c.name = held[e].name /\ s \in Seq(Pooled)
      BY <1>0, PooledMore DEF Pooled
    <2>3. OnceIn(s) /\ held[e].name \notin NamesIn(s)
      BY <1>0, <2>1 DEF Apart
    <2>4. /\ idle'[ProcOf[e]] = Append(s, c)
          /\ \A p \in Proc : p # ProcOf[e] => idle'[p] = idle[p]
          /\ \A d \in Exec : d # e => pc'[d] = pc[d] /\ held'[d] = held[d]
          /\ ~Holding(e)'
      BY <1>0, <2>1 DEF Holding
    <2>5. \A d \in Exec : d # e /\ ProcOf[d] = ProcOf[e] /\ Holding(d) =>
             held[d].name \notin NamesIn(s) /\ held[d].name # held[e].name
      BY <2>1 DEF Apart
    <2> HIDE DEF c, s
    <2>6. OnceIn(Append(s, c)) /\ NamesIn(Append(s, c)) = NamesIn(s) \cup {held[e].name}
      BY <2>2, <2>3, AppendPart
    <2>7. OnceIn(idle'[ProcOf[e]])
      BY <2>4, <2>6
    <2>8. \A d \in Exec : d # e /\ ProcOf[d] = ProcOf[e] /\ Holding(d) =>
             held[d].name \notin NamesIn(idle'[ProcOf[e]])
      BY <2>4, <2>5, <2>6
    <2>9. QED
      BY <1>0, <2>4, <2>7, <2>8, ExecKept
  <1>9. QED
    BY <1>2, <1>3, <1>4, <1>5, <1>6, <1>7, <1>8 DEF Use

LEMMA CreateKept ==
  ASSUME TypeOK, Apart, NEW m \in Maker, Create(m)
  PROVE  Apart'
  <1>1. /\ UNCHANGED <<pc, held, idle>>
        /\ making' = [making EXCEPT ![m] = FreeName(HomeOf(m))]
        /\ maker' = [maker EXCEPT ![m] = "creating"]
    BY DEF Create, executions
  <1>2. making'[m] = FreeName(HomeOf(m))
        /\ \A k \in Maker : k # m => making'[k] = making[k] /\ maker'[k] = maker[k]
    BY <1>1 DEF TypeOK
  <1>3. \A k \in Maker : maker'[k] \in {"creating", "created"} =>
           making'[k] \notin NamesIn(idle'[HomeOf(k)])
    BY <1>1, <1>2, FreeNameIsFree DEF Apart
  <1>4. QED
    BY <1>1, <1>3 DEF Apart, Holding

LEMMA AddIdleKept ==
  ASSUME TypeOK, Apart, OneRequest, NEW m \in Maker, AddIdle(m)
  PROVE  Apart'
  <1> DEFINE s == idle[HomeOf(m)]
             c == [name |-> making[m], runs |-> 0]
  <1>1. /\ maker[m] = "created"
        /\ maker' = [maker EXCEPT ![m] = IF m \in Request THEN "growing" ELSE "topping up"]
        /\ making' = [making EXCEPT ![m] = 1]
        /\ idle' = [idle EXCEPT ![HomeOf(m)] = Append(s, c)]
        /\ UNCHANGED <<pc, held>>
    BY DEF AddIdle, executions
  <1>2. HomeOf(m) \in Proc /\ s \in Seq(Pooled) /\ c \in Pooled /\ c.name = making[m]
    BY HomeIdle DEF Pooled
  <1>3. OnceIn(s) /\ making[m] \notin NamesIn(s)
    BY <1>1, <1>2 DEF Apart
  <1>4. /\ idle'[HomeOf(m)] = Append(s, c)
        /\ \A p \in Proc : p # HomeOf(m) => idle'[p] = idle[p]
        /\ maker'[m] \notin {"creating", "created"}
        /\ \A k \in Maker : k # m => making'[k] = making[k] /\ maker'[k] = maker[k]
    BY <1>1, <1>2 DEF TypeOK
  <1> HIDE DEF s, c
  <1>5. OnceIn(Append(s, c))
    BY <1>2, <1>3, AppendPart
  <1>6. \A p \in Proc : OnceIn(idle'[p])
    BY <1>4, <1>5 DEF Apart
  <1>7. \A e \in Exec : idle'[ProcOf[e]] = idle[ProcOf[e]] /\ (Holding(e)' <=> Holding(e))
    BY <1>1, <1>4, HomesFacts DEF Holding
  <1>8. \A k \in Maker : maker'[k] \in {"creating", "created"} =>
           making'[k] \notin NamesIn(idle'[HomeOf(k)])
    BY <1>4, HomesFacts DEF Apart
  <1>9. QED
    BY <1>1, <1>6, <1>7, <1>8 DEF Apart

LEMMA ShrinkKept ==
  ASSUME TypeOK, Apart, NEW r \in Request, Shrink(r)
  PROVE  Apart'
  <1>1. /\ UNCHANGED <<pc, held, making>>
        /\ maker' = [maker EXCEPT ![r] = "shrinking"] \/ maker' = [maker EXCEPT ![r] = "over"]
    BY DEF Shrink, executions
  <1>2. \A m \in Maker : maker'[m] \in {"creating", "created"} => maker[m] \in {"creating", "created"}
    BY <1>1 DEF TypeOK
  <1>3. CASE UNCHANGED idle
    BY <1>1, <1>2, <1>3, IdleKept
  <1>4. CASE idle["api"] # <<>> /\ idle' = [idle EXCEPT !["api"] = Front(idle["api"])]
    <2> DEFINE s == idle["api"]
    <2>1. "api" \in Proc /\ s \in Seq(Pooled) /\ s # <<>> /\ OnceIn(s)
      BY <1>4 DEF Proc, TypeOK, Apart
    <2>2. idle'["api"] = Front(s) /\ \A p \in Proc : p # "api" => idle'[p] = idle[p]
      BY <1>4, <2>1 DEF TypeOK
    <2> HIDE DEF s
    <2>3. Len(s) - 1 \in Nat /\ Len(s) - 1 <= Len(s)
      BY <2>1
    <2>4. OnceIn(Front(s)) /\ NamesIn(Front(s)) \subseteq NamesIn(s)
      BY <2>1, <2>3, SubSeqPart DEF Front
    <2>5. \A p \in Proc : OnceIn(idle'[p]) /\ NamesIn(idle'[p]) \subseteq NamesIn(idle[p])
      BY <2>2, <2>4 DEF s, Apart
    <2>6. QED
      BY <1>1, <1>2, <2>5, PoolsKept
  <1>5. QED
    BY <1>3, <1>4 DEF Shrink

LEMMA HealthPurgeKept ==
  ASSUME TypeOK, Apart, HealthPurge \/ HealthDestroy
  PROVE  Apart'
  <1>1. UNCHANGED <<pc, held, maker, making>>
    BY DEF HealthPurge, HealthDestroy, executions, makers
  <1>2. CASE UNCHANGED idle
    BY <1>1, <1>2, IdleKept
  <1>3. ASSUME NEW i \in DOMAIN idle["scheduler"],
               idle' = [idle EXCEPT !["scheduler"] = RemoveAt(idle["scheduler"], i)]
        PROVE  Apart'
    <2> DEFINE s == idle["scheduler"]
    <2>1. "scheduler" \in Proc /\ s \in Seq(Pooled) /\ OnceIn(s)
      BY DEF Proc, TypeOK, Apart
    <2>2. idle'["scheduler"] = RemoveAt(s, i) /\ \A p \in Proc : p # "scheduler" => idle'[p] = idle[p]
      BY <1>3, <2>1 DEF TypeOK
    <2>3. i \in DOMAIN s
      BY <1>3
    <2> HIDE DEF s
    <2>4. OnceIn(RemoveAt(s, i)) /\ NamesIn(RemoveAt(s, i)) \subseteq NamesIn(s)
      BY <2>1, <2>3, RemovePart
    <2>5. \A p \in Proc : OnceIn(idle'[p]) /\ NamesIn(idle'[p]) \subseteq NamesIn(idle[p])
      BY <2>2, <2>4 DEF s, Apart
    <2>6. QED
      BY <1>1, <2>5, PoolsKept
  <1>4. QED
    BY <1>2, <1>3 DEF HealthPurge, HealthDestroy, Purge

LEMMA RestartKept ==
  ASSUME IInv, Apart, NEW p \in Proc, Restart(p)
  PROVE  Apart'
  <1>0. TypeOK /\ OnceIn(Discovered)
    BY DiscoveredOnce DEF IInv, TypeOK
  <1>1. UNCHANGED making /\ idle' = [idle EXCEPT ![p] = Discovered]
    BY DEF Restart
  <1>2. idle'[p] = Discovered /\ \A o \in Proc : o # p => idle'[o] = idle[o]
    BY <1>0, <1>1 DEF TypeOK
  <1>3. \A o \in Proc : OnceIn(idle'[o])
    BY <1>0, <1>2 DEF Apart
  <1>4. \A e \in Exec : Holding(e)' => ProcOf[e] # p /\ Holding(e) /\ held'[e] = held[e]
    <2> DEFINE lost == {e \in Exec : ProcOf[e] = p /\ pc[e] # "waiting"}
    <2>1. /\ pc' = [e \in Exec |-> IF e \in lost THEN "over" ELSE pc[e]]
          /\ held' = [e \in Exec |-> IF e \in lost THEN Nothing ELSE held[e]]
      BY DEF Restart
    <2>2. QED
      BY <2>1 DEF Holding
  <1>5. \A m \in Maker : maker'[m] \in {"creating", "created"} => HomeOf(m) # p /\ maker'[m] = maker[m]
    BY DEF Restart
  <1>6. QED
    BY <1>1, <1>2, <1>3, <1>4, <1>5, HomesFacts DEF Apart

LEMMA ApartNext ==
  ASSUME IInv, OneRequest, Apart, [Next]_vars
  PROVE  Apart'
  <1>0. TypeOK
    BY DEF IInv
  <1>1. ASSUME NEW m \in Maker, CreateEnough(m) \/ Created(m) \/ CreateRaises(m) PROVE Apart'
    <2>1. UNCHANGED <<pc, held, idle, making>>
      BY <1>1 DEF CreateEnough, Created, CreateRaises, executions
    <2>2. \A k \in Maker : maker'[k] \in {"creating", "created"} => maker[k] \in {"creating", "created"}
      BY <1>0, <1>1 DEF CreateEnough, Created, CreateRaises, TypeOK
    <2>3. QED
      BY <2>1, <2>2, IdleKept
  <1>2. ASSUME NEW m \in Maker, Create(m) \/ AddIdle(m) PROVE Apart'
    BY <1>0, <1>2, CreateKept, AddIdleKept
  <1>3. ASSUME NEW r \in Request, Administer(r) PROVE Apart'
    <2>1. r \in Maker
      BY DEF Maker
    <2>2. ASSUME NEW target \in Target, Scale(r, target) PROVE Apart'
      <3>1. UNCHANGED <<pc, held, idle, making>>
        BY <2>2 DEF Scale, executions
      <3>2. \A k \in Maker : maker'[k] \in {"creating", "created"} => maker[k] \in {"creating", "created"}
        <4>1. PICK x \in {"growing", "to shrink", "over"} : maker' = [maker EXCEPT ![r] = x]
          BY <2>2 DEF Scale
        <4>2. QED
          BY <1>0, <4>1 DEF TypeOK
      <3>3. QED
        BY <3>1, <3>2, IdleKept
    <2>3. QED
      BY <1>0, <1>1, <1>2, <1>3, <2>1, <2>2, ShrinkKept DEF Administer
  <1>4. CASE Replenish
    <2>1. "replenisher" \in Maker
      BY DEF Maker
    <2>2. CASE ReplenishWake
      <3>1. UNCHANGED <<pc, held, idle, making>>
        BY <2>2 DEF ReplenishWake, executions
      <3>2. \A k \in Maker : maker'[k] \in {"creating", "created"} => maker[k] \in {"creating", "created"}
        BY <1>0, <2>2 DEF ReplenishWake, TypeOK
      <3>3. QED
        BY <3>1, <3>2, IdleKept
    <2>3. QED
      BY <1>1, <1>2, <1>4, <2>1, <2>2 DEF Replenish
  <1>5. ASSUME HealthCheck \/ HealthCheckErrs \/ (\E n \in docker : Vanish(n)) \/ UNCHANGED vars PROVE Apart'
    <2>1. UNCHANGED <<pc, held, idle, maker, making>>
      BY <1>5 DEF HealthCheck, HealthCheckErrs, Vanish, vars, executions, makers
    <2>2. QED
      BY <2>1, IdleKept
  <1>6. QED
    BY <1>0, <1>1, <1>3, <1>4, <1>5, UseKept, HealthPurgeKept, RestartKept DEF Next, HealthLoop

\* An execution at a time comes to hold a container.
LEMMA HoldersNext ==
  ASSUME TypeOK, [Next]_vars, \A p \in Proc : IsFiniteSet(Holders(p))
  PROVE  \A p \in Proc : IsFiniteSet(Holders(p)')
  <1>1. \/ \E d \in Exec : \A e \in Exec : Holding(e)' => Holding(e) \/ e = d
        \/ \A e \in Exec : Holding(e)' => Holding(e)
    <2>1. ASSUME NEW d \in Exec, Use(d) PROVE \A e \in Exec : Holding(e)' => Holding(e) \/ e = d
      <3>1. \A e \in Exec : e # d => pc'[e] = pc[e]
        BY <2>1 DEF Use, Acquire, AcquireAgain, AcquireTimeout, Finish, Cancel, Release, Destroy,
                    ReleaseInterrupted, Take, Goto, TypeOK
      <3>2. QED
        BY <3>1 DEF Holding
    <2>2. ASSUME NEW p \in Proc, Restart(p) PROVE \A e \in Exec : Holding(e)' => Holding(e)
      BY <2>2 DEF Restart, Holding
    <2>3. ASSUME \/ \E r \in Request : Administer(r)
                 \/ Replenish
                 \/ \E m \in Maker : CreateRaises(m)
                 \/ HealthCheck \/ HealthCheckErrs \/ HealthPurge \/ HealthDestroy
                 \/ \E n \in docker : Vanish(n)
                 \/ UNCHANGED vars
          PROVE  \A e \in Exec : Holding(e)' => Holding(e)
      <3>1. UNCHANGED pc
        BY <2>3 DEF Administer, Scale, Create, CreateEnough, Created, AddIdle, Shrink, Replenish,
                    ReplenishWake, CreateRaises, HealthCheck, HealthCheckErrs, HealthPurge,
                    HealthDestroy, Vanish, vars, executions
      <3>2. QED
        BY <3>1 DEF Holding
    <2>4. QED
      BY <2>1, <2>2, <2>3 DEF Next, HealthLoop
  <1>2. SUFFICES ASSUME NEW p \in Proc PROVE IsFiniteSet(Holders(p)')
    OBVIOUS
  <1>3. \/ \E d \in Exec : Holders(p)' \subseteq Holders(p) \cup {d}
        \/ Holders(p)' \subseteq Holders(p)
    BY <1>1 DEF Holders
  <1>4. IsFiniteSet(Holders(p)) /\ \A d : IsFiniteSet(Holders(p) \cup {d})
    BY FS_AddElement
  <1>5. QED
    BY <1>3, <1>4, FS_Subset

LEMMA HInvInit == Init => HInv
  <1> SUFFICES ASSUME Init PROVE HInv
    OBVIOUS
  <1>1. IInv
    BY IInvInit
  <1>2. OnceIn(Discovered)
    BY <1>1, DiscoveredOnce DEF IInv, TypeOK
  <1>3. \A e \in Exec : ~Holding(e)
    BY DEF Init, Holding
  <1>4. \A m \in Maker : maker[m] \notin {"creating", "created"}
    BY DEF Init
  <1>5. Apart
    BY <1>2, <1>3, <1>4 DEF Init, Apart
  <1>6. \A p \in Proc : IsFiniteSet(Holders(p))
    BY <1>3, FS_EmptySet DEF Holders
  <1>7. QED
    BY <1>1, <1>5, <1>6 DEF HInv

LEMMA HInvNext == HInv /\ [Next]_vars => HInv'
  <1> SUFFICES ASSUME HInv, [Next]_vars PROVE HInv'
    OBVIOUS
  <1>1. IInv'
    BY IInvNext DEF HInv
  <1>2. OneRequest => Apart'
    BY ApartNext DEF HInv
  <1>3. \A p \in Proc : IsFiniteSet(Holders(p)')
    BY HoldersNext DEF HInv, IInv
  <1>4. QED
    BY <1>1, <1>2, <1>3 DEF HInv, OneRequest

\* HeldOnce for every instance with one scale request: a process hands a
\* container to one execution at a time, whatever its makers, its health
\* check and restarts do meanwhile.
THEOREM HandedToOne == Spec => []HeldOnce
  <1>1. HInv => HeldOnce
    <2>1. SUFFICES ASSUME HInv, OneRequest, NEW p \in Proc
                   PROVE  /\ OnceIn(idle[p])
                          /\ IdleNames(p) \cap in_use(p) = {}
                          /\ Cardinality(in_use(p)) = InUse(p)
      BY DEF HeldOnce, OnceIn
    <2>2. Apart /\ IsFiniteSet(Holders(p))
      BY <2>1 DEF HInv
    <2>3. OnceIn(idle[p])
      BY <2>2 DEF Apart
    <2>4. IdleNames(p) \cap in_use(p) = {}
      BY <2>2 DEF Apart, in_use, IdleNames, NamesIn
    <2>5. Cardinality(in_use(p)) = InUse(p)
      <3> DEFINE name == [e \in Holders(p) |-> held[e].name]
      <3>1. name \in Bijection(Holders(p), in_use(p))
        <4>1. in_use(p) = {name[e] : e \in Holders(p)}
          BY DEF in_use, Holders
        <4>2. \A d, e \in Holders(p) : name[d] = name[e] => d = e
          BY <2>2 DEF Apart, Holders
        <4>3. QED
          BY <4>1, <4>2 DEF Bijection, Injection, Surjection, IsInjective
      <3>2. ExistsBijection(Holders(p), in_use(p))
        BY <3>1 DEF ExistsBijection
      <3>3. Cardinality(Holders(p)) = Cardinality(in_use(p))
        BY <2>2, <3>2, FS_Bijection
      <3>4. QED
        BY <3>3 DEF InUse, Holders
    <2>6. QED
      BY <2>3, <2>4, <2>5
  <1>2. QED
    BY <1>1, HInvInit, HInvNext, PTL DEF Spec

=============================================================================
