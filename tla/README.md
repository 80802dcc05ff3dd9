# Verification of Sinas

Sinas runs LLM agents and user functions: HTTP requests, schedules and agents
enqueue jobs in Redis (arq), workers run them, PostgreSQL keeps conversations,
executions and batches, and Redis streams carry what a job says back to whoever
listens. This directory holds TLA+ models of the parts whose correctness depends
on the order in which processes act and on what fails between two of their
steps, TLC instances that check them, and TLAPS proofs for every instance.

All paths below are relative to `src/backend/app/`.

## The system's parts

| Part | State | Operations | What makes it hard |
|---|---|---|---|
| Delegation checkpoints (`services/delegation.py`, `models/pending_delegation.py`) | `pending_delegations` rows, tool-result messages | `suspend_delegations`, `on_child_complete` | children report concurrently; commit and enqueue are two steps; jobs are stopped in between |
| Agent jobs (`queue/agent_jobs.py`) | job status in Redis, streams, a batch's Execution row | message, approval-resume and delegate-resume handlers | an except clause that repeats what the body did; a finally clause that does less |
| Conversation turn (`services/message_service.py`, `services/conversation_history.py`) | messages | LLM turns, tool rounds, suspension, iteration limit, the history given to the LLM | generator that its consumer may abandon; swallowed exceptions; two jobs of one chat |
| Delegation tools (`services/tool_execution.py`) | sub-chats | block on a child's stream, or prepare a suspension | a parent holds a worker slot while it waits |
| Stream relay (`services/stream_relay.py`) | Redis streams | publish, subscribe | only silence tells a dead publisher |
| Queue service and workers (`services/queue_service.py`, `queue/worker.py`) | arq queues, job status, results, dead letters | enqueue, wait, cancel, retry, flush | retries, crash re-runs, job ids reused |
| Batches (`services/batch_service.py`) | `batches` rows | submit, cancel, `on_execution_terminated` | the last child must tell, once |
| Execution engine (`services/execution_engine.py`) | `executions` rows | `execute_function`, `resume_execution`, callbacks | outcome, callback and batch check are separate steps |
| Sandbox container pool (`services/container_pool.py`) | idle, in use, being created, in each process | acquire, release, replenish, health check, scale, discover | every process has a pool of its own over the same containers; background tasks; Docker calls in between |
| Shared workers (`services/shared_worker_manager.py`, `container_executor.py`, `services/executor/`) | workers, paused threads | execute, resume, scale | paused executions pin a worker |
| Shared-pool admission (`services/shared_admission.py`) | a sorted set in Redis | admit, leave | count and add are two commands |
| Sandbox image (`services/sandbox_image.py`) | a lock and a tag in Redis, images | build, prune, look up | a lock that may expire |
| CDC (`cdc/service.py`, `api/v1/endpoints/database_triggers.py`) | bookmarks, poll tasks | poll, start, stop, listen; create, update, delete a trigger | enqueue and bookmark are two commits; tasks are restarted in between; announcements get lost |
| Scheduler (`services/scheduler.py`, `scheduler/service.py`) | APScheduler jobs | reload on notification, fire | notifications against polling |
| Approvals (`api/runtime/endpoints/chats.py`) | `pending_tool_approvals` rows | approve, resume | several approvals of one turn |
| Configuration and packages (`services/config_apply/`, `services/package_service.py`) | `managed_by`, `config_checksum`, `is_active` of every resource, `packages` rows | apply, dry run, install, preview, uninstall; users' create, edit, delete | long transactions over rows that users and other managers write; edits that detach |
| Collections and files (`api/runtime/endpoints/files.py`, `services/collection_tools.py`, `services/file_storage.py`) | `files` and `file_versions` rows, a storage | upload, write, edit, delete, read | contents take part in no transaction; uploads lock, tools do not |
| Connectors (`services/connector_service.py`, `core/oauth_state.py`) | a token row for each user, a lock in each process | call, refresh, connect, disconnect | a refresh token may be spent once; refreshes meet across processes, with new consents, and with the pool's limit |
| The rest | permissions, states, LLM providers, HTTP API, console | CRUD, pure input/output | sequential |

They interact through rows (Execution, Batch, PendingDelegation, Message), through
arq jobs, and through Redis streams and pub/sub. A batch starts functions or
agents; an agent starts agents (as a suspension or as a blocking call) and
functions; an agent or a function that ends tells its batch.

What makes them correct:

- *Delegation*: one resume for each suspension, with all results, whatever fails
  or races; every suspended conversation comes back; a batch row ends only when
  the conversation does.
- *Block mode*: parents never take the slots their children need for good.
- *Batches*: one summary, with final counts; a finished batch stays finished;
  each child calls back once; the batch ends.
- *Pool*: a process hands a container to one execution at a time; all processes
  together stay within the maximum; what workers destroy is created again.
- *Shared workers*: a function is started once; only a function that returned is
  completed; slots are held by what is under way.
- *Queue*: a job's waiter gets that job's outcome, and gets one; a dead job is dead.
- *Conversation*: whatever was interrupted, the LLM is shown no answer ahead of its call; each
  call is answered once in a round; nothing that needs approval runs unasked.
- *Files*: a version keeps its content; versions are numbered without gaps; no content is
  forgotten.
- *Packages*: the mark of a manager on a row means that the row is what it shipped, and what is
  recorded.
- *Connectors*: a refresh token is spent once and its replacement kept; calls end.
- *CDC*: one poll task for a trigger; no row is passed over, none is delivered
  again without a reason; an active trigger is polled and catches up.

## Modules

| Module | What it is |
|---|---|
| `Join` | abstract specification: a suspension opens on a set of calls, each is answered at most once, and when all are the conversation is woken once |
| `Delegation` | suspend-on-delegate in full; implements `Join` |
| `DelegationProofs` | type correctness, the safety properties of the run `delegation`, and that `Delegation` refines `Join` step by step |
| `MCDelegation` | a root that may call two agents, one of which may call a third |
| `Batch` | a batch of functions: submission, execution, callbacks, cancels, resumed children, reruns |
| `BatchProofs` | type correctness, `PostedOnce`, `SummaryIsFinal`, `ToldOnce`, `NeverReopened` |
| `MCBatch` | two children |
| `AgentSlots` | block mode: worker slots held by parents that read their children's streams |
| `MCAgentSlots` | two users' messages, three children, one grandchild |
| `Cdc` | change data capture for one trigger: poll tasks, the service, the API, the watched table |
| `CdcProofs` | type correctness, `OneTask`, `BookmarkSteps`, `RepeatedOnlyIfUnsaved`, `ActiveIsPolled` |
| `MCCdc` | a table of two rows, polled a row at a time |
| `ContainerPool` | the pools of sandbox containers of workers, API and scheduler over one Docker |
| `ContainerPoolProofs` | type correctness, `WithinMaximum`, `HeldOnce` |
| `MCContainerPool` | one worker, two functions, one code execution, one scale request |
| `SharedWorkers` | trusted functions: tries of a job, admission, choice of a worker, the executor in the container, pause and answer, scaling, reload, restarts |
| `SharedWorkersProofs` | `OneRunPerTry`, `CompletedRan`, `SlotsHeld` |
| `MCSharedWorkers` | a function that asks for input and calls another; its job may run twice |
| `JobQueue` | one function job: caller, worker, cancel, dead letters; every Redis command a step |
| `JobsProofs` | of `JobQueue`: `CallerToldTruth`, `NoLostWakeup`, `DeadLetterIsDead`; of `AgentSlots`: which parents can starve, and that with one level of delegation none can |
| `MCJobQueue` | two tries, two retry requests |
| `Conversation` | the messages of one chat, its turns and tool rounds, its approvals |
| `ConversationProofs` | `NothingRunsUnasked`, `AnsweredPerRound`, `AnswersFollowCalls` |
| `MCConversation` | a streamed message, with two requests to approve or with one and a plain message |
| `Files` | the files of a collection that go by one name: uploads, tools, deletions, readers, rows and contents |
| `MCFiles` | two uploads, a write, an edit, a deletion and a reader of two users |
| `Packages` | a configuration, packages and users over the same resources, with their transactions |
| `MCPackages` | two packages and the configuration over four resources |
| `Connectors` | one user's token of one connector: calls in several processes, the provider, consents, disconnecting |
| `MCConnectors` | two calls in a process they exhaust, one in another |
| `ResourcesProofs` | of `Files`: `ServedAsRecorded`, `CurrentIsLatest`, `ContentAccountedFor`; of `Connectors`: `TokensKept`; of `Packages`: `ManagedAsShipped`, `MarkedAsRecorded` |

### Delegation and Join

A *call* is a user's message or a `call_agent` tool call together with the
conversation it runs in; the constants `Parent` and `Depth` fix the tree of calls
an agent *may* make, and each turn chooses any subset of them. Job `<<c, 0>>` is
the message job of `c` and `<<c, k+1>>` the delegate-resume job of its `k`-th
suspension. `pc` is the place of a job in its handler, its final values are the
job's status in Redis. `live`, `asked`, `pend`, `left` are the PendingDelegation
row written by a job (it exists or not, the calls it was written for, columns
`pending` and `remaining`), `results` are the tool-result messages, `resumes`
counts the enqueued delegate-resume jobs, `execution` is the row of the batch
child that started the root.

The places of `pc` are the points where another process can act or the job can
be stopped: `turn` (the LLM turn, one step), `fanout` (checkpoint committed,
children being enqueued), `suspending` (the `delegation_pending` chunk), `finishing`
(`publish_done` and status), `failing` (the except clause), `reporting` and `blaming` (the
transaction that delivers a result or a failure) and `waking` and `wakingFailed` (the
checkpoint's row deleted, its resume not enqueued yet). `Report` is the whole
transaction of `on_child_complete` and takes place under `SELECT ... FOR UPDATE`, hence
one step.

Faults, each at the places where it can strike: a Redis call that raises
(`AfterRedisError` says where control goes: out of the handler before its `try`,
swallowed by `send_message_stream` while a message job enqueues, into the except
clause, or past it), a transaction that raises, `CancelledError`
(job timeout, shutdown) and the death of the worker; agent jobs have
`max_tries = 1` and do not run again.

`Join` knows none of this: suspensions are idle, open, due or woken. `J` in
`Delegation` maps it: a suspension is *open* while its row exists, *due* once the row is
gone, *woken* once a resume job is enqueued, and `waiting` is the column `pending`.

### Batch

The rows of a batch's children, the batch's `status` and `finished_at`, and the
place of each child's job. Each commit is a step and so is each read a later step
uses: `CountPending`, `Tally` (the counts the summary will show), `Claim` (the
compare-and-set on `finished_at`), `Post`. `cancel_batch` is four steps: read,
write, count, post. `resume_execution` is a request of its own. The rows stay
PENDING while a batch child runs because `execute_function` sets RUNNING only on
rows it creates. Faults, each at most once: the submission loop raises, a worker
dies and arq runs the job again, a job times out, `on_execution_terminated` raises
(after a success the except clause then turns the row to FAILED), `cancel_job` of a
child. An agent batch's children are `Delegation`'s `execution`; the fan-in
`on_execution_terminated` is the same code.

### AgentSlots

In block mode, the default, an agent job that calls other agents stays in its
worker slot until their streams have ended. A call is `none`, `called` (its parent
has not enqueued it yet), `queued`, in its `turn`, `waiting` for children, or `over`. Of a
stream only what ends the reading of it is kept: `said`, its terminal event.
`GiveUp` is the silence of `agent_delegate_timeout` seconds; since a running job
pings every 15 seconds it can only hit a child that is queued or dead. `RoundTimeout`
is the `function_timeout` of a round of tools, which ends the wait whatever the children
do; liveness does not rest on it. The
terminal event and the release of the slot, two moments apart in the code, are
one step. An enqueue that fails, which returns an error to the turn, is not
modelled.

### Cdc

One database trigger; what the service does to one does not depend on the others.
`trigger` and `bookmark` are its row (`last_poll_value`), `task` the poll tasks and
`registered` the trigger's entry in `_poll_tasks`. A task is `polling` (about to load the
trigger), `reading` (loaded; about to query the table), `initialising` or `enqueueing`
(with what the query returned), `saving` (enqueued, bookmark not committed) or
`sleeping`. Between any two of these the table, the trigger's row and the service may
change. A cancelled task is awaited before the next one is started, so `Restart` is
one step; a cancelled call that took effect is the call's own step before it.
`PollRaises` lets any call raise, before or after it took effect.

`service` is `starting` between the SELECT of `start()` and the listener's subscription:
what is announced then is lost, as pub/sub keeps nothing. It is `deaf` once the
listener has ended: when `get_message` raises, or at the first `reload` message, since
`reload()` uses `AsyncSessionLocal` and `select`, which only the other methods import, and
the NameError ends the listener. Polling goes on, announcements do not arrive until
the service restarts. Create and update commit, then announce; delete announces,
then commits, and either part of a request may fail.

The watched table is outside Sinas. Its poll column strictly increases with each
write, which `docs-mint/triggers/database-triggers.mdx` asks for; ties beyond `LIMIT` and
rows that commit late are a hazard of tables that do not keep to it. Rows are not
deleted. Two variables record history for the properties: `unsaved` (polls
interrupted between enqueue and bookmark) and `unheard` (an announcement was lost
since the service started).

### ContainerPool

Docker's containers (`docker`) are shared; `idle` is the `idle` deque of each process
and `held` with `pc` its `in_use`: a worker acquires and releases, the scheduler runs
`_replenish_loop` and `_health_check_loop`, the API process scales. A container is its
number in `sinas-sandbox-<n>`: a process finds a free name in what *it* knows
(`FreeName`), and creating a container removes whatever squats on the name. That is
how separate pools share containers: the workers' pools are only filled by discovery
when they start, what they destroy the scheduler's health check finds missing and the
replenisher creates again under the lowest name free to it.

An execution is `waiting`, `waiting again` (all idle ones it looked at were dead),
`held`, `returned` or `raised` (before its release), `destroying` (under the condition's
lock, Docker at work), `leaked` or `over`. `leaked` is `execute_code`: it calls
`container_pool.release`, a coroutine function, through `asyncio.to_thread` and
awaits only the creation of the coroutine, so the container stays in `in_use`.
`maker` is the place of each creator (the replenisher, each scale request), `room` how many
it may still create, counted once before its loop. `Created` and `AddIdle` are two
steps: in between the name is in none of the three sets.

The health check finds containers missing, stopped or not answering (`dead`) without the
lock; under the lock it then takes each out of the pool and destroys it (`purging`), whether
Docker errs or not, while the replenisher may be creating a container under that name.

### SharedWorkers

`docker` and `stopped` are the worker containers; `workers` the list each process keeps
and `turn` its round-robin index. An execution has a `row` with its `handle`
(`container_id`), and a job that is tried again: by arq after a crash or a shutdown
(`max_tries`), or from the dead letters, always under the same id (`Again`). `step` is where
the try is: `queued`, `loaded` (the row found or made), `counted` and `admitted` (the two
Redis commands of the admission), `placed`, `polling`, `leaving` (the finally clause of the
admission), `reporting` (before the commit of `outcome`), `over`. `seen` is the status that the try's
session loaded: it writes nothing when it sets the same one. A command of the admission may
fail or be interrupted (`RedisError`, `Cancel`), whether or not Redis did it, and a restart ends
the tries of its process (`Restart`). `client` is a request to `continue`, with its own session.

In the containers, `requests` and `files` are what lies in `/tmp` under the execution's id, for
a later try to meet; a request remembers its try. `threads` are all the threads that were
started for an execution, and `joined` those an executor loop waits for. A loop takes one request
at a time (`Begin`), and `JoinEnds` is where it stops waiting: a thread that is parked or
would not stop goes on without it, no result is written over an `awaiting_input`, and the
request is removed, a later try's in its place too. Losing a container (`Lost`) loses
threads and files; rows stay. Request and trigger file are one here: a trigger without its
request is removed by the loop.

### JobQueue

One job, as other jobs touch none of its keys. `status` and `result` are its two keys, `dlq` the
number of its entries in the dead letter queue, `arq` what arq knows of the id, `run` the
place of `execute_function_job` between two Redis commands (a run that is `dequeued` has its
first GET and SET before it, outside of any `try`: `EndsUntold`), `waiter` the place of
`enqueue_and_wait` with `inbox`, its subscription. A retry request reads an entry, removes
it (`lrem` by content: a request that read an entry removed meanwhile is `stale` and may
remove a later equal one), sets the status, enqueues under the same id: if arq
still knows the id, nothing is enqueued. arq itself is external: it runs a job again after
a crash, gives it up unseen over `max_tries`, and may or may not run one again that
raised.

### Conversation

`history` is the committed messages of a chat in their order; a message is its role and
the calls it announces or answers. A job (a message streamed or plain, an approval's resume
job) goes through `asking`, `replied`, `handle`, `tools`, `follow`, `followed`, each up to the next
commit. `Prompt` and `Invented` are `build_conversation_history`: the window, the
announcements prepended to it, the answers made up, the answers left out. A suspension
(`Delegation`) is a tool like any other here.

A failure in `send_message_stream` is saved as an assistant message; a client that goes
away leaves a partial message or none; a job whose worker dies is over (`max_tries = 1` for agents).
That the ids of calls differ (`Fresh`) is an assumption about the providers: for a call without an id
the adapters make up `call_<idx>` or `toolu_<idx>` (`providers/openai_provider.py:149`,
`providers/anthropic_provider.py:64`), the same in every reply, and then answers of different replies
are taken for each other.

### Files

`rows` and `recorded` are the committed `files` and `file_versions`, `stored` is the storage by path.
A request is one transaction; what it would commit is in `target` and `number`, and
`locks` are the rows it holds. Since a request creates one file at most, a file is named by its
creator, and a content by who brought it. An upload finds its file with
`SELECT ... FOR UPDATE` (`FindForUpdate`), a tool without (`FindFile`) and locks it when
it writes the row (`Update`). `Save` comes before `Commit` and `Remove` before
`DeleteCommits`. The unique indexes on names and on versions decide `Insert`
and `CommitFails`.

History variables: `raced` (files a tool wrote to with a number that was no longer the
next, or for which a commit failed), `listed` (what deletions set out to remove) and
`unremoved` (what of it a deletion could not remove). With two deletions of one file the
second finds the version listed although the first could not remove it, which is why the two
are kept apart.

### Packages

A row is `content` (who wrote it and which version), `owner` (`managed_by`), `sum`
(`config_checksum`) and `active`. `Hash` gives the checksum of a resource in a version of a
manager: one that tells the versions apart, except for a connector, whose checksum leaves out
its description (`resources.py:82-91`). A request (of `Session`) holds a transaction: it reads committed rows, what it changed is
`pending` until the next read flushes it into `writes` (one `Statement` for each row it wrote,
which lock their rows), and commit applies them, column by column as SQLAlchemy writes only the changed ones. An update
whose row has been deleted matches nothing and fails the transaction. A user's edit reads
the row and saves it later (`ReadForEdit`, `SaveEdit`), so that an apply may commit in
between; so does an import of operations (`SaveImport`), which does not detach. `Reclaimed` is what `should_skip_existing` does to an inactive row, in a dry run too;
a preview's session commits like any other (`core/database.py`).

History variables: `taken` (rows that changed their manager after their creation, as
connectors and inactive rows do), `imported` (marked connectors into which a user imported
operations) and `overlapped` (packages of which two requests were
under way at once).

### Connectors

`row` is the user's `connector_oauth_tokens` row. Refresh tokens are numbers in the order in which the
provider issued them; `rotated` are those it has replaced, `reused` those somebody presented
after that. A call reads the row in its own session (`GetToken`), takes the asyncio lock of its
process (`GetLock`), a second session (`OpenSession`), the row (`SelectForUpdate`), looks
again, asks the provider (`PostRefresh`, `PostRefused`, `NothingPosted`) and stores the answer
(`StoreToken`). Locks and connections are not variables: they follow from where the calls are
(`LockFree`, `RowFree`, `ConnectionFree`). A consent is begun, its state is taken out of Redis,
its code exchanged, and the row, read without a lock, is updated or inserted; `Stored` keeps the columns
that an answer without a new refresh token or a lifetime leaves alone. `orphaned` is a
history variable: tokens whose replacement was lost before it was committed.

## Runs

| Run | Checks | Shows |
|---|---|---|
| `delegation` | `CheckpointWaits`, `ResumeOnce`, `ResumeHasResults`, `CallsAnsweredOnce`, `OneTurn`, `ExecutionEndsLast`, `JoinSteps` | safety under one Redis error, one database error, one cancellation and one crash in the same behaviour |
| `delegation_join` | `JoinImplemented`, `ExecutionTerminates` | without infrastructure faults (agents still fail) the checkpoints implement `Join` with its liveness, and a batch child ends |
| `batch` | `PostedOnce`, `SummaryIsFinal`, `ToldOnce`, `NeverReopened`, `BatchEnds` | any two of the five faults, a cancel request, a paused child |
| `agent_slots` | `StarvedByDelegated`, `JobsEnd` | who can starve; that it ends |
| `cdc` | `OneTask`, `RepeatedOnlyIfUnsaved`, `ActiveIsPolled`, `BookmarkSteps`, `CatchesUp` | polling in pages against restarts of the task, of the service and one failure anywhere |
| `container_pool` | `HeldOnce`, `WithinMaximum`, `PoolRefills` | pools that do not know of each other, with a restart of any process and one Docker error |
| `shared_workers` | `CompletedRan`, `OneRunPerTry`, `SlotsHeld` | two tries of a job, an answer, and one scaling, reload, cancellation, Redis error, or loss of a container or process |
| `job_queue` | `CallerToldTruth`, `NoLostWakeup`, `DeadLetterIsDead` | a caller, two tries, two retries, a cancel, a flush, two faults |
| `conversation` | `AnswersFollowCalls`, `NothingRunsUnasked`, `AnsweredPerRound` | a message and two approvals of one chat, or two messages and one, over a window that cuts rounds |
| `files` | `ServedAsRecorded`, `CurrentIsLatest`, `ContentAccountedFor` | uploads, tools, a deletion and a reader that meet on one name, with one fault |
| `packages` | `ManagedAsShipped`, `MarkedAsRecorded` | three requests, two at once, against two steps of users |
| `connectors` | `TokensKept`, `CallsEnd` | refreshes in two processes against two consents, a disconnect, an exhausted pool and one fault |

`CHECK_DEADLOCK FALSE` everywhere: jobs end, and then nothing is left to do.

**Bounds.** `MCDelegation` has a root with two children, one of which has a child:
two siblings are enough for reports that race and for a count that goes wrong, a
grandchild for a suspended child and a resumed job that reports; `MaxIterations = 1`
lets a conversation suspend twice and meet the iteration limit; `MaxDepth = 2` makes
the depth refusal happen in none but the grandchild. `MaxStrikes = 1` lets each kind of
fault strike once, so up to four faults meet in a behaviour. `MCBatch` has two
children, the least that can race for the summary, `Tries = 2`, one resume for each
child, and `MaxFaults = 2`. `MCAgentSlots` has one slot in each queue, the smallest
and the worst for starvation, and a call at each depth up to 2. `MCCdc` has two rows
and pages of one, so that a page overflows; values up to 3, one for the first
bookmark and two above it; two tasks, the old one and the new; two updates, to
deactivate a trigger and activate it again; one request at a time and one fault of
any kind.

`MCContainerPool` has one worker: two pools
that know nothing of each other (worker and scheduler) and the API's are three already;
sizes 1 to 2, two executions in a container, so that recycling, the maximum and an empty
pool all happen; scaling to none and to two; one restart and one fault, a name that is taken
again while it is purged being one. The constraint `TwoAtMost` is that one of the three executions
never starts, as none has to: two functions recycle a container, a function and a code execution
meet the leak. `MCSharedWorkers` has two workers, one
reserved, so that a second try meets the first one's slot; a function that asks for input, the
one it calls, a second try of the first and one request to continue; targets 1 and 3 scale both
ways; `MaxEvents = 1`, as the tries need no event to meet each other. The constraint `TwoAtMost`
leaves out that the second try, the inner call and the request to continue all meet; each two of
them do.
`MCJobQueue` has two retry requests, the least that can meet, and two tries,
so that a try may fail, crash and be the last. `MCConversation` has two calls, one that needs
approval and one sequential, a window of three messages, so that it cuts between a call and
its answer, and searches one announcement only, so that a call is announced again; a chat
then has up to two rounds in each of three jobs and two faults. The constraint `ThreeAtMost` leaves out
that the plain message meets both approvals, which is the product of the two cases.
`MCFiles` has two writers that lock and two that do not,
so that each kind meets both, a private file and a shared one of the same name, and a quota
of two that a third upload meets. `MCPackages` has one
resource of each kind the code treats differently (a connector, an agent, a query, a store), two
versions, and three requests of which two may be under way, with symmetry between the two; the
connector of one package has the same checksum in both versions. The constraint `NotAllAtOnce`
leaves out that three requests and two edits meet while two requests are under way; each two
of the three do.
`MCConnectors` has two calls for a pool of two, so that a call that waits for the lock keeps
the connection which the call with the lock needs; a third call in another process, with which
they race for the row; two consents, so that the second finds a row or loses to the first; one
expiry, which every call may meet, and one fault.

**Fairness.** `Delegation`: weak fairness of each job's own steps: arq starts
queued jobs, and an awaited call returns or `job_timeout` stops it; which agent a
turn calls, and whether faults strike, is never forced. `Join` asks only that
answers come and that a due suspension is woken. `Batch`: the submission loop and
the jobs go on; nobody has to cancel a batch or answer a prompt. `AgentSlots`: arq
takes waiting jobs in turn when slots become free again and again (strong fairness
of `TakeSlot`); everything else is weakly fair, the give-up included, since a silent
stream always ends its reader's wait. `Cdc`: the poll tasks, the
listener and the start of the service go on (Docker restarts it); the API, the
owner of the table and faults need not. `ContainerPool`: the scheduler's two loops run
for ever; executions, administrators and restarts are never forced. `Connectors`: a call that was
made goes on, since the lock is released by whoever has it, the pool gives up after its timeout
and every request has one; nobody has to connect, and the provider decides what it
answers. `SharedWorkers`, `JobQueue`, `Conversation`, `Files` and `Packages` state no fairness and check
safety: their hazards are about who is told what, not about who is served.
Faults, timeouts of jobs and crashes are never fair.

`PoolRefills` is liveness under restarts and faults, which strike finitely often: from then
on enough containers exist.

## Known divergences

Met while modelling; each is in the models as the code does it, and the properties that pass
are stated so as to say what holds in spite of it.

- *Delegation.* `queue/agent_jobs.py:470` says all delegate results are persisted when the resume
  job runs. A Redis error after the checkpoint's commit makes a suspended call report a
  failure and, later, its outcome; `on_child_complete` decrements `remaining` for both, and the
  parent is resumed without a sibling's result. `ResumeHasResults` holds without such an error.
- *Delegation.* "The last one enqueues a delegate-resume job" (`models/pending_delegation.py:17`): the checkpoint is
  deleted and committed before the job is enqueued, and a crash or a Redis error in between loses
  the only wake-up. The parent then stays suspended; to `JoinSteps` that is a stutter.
- *Delegation.* `queue/agent_jobs.py:267` says a failed child must report back or its parent waits
  for ever. A child stopped by its job timeout reports to nobody.
- *Batch.* `docs-mint/platform/async-jobs.mdx` says running children of a cancelled batch complete
  naturally. Their rows are PENDING, so they are cancelled until their outcome overwrites that.
- *Batch.* The same page says the summary is posted when the last child terminates. It is not when
  that child was resumed after `input()`. It is posted twice when `cancel_batch` read `finished_at`
  before the last child claimed the batch and counts the children after it: it then makes the
  finished batch CANCELLED and posts once more. `PostedOnce` speaks of batches that nobody cancels.
- *AgentSlots.* `queue/worker.py:375` says blocked parents can never starve their children. Delegated
  parents can, of the sub-agent queue's slots; `StarvedByDelegated` says that no one else can.
- *Cdc.* `docs-mint/triggers/database-triggers.mdx` says only the data that exists on first activation is
  not delivered. The first poll of an empty table saves NULL, so the next is a first poll again
  and moves the bookmark past what was written meanwhile; `BookmarkSteps` speaks of set bookmarks.
- *ContainerPool.* `docs-mint/admin/system.mdx:50` says scaling down never interrupts running executions.
  The API process removes what is idle in its own pool, whoever else uses it; discovery
  likewise takes containers that others use for idle. `HeldOnce` is about one process.
- *ContainerPool.* `execute_code` never releases its container (above).
- *SharedWorkers.* Functions are not protected against running twice: every try of a job sends its request
  again (`services/execution_engine.py:284` takes the row of an earlier try as its own), so a function
  whose worker crashed, or whose poll timed out, may run twice, at the same time too.
  `OneRunPerTry` says that one try does not start it twice. A later try may also find the result
  file of an earlier one and report it as its own, be refused as saturated because of the slot
  its crashed try left, or have its request removed when the earlier thread is joined.
- *SharedWorkers.* The `zrem` in the admission's finally clause (`services/shared_admission.py:73`) may fail: the
  execution is then failed although its function completed, and its slot stays for an hour, in
  a process that lives. `SlotsHeld` counts such slots as `abandoned`.
- *SharedWorkers.* Scaling down means to spare workers with paused executions, but compares names with
  handles that carry a role prefix: none is ever spared.
- *SharedWorkers.* `services/executor/_docker_resume.py:66` polls "for the result the parked function
  produces". It polls the file that `input()` itself wrote when it paused; nothing removes that
  file on resume and the executor writes no final result over it, so an answered function is
  reported as awaiting input again and its value never arrives.
- *Connectors.* `services/connector_service.py:566` says that calls which wait for a refresh hold no
  database connection. Each holds that of the session it came with, in whose transaction it read
  the token; a fan-out of as many calls as the pool is large leaves none for the refresh: that
  call fails by the pool's timeout and frees a connection for the next one. `CallsEnd` says that all end.
- *JobQueue.* "Re-enqueue with a new job ID" (`services/queue_service.py:540`) enqueues under the same
  id, and silently not at all while arq keeps the old result.
- *JobQueue.* A job whose last try crashed is given up by arq without a dead letter or a message; only
  the caller's timeout ends its wait. `NoLostWakeup` has `unheard` for it.
- *JobQueue.* `queue/worker.py:198` means to "ensure job status is always updated so it doesn't stay
  running forever". The GET and the SET of `running` (lines 74 and 94) precede the `try`: an error or a
  cancellation there ends the job with no message and no dead letter, and its status may say
  `running` until its key expires. `unheard` covers this too.
- *Conversation.* `requires_approval` is documented as "Require user approval when called by an
  agent" (`docs-mint/build-resources/functions.mdx:19`). Approving one call of a reply runs all calls of
  the reply (`queue/agent_jobs.py:406`), those still pending or rejected included. What does hold is
  `NothingRunsUnasked`: none runs before at least one of them was approved.
- *Conversation.* The job of an approval starts at depth 0, so every approval grants a full
  `max_tool_iterations` again. `_stream_followup_after_tools` builds its prompt from the rows without the
  repairs of `build_conversation_history`: a call of another turn that has no answer stays without.
- *Conversation.* The repairs are there so that "the LLM provider doesn't reject the history"
  (`services/conversation_history.py:163-164`). They do not ask where an answer is, or how many there
  are: a call approved after another message leaves call, message, answer, which is sent as it is; two
  approvals of one reply leave two answers; a call announced a second time, because its
  announcement was not among the latest ten, stays twice. A call put before the window whose own answer lies
  before it too is said to be "interrupted or timed out" (line 179) though it was answered. An answer
  behind another message at the start of the window, its call before it, is left out. `AnswersFollowCalls`
  states what does hold.
- *Files.* `docs-mint/storage/collections.mdx` says previous versions are preserved, and
  `api/runtime/endpoints/files.py:460` that the storage path is unique per version. An agent's write
  counts its version from a row it did not lock: if another write or upload commits that version
  first, the content of that version is replaced, then the insert of the second record is
  refused, and the clean-up removes the content. `ServedAsRecorded` says that nothing else
  but a failed commit does this.
- *Files.* An edit by an agent writes back what it read at an earlier version, so that an
  upload in between is undone. The quota is read before the filter runs and without a lock, and
  tools do not look at it. Deleting a collection leaves the contents of its files.
- *Packages.* `docs-mint/admin/config-manager.mdx:44` says resources created manually are not overwritten.
  Active rows without a manager are.
- *Packages.* A preview takes over inactive rows, and its session commits that. Installing claims
  connectors that users made, and uninstalling then deletes them. An uninstall that overlaps
  an upgrade leaves marked rows without a record. An edit of a row that the *configuration* manages
  keeps its checksum, so the next apply takes it for unchanged.
- *Packages.* "Call this in update endpoints before modifying fields", says `detach_if_package_managed`
  (`services/package_service.py:58`). `import_openapi` does not
  (`api/v1/endpoints/connectors.py:344`): what a user imports into a package's connector stays under
  the package's mark and checksum, is overwritten by an upgrade and deleted by an uninstall.
  `ManagedAsShipped` sets such connectors (`imported`) apart.
- *Packages.* An upgrade that changes only the description of a connector is passed over, its
  checksum being the same. `MarkedAsRecorded` is about checksums for this reason. An update of a function
  whose `sharedPool` or `requiresApproval` is left open keeps the old value under the new checksum
  (`resources.py:368-371`); a content is one value here, so this is not modelled, nor is the order
  in an agent's lists, which its checksum leaves out.

## Proofs

All of these hold for every value of the constants that satisfies the named
assumptions of the modules: `TreeAssumption` (a finite set of calls that form a tree by
`Parent` and `Depth`) and `BoundAssumption`; `BatchAssumption`; `SlotsAssumption`;
`CdcAssumption`; `PoolAssumption`; `SharedAssumption`; `QueueAssumption`;
`ConversationAssumption`; `FilesAssumption` (the kinds of requests are disjoint);
`ConnectorsAssumption`; `PackagesAssumption` (an uninstall looks into the table of every resource;
a checksum tells the versions of a resource apart unless it is a connector).
`JobsProofs` is about two components and `ResourcesProofs` about three, which share nothing
but the subject.

*Delegation.* `ResumeOnce` is not inductive: it needs to know that whoever is about
to enqueue a resume is alone and has not done it before. `IInv` adds: a job that has
not ended its turn has no suspension yet (`NotYet`); a call belongs to one suspension
(`OneAsker`), so a report finds the row it means; a call has no job before its
suspension enqueues it (`NotEnqueued`); the job that deleted a row is the only one to
wake its conversation (`OneWaker`); a resume job exists only once resumed (`NotResumed`).
`CheckpointWaits` bounds `left` by the size of `pend`; a report that arrives twice
decrements twice and keeps the bound, which is why it holds under all faults while
`ResumeHasResults` does not. `IInvNext` has a lemma for each step that touches
these (`MoveKeeps` for all that only move a job on, `DelegatesKeeps`,
`EnqueueChildKeeps`, `ReportKeeps`, `EnqueueResumeKeeps`).

The other half says who is *in charge* of each call (`CInv`, theorem `Charges`). A job that has
not handed its call over, a checkpoint that waits, or a job about to wake the conversation:
`OneInCharge` says there is one of them at most, `ChargeIsPending` that while there is one
some checkpoint waits for the call, `Counted` that `remaining` is the number of pending
calls and that the row exists as long as it is not zero, `Persisted` that whatever is no longer
pending has its result saved. This is `Orderly`, and it stands until a Redis call raises: such
an error lets a call report twice, hence the premise `Quiet({"redis"})` in the properties.
`ResumeHasResults`, `ExecutionEndsLast` and `JoinSteps` follow. `InTurns`, under every fault,
orders the jobs of a conversation and gives `OneTurn`. `NoneForgotten` is the converse of
`OneInCharge`, somebody is in charge of every pending call, and stands until any fault strikes;
with it `CallsAnsweredOnce`. `JoinKept` proves `JoinSteps` as the run checks it;
`JoinRefined` proves, where Redis calls do not raise, the whole safety part of `Join`, initial
states included. Its liveness stays with the run `delegation_join`.

*Batch.* `OneClaim`: until the batch is cancelled nothing is posted before
`finished_at` is set, and at most one child has won the compare-and-set and not
posted. `NeverReopened` is an action property and follows step by step from the
guards of `Bump`, `Claim` and `CancelWrite` (`RowNext`). `SummaryIsFinal` compares what a summary
said with what the rows end with. Between the two counts of a child other children
commit, so the invariant (`Agreement`) ties each row to the place of its job (`RowAgrees`), and says that
from the second count on nothing is pending (`CountsStand`): no row can change, so the count
stands. A cancel or a second run takes that away, and the property excludes them (`Calm`).
`ToldOnce` needs less (`TellsOnce`).

*AgentSlots.* `AwaitsChildren`: a job waits only for calls it was allowed to make. A
starved queue holds parents whose queued child is one level deeper and in the same
queue; with the sub-agent queue that excludes users' messages, and the depth bound
excludes the deepest. With a bound of one level no one is left
(`OneLevelNeverStarves`), and as a queue has at least one slot it is not starved.

*Cdc.* The invariant has three parts. `Polling`: a live task is the registered one and
nothing is registered while the service is down (`OneTask`). `Pages`: a task between its
query and its bookmark holds the complete page above the bookmark it loaded, which
is the row's bookmark still, because no other task can save; and once it has
enqueued, the function was called with all of it. `BookmarkSteps` follows from these for
the two steps that save. `Repeats`: a version above the bookmark was called at most
`unsaved` times, so that one more call keeps the bound. All of it rests on one writer of
the bookmark, which is why `Polling` comes first. `ActiveIsPolled` needs to know what would start
a task for an active trigger that has none: `Owed` says that the request that activated it is yet
to announce it, or the announcement is on its way. `RemovalAsked`: a removal on its way is that of
a deletion still to be committed, or committed, unless one failed, which counts as unheard.

*ContainerPool.* `WithinMaximum` speaks of Docker, but each process counts only what it
knows. `Budget` joins the two: what a maker may still create (`room`) and what it is creating
fit, with what its process knows, below the maximum. Since the lowest free number is at
most one above the number of containers known (`FreeNumber`, a pigeonhole on finite sets,
and `FreeNameBound`), every name a maker takes is within the maximum. Makers live in
processes that execute nothing (`NothingInUse`), so that only idle containers and those
being created count there. With `TypeOK` and the finiteness of `docker` this is
inductive; there is one lemma for each action. Two scale requests at once may together exceed
the maximum, each with a count of its own, hence `OneRequest` in the property.
`HeldOnce` is about one process: what it has idle, what its executions hold and what its
maker is about to add are different containers (`Apart`). The deque is a sequence, so
the lemmas are about what is left of one when elements are taken out or appended, each
by what it keeps (`SubSeqPart`, `RemovePart`, `AppendPart`). Two makers of one process could take
the same free name, hence `OneRequest` again.

*SharedWorkers.* The invariant adds to the three properties what relates a try to what it
left in a container. `Sent`: no request and no thread has a later try than the job has had, and
one that has not sent has neither. `Awaited`: a try has one request, and while that is
there after its thread was started, the executor of that container waits for the thread, so that
the request is not taken again. `Told`: a result file, a try or a request to continue that
says completed belongs to an execution of which some thread returned. `Admission`: only gated
executions meet the admission. Threads only go on (`GoOn`): none is started, forgotten or takes back that it
returned, except by `Begin` (`BeginKeeps`). There is a lemma for each kind of step:
those of the backend (`BackendKeeps`, `SlotKeeps`), of the container (`StepKeeps`), and the loss
of containers, which only forgets (`LosingKeeps`).

*JobQueue.* `Told` traces each way a caller can be told something back to a function that
returned, or to a cancellation: the status, the stored result, the message in its inbox.
`Woken`: a run announces its outcome before it ends. `Dead`: a dead letter is written by the
last run only, a retry request finds it only while it is there, and nothing exists before
the caller enqueued. The
parts are proved one by one (`ToldStep`, `WokenStep`, `DeadStep`) over `Typed`.

*Conversation.* `NothingRunsUnasked` needs to know whose reply a running call belongs to.
`Alike`: a call is announced with the same other calls everywhere, in the history and in
the hands of a job. `Cleared`: the tools a job runs belong to a reply that needs no approval
or has a granted call. `Decided`: an approval request that has
committed and will resume has granted its call.
`RanAnnounced` and `RanCleared` say of what ran before what these say of the present.
`AnsweredPerRound` counts: a call's answers and the rounds that still owe it one are
together no more than the rounds it was handled in (`Tally`); and in a round whatever is
no longer to do has an answer (`AnsweredSoFar`). `AnswersFollowCalls` needs of the history only that
an answer comes after its call (`AnswersFollow`). The rest is about
`build_conversation_history` as an operator: the window, what is prepended, made up and left
out, for every window and history.

*Files.* Nothing but the lock of a file's row stands between two writers, so the invariant
(theorem `FilesInductive`) says who has it. `LockedOnce`: a row has one lock. `AboutOf`: a request about to save has the row
locked, or is about to create it, and its number is the next one, or the file is raced for.
`Unborn`: nobody but its creator knows a file before its row is committed. Hence `NewPath`: to
save overwrites no recorded content, unless it races. `Kept`: a recorded version has its content
in the storage, or a deletion listed it. Deletions remove what they listed while they
hold no lock, and a tool may record a version in between: `Known` is what survives of
a version then. `CurrentIsLatest` is `Numbered`, record by record; `ContentAccountedFor` is
`Mine` with `Recorded`. The invariant was also checked on an instance with two deletions and
two faults, where `listed` alone, without `unremoved`, is too weak.

*Connectors.* `Held`: one call at a time is between `SELECT ... FOR UPDATE` and its commit, and
the token it read is the one in the row. `OnItsWay`: a new refresh token, with a call or a
consent, is one the provider still takes, is not in the row and is on its way once. So
whoever presents a token presents the row's, which is not spent, or one whose replacement
was lost (theorem `TokensInductive`). The lock in the process plays no part in it.

*Packages.* The invariant (theorem `PackagesInductive`) is about what a request has read or sent
and the committed row it is about. `Rightful`: an update of a marked row that does not claim it is
by the mark's own manager and sets contents and checksum together, or neither; for a connector,
whose checksum may be that of another version, because an active one with that checksum is
skipped (`BothOrNeither`, and `RowSound`: a marked connector is active). It stays true
while others commit (`ShiftKeeps`): a mark may come off, but for a
mark to come on a row is claimed, and then `taken`, or deleted and made anew, and then the
update is lost. `RowSound`: a marked row holds what has its checksum, or an import. `WrittenOnce`: a row has one lock. `EditsSound`: what a user edits under a mark was read
with it, so that saving takes it off. `RowSound`, and with it `ManagedAsShipped`, follows row by row from what a commit does
to each (`SavedRow`). For `MarkedAsRecorded`, `Passes` says what a request owes the marked rows
it has passed: an uninstall their deletion, an install its version's checksum, present or about to
be written. When it commits it has passed them all (`CommittedRow`). It needs the request to be the
only one about its package (`OneAlone`), so that what it knows of the package's record is still so.
The invariant was also checked on an instance that ships a connector twice, under one checksum in both versions.

*Only model-checked*: liveness (`ExecutionTerminates`, `JoinImplemented`, `BatchEnds`,
`JobsEnd`, `CatchesUp`, `PoolRefills`, `CallsEnd`), since neither fairness nor ENABLED is within
TLAPS's backends. Recursive
operators and induction over data, also beyond the provers, are not used.

## What is left out

- What an LLM turn says, which tools exist and what they do; hooks that rewrite contents; the
  compaction of contexts and the tool result store.
- Requests that validation or permissions turn away: they change nothing.
- Two calls that continue the same sub-chat (`_chat_id`): `Conversation` has two jobs of one
  chat, `Delegation` has the calls, and no module has both.
- Sandbox and worker images, package installation, networks; Docker errors while workers are
  scaled down; `reload_packages` and `shutdown` of the sandbox pool.
- Secrets, dependencies, roles, users, providers and connections of a configuration, the
  `is_default` of agents (setting it on one clears it on the others, whoever manages them), which
  resource types a package skips.
- The deletion of a collection, metadata edits, post-upload functions, and a file that is
  deleted while its upload reads the row again after its commit.
- The expiry of status and result keys; listings and statistics of the queue.
- Of the hazards met, these have no property and are not modelled: the build lock of
  `services/sandbox_image.py:136`, which expires during a long build and is deleted without asking
  who holds it; rows with equal poll columns at a page's edge (`cdc/service.py:245`); an approval
  that is committed and whose job is lost (`api/runtime/endpoints/chats.py:761`, in the model as a
  fault); a submission loop that fails half-way (`services/batch_service.py:117`, likewise).
- Of connectors, the other kinds of authorization and their cache, the retries of the request, the
  cookie that binds a consent to a browser, and the connections that API requests hold.
- States: single statements.
- The scheduler's own job reloads; permissions, HTTP and the console: input and output
  around the parts above.
- `cancel_job` of an agent job: it only overwrites the job's status in Redis.
- A trigger's `error_message`, the payload of its calls, and updates of its poll column,
  page size or function.
- Job ids, stream contents, tokens, traces, timings, callback responses.
- An ORM session writes a column only when the value differs from the one it
  loaded; `Batch` writes always. The two differ only when a job that is run again
  loaded a terminal status that `cancel_job` changes before the job commits.

## Plan

1. `Packages` for one request at a time as a refinement of an abstract owner for each row.
2. Collections deleted under uploads.
3. Sub-chats reused by several calls: `Conversation` composed with `Delegation`.
4. The sandbox image's build lock; the scheduler's reloads on notification.
