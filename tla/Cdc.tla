-------------------------------- MODULE Cdc ---------------------------------
(***************************************************************************)
(* Change data capture for one database trigger.  The CDC service runs a   *)
(* poll task for it: load the trigger, fetch the rows above its bookmark,  *)
(* enqueue one function execution for them, save the new bookmark, sleep.  *)
(* The API changes the trigger's row and announces that over Redis         *)
(* pub/sub; the service's listener restarts or removes the poll task.      *)
(*                                                                         *)
(*   cdc/service.py                     CDCManager, main and the listener  *)
(*   api/v1/endpoints/database_triggers.py  create, update, delete         *)
(*   services/config_apply/             triggers of a configuration        *)
(*                                                                         *)
(* The watched table belongs to somebody else.  Its poll column only       *)
(* increases, as the documentation asks: every write draws a new value.    *)
(* What the service does to one trigger does not depend on the others.     *)
(***************************************************************************)
EXTENDS Integers, Sequences, FiniteSets

CONSTANTS
    Row,            \* the rows of the watched table
    Task,           \* identities of poll tasks
    BatchSize,      \* database_triggers.batch_size
    MaxValue,       \* bound: the values of the poll column
    MaxRequests,    \* bound: requests to the API at a time
    MaxUpdates,     \* bound: how often the trigger is changed
    MaxFaults       \* bound: how often something fails

ASSUME CdcAssumption ==
    /\ IsFiniteSet(Row) /\ IsFiniteSet(Task) /\ Task # {}
    /\ BatchSize \in Nat \ {0}
    /\ MaxValue \in Nat /\ MaxRequests \in Nat /\ MaxUpdates \in Nat /\ MaxFaults \in Nat

None == 0                       \* SQL's NULL, no row, no task value
Value == 1..MaxValue
Version == Row \X Value         \* a row as some write left it

VARIABLES
    table,      \* the poll column of each row, None if there is no such row
    last,       \* the value the poll column was given last
    trigger,    \* the trigger's row: absent, active, inactive or deleted
    bookmark,   \* database_triggers.last_poll_value
    asked,      \* changes of the trigger whose requests are not over
    channel,    \* messages on their way to the listener
    service,    \* down, starting, on, or deaf: polling without a listener
    registered, \* the trigger's entry in _poll_tasks, if any
    task,       \* each poll task: its place, the bookmark it loaded or will
                \* save, the rows it fetched
    calls,      \* how many executions were enqueued for each row version
    unsaved,    \* how many enqueued batches lost their bookmark
    unheard,    \* whether the service, since it started, missed a change
    updates, faults

db == <<table, last>>
row == <<trigger, bookmark>>
poller == <<registered, task>>
seen == <<calls, unsaved>>
vars == <<db, row, asked, channel, service, poller, seen, unheard, updates, faults>>

Change == {"add", "update", "remove", "reload"}
Task_PC == {"none", "polling", "reading", "initialising", "enqueueing",
            "saving", "sleeping"}
PollTask == [pc : Task_PC, mark : Value \cup {None}, rows : SUBSET Version]

TypeOK ==
    /\ table \in [Row -> Value \cup {None}] /\ last \in Value \cup {None}
    /\ trigger \in {"absent", "active", "inactive", "deleted"}
    /\ bookmark \in Value \cup {None}
    /\ asked \subseteq Change /\ channel \in Seq(Change)
    /\ service \in {"down", "starting", "on", "deaf"}
    /\ registered \in SUBSET Task
    /\ task \in [Task -> PollTask]
    /\ calls \in [Version -> Nat]
    /\ unheard \in BOOLEAN
    /\ unsaved \in Nat /\ updates \in Nat /\ faults \in Nat

\* A task that has loaded nothing.
At(place) == [pc |-> place, mark |-> None, rows |-> {}]

Init ==
    /\ table = [r \in Row |-> None] /\ last = None
    /\ trigger = "absent" /\ bookmark = None
    /\ asked = {} /\ channel = <<>> /\ service = "down"
    /\ registered = {} /\ task = [t \in Task |-> At("none")]
    /\ calls = [x \in Version |-> 0]
    /\ unsaved = 0 /\ unheard = FALSE
    /\ updates = 0 /\ faults = 0

Live(t) == task[t].pc # "none"
Strike == faults < MaxFaults /\ faults' = faults + 1

-----------------------------------------------------------------------------
(* The watched table.                                                      *)

Write(r) ==
    /\ last < MaxValue
    /\ last' = last + 1
    /\ table' = [table EXCEPT ![r] = last + 1]
    /\ UNCHANGED <<row, asked, channel, service, poller, seen, unheard, updates, faults>>

-----------------------------------------------------------------------------
(* The API.  Create and update commit, then announce; delete announces,    *)
(* then commits.                                                           *)

\* redis.publish reaches the listener only if it has subscribed.
Publish(a) ==
    /\ channel' = IF service = "on" THEN Append(channel, a) ELSE channel
    /\ unheard' = IF service = "on" THEN unheard ELSE TRUE

Ask(a) ==
    /\ a \notin asked /\ Cardinality(asked) < MaxRequests
    /\ asked' = asked \cup {a}

Create ==
    /\ trigger = "absent"
    /\ trigger' = "active"
    /\ Ask("add")
    /\ UNCHANGED <<db, bookmark, channel, service, poller, seen, unheard, updates, faults>>

Update(activity) ==
    /\ trigger \in {"active", "inactive"}
    /\ updates < MaxUpdates /\ updates' = updates + 1
    /\ trigger' = activity
    /\ Ask("update")
    /\ UNCHANGED <<db, bookmark, channel, service, poller, seen, unheard, faults>>

ConfigApply(activity) ==
    /\ trigger # "deleted"
    /\ updates < MaxUpdates /\ updates' = updates + 1
    /\ trigger' = activity
    /\ Ask("reload")
    /\ UNCHANGED <<db, bookmark, channel, service, poller, seen, unheard, faults>>

Announce(a) ==
    /\ a \in asked /\ a # "remove"
    /\ Publish(a)
    /\ asked' = asked \ {a}
    /\ UNCHANGED <<db, row, service, poller, seen, updates, faults>>

\* The publish raises, after the commit.
AnnounceRaises(a) ==
    /\ a \in asked /\ a # "remove"
    /\ Strike
    /\ asked' = asked \ {a} /\ unheard' = TRUE
    /\ UNCHANGED <<db, row, channel, service, poller, seen, updates>>

Delete ==
    /\ trigger \in {"active", "inactive"}
    /\ Publish("remove")
    /\ Ask("remove")
    /\ UNCHANGED <<db, row, service, poller, seen, updates, faults>>

DeleteCommits ==
    /\ "remove" \in asked
    /\ trigger' = "deleted"
    /\ asked' = asked \ {"remove"}
    /\ UNCHANGED <<db, bookmark, channel, service, poller, seen, unheard, updates, faults>>

DeleteRaises ==
    /\ "remove" \in asked
    /\ Strike
    /\ asked' = asked \ {"remove"} /\ unheard' = TRUE
    /\ UNCHANGED <<db, row, channel, service, poller, seen, updates>>

-----------------------------------------------------------------------------
(* Poll tasks.                                                             *)

Become(t, state) == task' = [task EXCEPT ![t] = state]
Goto(t, place) == task' = [task EXCEPT ![t].pc = place]

\* The trigger is loaded afresh in each iteration; a task whose trigger is
\* gone or inactive ends and stays in _poll_tasks.
Load(t) ==
    /\ task[t].pc = "polling"
    /\ Become(t, IF trigger = "active" THEN [At("reading") EXCEPT !.mark = bookmark]
                                       ELSE At("none"))
    /\ UNCHANGED <<db, row, asked, channel, service, registered, seen, unheard,
                   updates, faults>>

\* First poll: SELECT MAX(poll_column), which of an empty table is NULL.
ReadMax(t) ==
    /\ task[t].pc = "reading" /\ task[t].mark = None
    /\ \E top \in Value \cup {None} :
        /\ top = None \/ \E r \in Row : table[r] = top
        /\ \A r \in Row : table[r] <= top
        /\ Become(t, [At("initialising") EXCEPT !.mark = top])
    /\ UNCHANGED <<db, row, asked, channel, service, registered, seen, unheard,
                   updates, faults>>

\* Wrong: >= instead of >.
NewerOrSame(value) == {<<r, table[r]>> : r \in {r \in Row : table[r] >= value}}

Newer(value) == {<<r, table[r]>> : r \in {r \in Row : table[r] > value}}

\* Wrong: LIMIT without ORDER BY.
IsAnyPage(rows, all) ==
    /\ rows \subseteq all
    /\ IF Cardinality(all) <= BatchSize THEN rows = all
                                        ELSE Cardinality(rows) = BatchSize

\* ORDER BY poll_column LIMIT batch_size.
IsPage(rows, all) ==
    /\ rows \subseteq all
    /\ IF Cardinality(all) <= BatchSize THEN rows = all
                                        ELSE Cardinality(rows) = BatchSize
    /\ \A x \in rows, y \in all \ rows : x[2] <= y[2]

Fetch(t) ==
    /\ task[t].pc = "reading" /\ task[t].mark # None
    /\ \E rows \in SUBSET Newer(task[t].mark) : \E top \in {x[2] : x \in rows} :
        /\ IsPage(rows, Newer(task[t].mark))
        /\ \A x \in rows : x[2] <= top
        /\ Become(t, [pc |-> "enqueueing", mark |-> top, rows |-> rows])
    /\ UNCHANGED <<db, row, asked, channel, service, registered, seen, unheard,
                   updates, faults>>

FetchNothing(t) ==
    /\ task[t].pc = "reading" /\ task[t].mark # None
    /\ Newer(task[t].mark) = {}
    /\ Become(t, At("sleeping"))
    /\ UNCHANGED <<db, row, asked, channel, service, registered, seen, unheard,
                   updates, faults>>

CallFunction(rows) ==
    calls' = [x \in Version |-> IF x \in rows THEN calls[x] + 1 ELSE calls[x]]

Enqueue(t) ==
    /\ task[t].pc = "enqueueing"
    /\ CallFunction(task[t].rows)
    /\ Goto(t, "saving")
    /\ UNCHANGED <<db, row, asked, channel, service, registered, unsaved,
                   unheard, updates, faults>>

\* UPDATE ... WHERE id = trigger_id, which a deleted trigger ignores.
SaveBookmark(t) ==
    bookmark' = IF trigger = "deleted" THEN bookmark ELSE task[t].mark

Save(t) ==
    /\ task[t].pc \in {"initialising", "saving"}
    /\ SaveBookmark(t)
    /\ Become(t, At("sleeping"))
    /\ UNCHANGED <<db, trigger, asked, channel, service, registered, calls,
                   unsaved, unheard, updates, faults>>

Wake(t) ==
    /\ task[t].pc = "sleeping"
    /\ Become(t, At("polling"))
    /\ UNCHANGED <<db, row, asked, channel, service, registered, seen, unheard,
                   updates, faults>>

\* Wrong: an error ends the loop.
PollRaisesAndEnds(t) ==
    /\ task[t].pc \in Task_PC \ {"none", "sleeping"}
    /\ Strike
    /\ Become(t, At("none"))
    /\ UNCHANGED <<db, row, asked, channel, service, registered, seen, unheard, updates>>

\* Any call may raise, before or after it took effect; the task backs off
\* and polls again.
PollRaises(t) ==
    /\ task[t].pc \in Task_PC \ {"none", "sleeping"}
    /\ Strike
    /\ \/ /\ unsaved' = IF task[t].pc = "saving" THEN unsaved + 1 ELSE unsaved
          /\ UNCHANGED <<bookmark, calls>>
       \/ /\ task[t].pc = "enqueueing"
          /\ CallFunction(task[t].rows) /\ unsaved' = unsaved + 1
          /\ UNCHANGED bookmark
       \/ /\ task[t].pc \in {"initialising", "saving"}
          /\ SaveBookmark(t)
          /\ UNCHANGED <<calls, unsaved>>
    /\ Become(t, At("sleeping"))
    /\ UNCHANGED <<db, trigger, asked, channel, service, registered, unheard, updates>>

-----------------------------------------------------------------------------
(* The service.                                                            *)

\* The tasks of S are cancelled and awaited, in the second form before a new
\* one is started.
Cancel(S) ==
    /\ task' = [t \in Task |-> IF t \in S THEN At("none") ELSE task[t]]
    /\ registered' = {}

\* Wrong: the old task is replaced in _poll_tasks but not cancelled.
RestartBeside(S) ==
    LET new == CHOOSE t \in Task : ~Live(t)
    IN  /\ task' = [task EXCEPT ![new] = At("polling")]
        /\ registered' = {new}

Restart(S) ==
    LET new == CHOOSE t \in Task : t \in S \/ ~Live(t)
    IN  /\ task' = [t \in Task |-> IF t = new THEN At("polling")
                                   ELSE IF t \in S THEN At("none") ELSE task[t]]
        /\ registered' = {new}

Interrupted(S) ==
    unsaved' = unsaved + Cardinality({t \in S : task[t].pc = "saving"})

Boot ==
    /\ service = "down"
    /\ service' = "starting" /\ unheard' = FALSE
    /\ IF trigger = "active" THEN Restart({})
                             ELSE UNCHANGED poller
    /\ UNCHANGED <<db, row, asked, channel, seen, updates, faults>>

Subscribe ==
    /\ service = "starting"
    /\ service' = "on"
    /\ UNCHANGED <<db, row, asked, channel, poller, seen, unheard, updates, faults>>

\* Wrong: a trigger with an entry in _poll_tasks is not restarted.
HearIfNew ==
    /\ service = "on" /\ channel # <<>>
    /\ Interrupted(IF Head(channel) = "remove" THEN registered ELSE {})
    /\ CASE Head(channel) = "remove" -> Cancel(registered)
         [] Head(channel) # "remove" /\ registered = {} -> Restart({})
         [] OTHER -> UNCHANGED poller
    /\ channel' = Tail(channel)
    /\ UNCHANGED <<db, row, asked, service, calls, unheard, updates, faults>>

\* handle_trigger_change; reload() raises NameError and ends the listener.
Hear ==
    /\ service = "on" /\ channel # <<>>
    /\ IF Head(channel) = "reload"
         THEN /\ service' = "deaf" /\ channel' = <<>>
              /\ UNCHANGED <<poller, unsaved>>
         ELSE /\ Interrupted(registered)
              /\ IF Head(channel) = "remove"
                   THEN Cancel(registered)
                   ELSE Restart(registered)
              /\ channel' = Tail(channel)
              /\ UNCHANGED service
    /\ UNCHANGED <<db, row, asked, calls, unheard, updates, faults>>

\* get_message raises: nothing restarts the listener.
ListenerRaises ==
    /\ service = "on"
    /\ Strike
    /\ service' = "deaf" /\ channel' = <<>>
    /\ UNCHANGED <<db, row, asked, poller, seen, unheard, updates>>

\* SIGTERM or the death of the process, which is started again.
Stop ==
    /\ service # "down"
    /\ Strike
    /\ service' = "down" /\ channel' = <<>>
    /\ Interrupted(Task)
    /\ Cancel(Task)
    /\ UNCHANGED <<db, row, asked, calls, unheard, updates>>

-----------------------------------------------------------------------------

Poll(t) ==
    \/ Load(t) \/ ReadMax(t) \/ Fetch(t) \/ FetchNothing(t)
    \/ Enqueue(t) \/ Save(t) \/ Wake(t)

Api ==
    \/ Create \/ Delete \/ DeleteCommits \/ DeleteRaises
    \/ \E activity \in {"active", "inactive"} : Update(activity) \/ ConfigApply(activity)
    \/ \E a \in Change : Announce(a) \/ AnnounceRaises(a)

Main == Boot \/ Subscribe \/ Hear

Next ==
    \/ \E r \in Row : Write(r)
    \/ \E t \in Task : Poll(t) \/ PollRaises(t)
    \/ Api
    \/ Main \/ ListenerRaises \/ Stop

Fairness ==
    /\ \A t \in Task : WF_vars(Poll(t))
    /\ WF_vars(Main)

Spec == Init /\ [][Next]_vars /\ Fairness

-----------------------------------------------------------------------------
(* Properties.                                                             *)

\* One poll task runs, and it is the one the service can cancel: restarts,
\* removals and tasks that end by themselves never leave a second one.
OneTask == \A t \in Task : Live(t) => registered = {t}

\* An execution is enqueued again for the same version of a row only if the
\* poll that enqueued it was interrupted before it saved its bookmark.
RepeatedOnlyIfUnsaved == \A x \in Version : calls[x] <= unsaved + 1

\* Once the listener has caught up with the API, an active trigger is polled
\* by some task, if no announcement was lost since the service started:
\* activation must not be lost to a task that ends because of a past one.
ActiveIsPolled ==
    service = "on" /\ channel = <<>> /\ asked = {} /\ ~unheard =>
        (trigger = "active" => \E t \in Task : Live(t))

Passed(from, to) == {r \in Row : from < table[r] /\ table[r] <= to}
Delivered(r) == calls[<<r, table[r]>>] > 0

\* The bookmark only grows, and never past a row the function was not called
\* with, whatever is stopped or fails between the two commits.
BookmarkSteps ==
    [][bookmark # None /\ bookmark' # bookmark =>
        /\ bookmark < bookmark'
        /\ \A r \in Passed(bookmark, bookmark') : Delivered(r)]_vars

Removing == "remove" \in asked \/ \E i \in DOMAIN channel : channel[i] = "remove"

\* While a trigger is active and polled its bookmark catches up with the
\* table, whatever failed, unless a request to delete it stops the polling.
CatchesUp ==
    trigger = "active" /\ (\E t \in Task : Live(t)) /\ bookmark # None
        ~> Newer(bookmark) = {} \/ trigger # "active" \/ Removing

=============================================================================
