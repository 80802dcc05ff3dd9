----------------------------- MODULE CdcProofs ------------------------------
(***************************************************************************)
(* For every table, batch size and mix of faults: a trigger has one poll   *)
(* task, its bookmark never passes a row that was not delivered, only      *)
(* interrupted polls deliver a row version again, and an active trigger    *)
(* whose changes were heard is polled.                                     *)
(***************************************************************************)
EXTENDS Cdc, FiniteSetTheorems, TLAPS

\* A task that holds nothing it has read.
Quiet(t) == task[t].pc \in {"none", "polling", "sleeping"}

\* The poll column of the watched table is unique and only increases.
TableIncreases ==
    /\ \A r \in Row : table[r] <= last
    /\ \A r, s \in Row : table[r] = table[s] /\ table[r] # None => r = s

\* Nobody but the poll task moves the bookmark it has loaded.
BookmarkLoaded ==
    \A t \in Task :
        /\ task[t].pc = "reading" => task[t].mark = bookmark
        /\ task[t].pc = "initialising" => bookmark = None
        /\ task[t].pc \in {"enqueueing", "saving"} =>
              bookmark # None /\ bookmark < task[t].mark

\* The fetched rows are those from the loaded bookmark to the next one.
PageComplete ==
    \A t \in Task : task[t].pc \in {"enqueueing", "saving"} =>
        /\ task[t].mark <= last
        /\ \A r \in Passed(bookmark, task[t].mark) : <<r, table[r]>> \in task[t].rows
        /\ \A x \in task[t].rows : bookmark < x[2] /\ x[2] <= task[t].mark

\* A batch whose bookmark is to be saved was delivered.
SavedDelivered ==
    \A t \in Task : task[t].pc = "saving" => \A x \in task[t].rows : calls[x] > 0

\* Above the bookmark, only the batch that is being saved was delivered more
\* often than polls were interrupted; a deleted trigger's bookmark stays.
NotRepeatedYet ==
    \A x \in Version : x[2] > bookmark /\ calls[x] > unsaved =>
        \/ \E t \in Task : task[t].pc = "saving" /\ x \in task[t].rows
        \/ /\ trigger = "deleted"
           /\ \A t \in Task : Quiet(t)

Polling == TypeOK /\ OneTask /\ (service = "down" => registered = {})
Pages == TableIncreases /\ BookmarkLoaded /\ PageComplete /\ SavedDelivered
Repeats == NotRepeatedYet /\ RepeatedOnlyIfUnsaved
IInv == Polling /\ Pages /\ Repeats

-----------------------------------------------------------------------------
(* One poll task.                                                          *)

LEMMA AtType == \A place \in Task_PC : At(place) \in PollTask
  BY DEF At, PollTask, None

LEMMA NewerType == ASSUME TypeOK, NEW v \in Value \cup {None} PROVE Newer(v) \subseteq Version
  BY CdcAssumption DEF TypeOK, Newer, Version, Value, None

\* A task that ends, sleeps or goes on keeps being the only one.
LEMMA BecomeKeeps ==
  ASSUME Polling, NEW t \in Task, Live(t), NEW state \in PollTask,
         Become(t, state), UNCHANGED <<registered, service>>
  PROVE  /\ task' \in [Task -> PollTask] /\ OneTask'
         /\ service' = "down" => registered' = {}
  BY DEF Polling, TypeOK, OneTask, Live, Become

LEMMA RestartKeeps ==
  ASSUME Polling, NEW S \in SUBSET Task, registered \subseteq S, Restart(S)
  PROVE  /\ task' \in [Task -> PollTask] /\ registered' \in SUBSET Task /\ OneTask'
         /\ \A t \in Task : Quiet(t)'
  <1>1. \A t \in Task : Live(t) => t \in S
    BY DEF Polling, OneTask
  <1>2. PICK t \in Task : t \in S \/ ~Live(t)
    BY <1>1, CdcAssumption
  <1> DEFINE new == CHOOSE u \in Task : u \in S \/ ~Live(u)
  <1>3. new \in Task
    BY <1>2
  <1>4. /\ task' = [u \in Task |-> IF u = new THEN At("polling")
                                  ELSE IF u \in S THEN At("none") ELSE task[u]]
        /\ registered' = {new}
    BY DEF Restart
  <1> HIDE DEF new
  <1>5. At("polling") \in PollTask /\ At("none") \in PollTask
    BY AtType DEF Task_PC
  <1>6. \A u \in Task : Live(u)' => u = new
    BY <1>1, <1>4 DEF Live, At
  <1>7. \A u \in Task : Quiet(u)'
    BY <1>1, <1>4 DEF Live, Quiet, At
  <1>8. QED
    BY <1>3, <1>4, <1>5, <1>6, <1>7 DEF Polling, TypeOK, OneTask

LEMMA CancelKeeps ==
  ASSUME Polling, NEW S \in SUBSET Task, registered \subseteq S, Cancel(S)
  PROVE  /\ task' \in [Task -> PollTask] /\ registered' = {} /\ OneTask'
         /\ \A t \in Task : ~Live(t)'
  <1>1. \A t \in Task : Live(t) => t \in S
    BY DEF Polling, OneTask
  <1>2. At("none") \in PollTask
    BY AtType DEF Task_PC
  <1>3. \A t \in Task : ~Live(t)'
    BY <1>1 DEF Cancel, Live, At
  <1>4. QED
    BY <1>2, <1>3 DEF Cancel, Polling, TypeOK, OneTask

\* Interrupted counts the tasks that were about to save.
LEMMA InterruptedCounts ==
  ASSUME TypeOK, NEW S \in SUBSET Task, Interrupted(S)
  PROVE  /\ unsaved' \in Nat /\ unsaved <= unsaved'
         /\ (\E t \in S : task[t].pc = "saving") => unsaved < unsaved'
  <1> DEFINE T == {t \in S : task[t].pc = "saving"}
  <1>1. IsFiniteSet(T)
    BY CdcAssumption, FS_Subset
  <1>2. Cardinality(T) \in Nat /\ (Cardinality(T) = 0 <=> T = {})
    BY <1>1, FS_CardinalityType, FS_EmptySet
  <1>3. unsaved' = unsaved + Cardinality(T)
    BY DEF Interrupted
  <1>4. (\E t \in S : task[t].pc = "saving") => T # {}
    OBVIOUS
  <1> HIDE DEF T
  <1>5. QED
    BY <1>2, <1>3, <1>4 DEF TypeOK

LEMMA CallsType ==
  ASSUME TypeOK, NEW rows, CallFunction(rows) PROVE calls' \in [Version -> Nat]
  BY DEF TypeOK, CallFunction

LEMMA BookmarkType ==
  ASSUME TypeOK, NEW t \in Task, SaveBookmark(t) PROVE bookmark' \in Value \cup {None}
  BY DEF TypeOK, SaveBookmark, PollTask

LEMMA PollingInit == Init => Polling
  <1> SUFFICES ASSUME Init PROVE Polling
    OBVIOUS
  <1>1. At("none") \in PollTask
    BY AtType DEF Task_PC
  <1>2. TypeOK
    <2>1. /\ table \in [Row -> Value \cup {None}] /\ last \in Value \cup {None}
          /\ bookmark \in Value \cup {None} /\ task \in [Task -> PollTask]
          /\ calls \in [Version -> Nat]
      BY <1>1 DEF Init
    <2>2. asked \subseteq Change /\ channel \in Seq(Change) /\ registered \in SUBSET Task
      BY DEF Init
    <2>3. unheard \in BOOLEAN
      BY DEF Init
    <2>4. QED
      BY <2>1, <2>2, <2>3 DEF Init, TypeOK
  <1>3. QED
    BY <1>2 DEF Init, Polling, OneTask, Live, At

LEMMA PollingNext == Polling /\ [Next]_vars => Polling'
  <1> SUFFICES ASSUME Polling, [Next]_vars PROVE Polling'
    OBVIOUS
  <1>0. TypeOK /\ OneTask /\ (service = "down" => registered = {})
    BY DEF Polling
  <1> USE <1>0, CdcAssumption DEF db, row, poller, seen
  <1>1. ASSUME UNCHANGED poller, UNCHANGED service, TypeOK' PROVE Polling'
    BY <1>1 DEF Polling, OneTask, Live
  <1>2. ASSUME NEW r \in Row, Write(r) PROVE Polling'
    <2>1. last + 1 \in Value
      BY <1>2 DEF Write, TypeOK, Value, None
    <2>2. TypeOK'
      BY <1>2, <2>1 DEF Write, TypeOK
    <2>3. QED
      BY <1>1, <1>2, <2>2 DEF Write
  <1>3. ASSUME Api PROVE Polling'
    <2>1. \A a \in Change : Append(channel, a) \in Seq(Change)
      BY DEF TypeOK
    <2> USE DEF TypeOK, Change, Ask, Strike, Publish
    <2>2. ASSUME Create PROVE TypeOK'
      BY <2>2 DEF Create
    <2>3. ASSUME NEW activity \in {"active", "inactive"},
                 Update(activity) \/ ConfigApply(activity) PROVE TypeOK'
      <3>1. asked' \subseteq Change
        <4>1. asked' = asked \cup {"update"} \/ asked' = asked \cup {"reload"}
          BY <2>3 DEF Update, ConfigApply
        <4>2. QED
          BY <4>1
      <3>2. trigger' \in {"active", "inactive"}
        BY <2>3 DEF Update, ConfigApply
      <3>3. updates' \in Nat
        BY <2>3 DEF Update, ConfigApply
      <3>4. UNCHANGED <<db, bookmark, channel, service, poller, seen, unheard, faults>>
        BY <2>3 DEF Update, ConfigApply
      <3>5. QED
        BY <3>1, <3>2, <3>3, <3>4
    <2>4. ASSUME NEW a \in Change, Announce(a) \/ AnnounceRaises(a) PROVE TypeOK'
      <3>1. asked' \subseteq Change
        BY <2>4 DEF Announce, AnnounceRaises
      <3>2. channel' \in Seq(Change)
        BY <2>1, <2>4 DEF Announce, AnnounceRaises
      <3>3. faults' \in Nat
        <4>1. faults' = faults \/ faults' = faults + 1
          BY <2>4 DEF Announce, AnnounceRaises
        <4>2. QED
          BY <4>1
      <3>4. unheard' \in BOOLEAN
        <4>1. unheard' = unheard \/ unheard' = TRUE
          BY <2>4 DEF Announce, AnnounceRaises
        <4>2. QED
          BY <4>1
      <3>5. UNCHANGED <<db, row, service, poller, seen, updates>>
        BY <2>4 DEF Announce, AnnounceRaises
      <3>6. QED
        BY <3>1, <3>2, <3>3, <3>4, <3>5
    <2>5. ASSUME Delete \/ DeleteCommits \/ DeleteRaises PROVE TypeOK'
      <3>1. asked' \subseteq Change
        <4>1. asked' = asked \cup {"remove"} \/ asked' = asked \ {"remove"}
          BY <2>5 DEF Delete, DeleteCommits, DeleteRaises
        <4>2. QED
          BY <4>1
      <3>2. channel' \in Seq(Change)
        BY <2>1, <2>5 DEF Delete, DeleteCommits, DeleteRaises
      <3>3. faults' \in Nat
        <4>1. faults' = faults \/ faults' = faults + 1
          BY <2>5 DEF Delete, DeleteCommits, DeleteRaises
        <4>2. QED
          BY <4>1
      <3>4. unheard' \in BOOLEAN
        <4>1. unheard' = unheard \/ unheard' = TRUE
          BY <2>5 DEF Delete, DeleteCommits, DeleteRaises
        <4>2. QED
          BY <4>1
      <3>5. trigger' = trigger \/ trigger' = "deleted"
        BY <2>5 DEF Delete, DeleteCommits, DeleteRaises
      <3>6. UNCHANGED <<db, bookmark, service, poller, seen, updates>>
        BY <2>5 DEF Delete, DeleteCommits, DeleteRaises
      <3>7. QED
        BY <3>1, <3>2, <3>3, <3>4, <3>5, <3>6
    <2>6. UNCHANGED poller /\ UNCHANGED service
      BY <1>3 DEF Api, Create, Update, ConfigApply, Announce, AnnounceRaises,
                  Delete, DeleteCommits, DeleteRaises
    <2>7. QED
      BY <1>1, <1>3, <2>2, <2>3, <2>4, <2>5, <2>6 DEF Api
  <1>4. ASSUME NEW t \in Task, Poll(t) \/ PollRaises(t) PROVE Polling'
    <2> SUFFICES ASSUME NEW state \in PollTask, Become(t, state), Live(t),
                        UNCHANGED <<db, trigger, asked, channel, service, registered,
                                    unheard, updates>>,
                        bookmark' \in Value \cup {None}, calls' \in [Version -> Nat],
                        unsaved' \in Nat, faults' \in Nat
                 PROVE  Polling'
      <3>1. task[t] \in PollTask
        BY DEF TypeOK
      <3>2. \A place \in Task_PC : At(place) \in PollTask
        BY AtType
      <3> USE DEF TypeOK, Live, Task_PC
      <3>3. CASE Load(t)
        <4>1. [At("reading") EXCEPT !.mark = bookmark] \in PollTask
          BY <3>2 DEF PollTask
        <4>2. QED
          BY <3>2, <3>3, <4>1 DEF Load
      <3>4. CASE ReadMax(t)
        <4>1. \A top \in Value \cup {None} :
                [At("initialising") EXCEPT !.mark = top] \in PollTask
          BY <3>2 DEF PollTask
        <4>2. QED
          BY <3>4, <4>1 DEF ReadMax
      <3>5. CASE Fetch(t)
        <4>1. Newer(task[t].mark) \subseteq Version
          BY <3>1, NewerType DEF PollTask
        <4>2. PICK rows \in SUBSET Newer(task[t].mark) : \E top \in {x[2] : x \in rows} :
                Become(t, [pc |-> "enqueueing", mark |-> top, rows |-> rows])
          BY <3>5 DEF Fetch
        <4>3. PICK top \in {x[2] : x \in rows} :
                Become(t, [pc |-> "enqueueing", mark |-> top, rows |-> rows])
          BY <4>2
        <4>4. top \in Value
          BY <4>1, <4>2, <4>3 DEF Version
        <4>5. [pc |-> "enqueueing", mark |-> top, rows |-> rows] \in PollTask
          BY <4>1, <4>2, <4>4 DEF PollTask
        <4>6. QED
          BY <3>5, <4>3, <4>5 DEF Fetch
      <3>6. CASE FetchNothing(t)
        BY <3>2, <3>6 DEF FetchNothing
      <3>7. CASE Enqueue(t)
        <4>1. [task[t] EXCEPT !.pc = "saving"] \in PollTask
          BY <3>1 DEF PollTask
        <4>2. Become(t, [task[t] EXCEPT !.pc = "saving"])
          BY <3>7 DEF Enqueue, Goto, Become
        <4>3. calls' \in [Version -> Nat]
          BY <3>7, CallsType DEF Enqueue
        <4>4. QED
          BY <3>7, <4>1, <4>2, <4>3 DEF Enqueue
      <3>8. CASE Save(t)
        BY <3>2, <3>8, BookmarkType DEF Save
      <3>9. CASE Wake(t)
        BY <3>2, <3>9 DEF Wake
      <3>10. CASE PollRaises(t)
        <4>1. bookmark' \in Value \cup {None}
          BY <3>10, BookmarkType DEF PollRaises
        <4>2. calls' \in [Version -> Nat]
          BY <3>10, CallsType DEF PollRaises
        <4>3. unsaved' \in Nat /\ faults' \in Nat
          BY <3>10 DEF PollRaises, Strike
        <4>4. QED
          BY <3>2, <3>10, <4>1, <4>2, <4>3 DEF PollRaises
      <3>11. QED
        BY <1>4, <3>3, <3>4, <3>5, <3>6, <3>7, <3>8, <3>9, <3>10 DEF Poll
    <2>1. /\ task' \in [Task -> PollTask] /\ OneTask'
          /\ service' = "down" => registered' = {}
      BY BecomeKeeps
    <2>2. TypeOK'
      BY <2>1 DEF TypeOK
    <2>3. QED
      BY <2>1, <2>2 DEF Polling
  <1>5. CASE Boot
    <2>1. CASE trigger = "active"
      <3>1. registered' \in SUBSET Task /\ task' \in [Task -> PollTask] /\ OneTask'
        <4>1. Restart(registered)
          BY <1>5, <2>1 DEF Boot, Restart
        <4>2. QED
          BY <4>1, RestartKeeps DEF TypeOK
      <3>2. QED
        BY <1>5, <3>1 DEF Boot, Polling, TypeOK
    <2>2. CASE trigger # "active"
      BY <1>5, <2>2 DEF Boot, Polling, TypeOK, OneTask, Live
    <2>3. QED
      BY <2>1, <2>2
  <1>6. CASE Subscribe
    BY <1>6 DEF Subscribe, Polling, TypeOK, OneTask, Live
  <1>7. CASE Hear
    <2>1. Tail(channel) \in Seq(Change)
      BY <1>7 DEF Hear, TypeOK
    <2>2. CASE Head(channel) = "reload"
      BY <1>7, <2>2 DEF Hear, Polling, TypeOK, OneTask, Live
    <2>3. CASE Head(channel) # "reload"
      <3>1. unsaved' \in Nat
        BY <1>7, <2>3, InterruptedCounts DEF Hear, TypeOK
      <3>2. registered' \in SUBSET Task /\ task' \in [Task -> PollTask] /\ OneTask'
        BY <1>7, <2>3, CancelKeeps, RestartKeeps DEF Hear, TypeOK
      <3>3. QED
        BY <1>7, <2>1, <2>3, <3>1, <3>2 DEF Hear, Polling, TypeOK
    <2>4. QED
      BY <2>2, <2>3
  <1>8. CASE ListenerRaises
    BY <1>8 DEF ListenerRaises, Strike, Polling, TypeOK, OneTask, Live
  <1>9. CASE Stop
    <2>1. unsaved' \in Nat
      BY <1>9, InterruptedCounts DEF Stop
    <2>2. /\ registered' \in SUBSET Task /\ task' \in [Task -> PollTask] /\ OneTask'
          /\ registered' = {}
      BY <1>9, CancelKeeps DEF Stop, TypeOK
    <2>3. QED
      BY <1>9, <2>1, <2>2 DEF Stop, Strike, Polling, TypeOK
  <1>10. CASE UNCHANGED vars
    BY <1>10 DEF vars, Polling, TypeOK, OneTask, Live
  <1>11. QED
    BY <1>2, <1>3, <1>4, <1>5, <1>6, <1>7, <1>8, <1>9, <1>10 DEF Next, Main

\* Type correctness.
THEOREM TypeCorrect == Spec => []TypeOK
  <1>1. Polling => TypeOK
    BY DEF Polling
  <1>2. QED
    BY <1>1, PollingInit, PollingNext, PTL DEF Spec

\* One poll task at a time, however the trigger is changed and the service
\* stopped (CDCManager._poll_tasks).
THEOREM TaskIsOne == Spec => []OneTask
  <1>1. Polling => OneTask
    BY DEF Polling
  <1>2. QED
    BY <1>1, PollingInit, PollingNext, PTL DEF Spec

-----------------------------------------------------------------------------
(* What the bookmark passes.                                               *)

LEMMA OneLive ==
  ASSUME Polling, NEW t \in Task, Live(t), NEW u \in Task, u # t
  PROVE  task[u].pc = "none"
  BY DEF Polling, OneTask, Live

LEMMA Becomes ==
  ASSUME Polling, NEW t \in Task, NEW state, Become(t, state)
  PROVE  task'[t] = state /\ \A u \in Task \ {t} : task'[u] = task[u]
  BY DEF Become, Polling, TypeOK

\* A poll task at rest leaves nobody with anything read.
LEMMA RestIsQuiet ==
  ASSUME Polling, NEW t \in Task, Live(t),
         NEW place \in {"none", "polling", "sleeping"}, Become(t, At(place))
  PROVE  \A u \in Task : Quiet(u)'
  BY OneLive, Becomes DEF Quiet, At

LEMMA QuietPages ==
  ASSUME TableIncreases, UNCHANGED db, \A t \in Task : Quiet(t)'
  PROVE  Pages'
  BY DEF Pages, TableIncreases, BookmarkLoaded, PageComplete, SavedDelivered, Quiet, db

LEMMA WritePages ==
  ASSUME TypeOK, Pages, NEW r \in Row, Write(r)
  PROVE  Pages'
  <1> USE DEF TypeOK, Value, None, row, poller, seen
  <1>1. /\ table'[r] = last + 1 /\ last' = last + 1
        /\ \A s \in Row \ {r} : table'[s] = table[s]
    BY DEF Write
  <1>2. TableIncreases'
    <2>1. last \in Nat /\ \A s \in Row : table[s] \in Nat
      BY CdcAssumption DEF CdcAssumption
    <2>2. /\ \A s \in Row : table[s] <= last
          /\ \A s, q \in Row : table[s] = table[q] /\ table[s] # None => s = q
      BY DEF Pages, TableIncreases
    <2>3. \A s \in Row : table'[s] <= last'
      BY <1>1, <2>1, <2>2
    <2>4. ASSUME NEW s \in Row, NEW q \in Row, table'[s] = table'[q], table'[s] # None
          PROVE  s = q
      BY <1>1, <2>1, <2>2, <2>4
    <2>5. QED
      BY <2>3, <2>4 DEF TableIncreases
  <1>3. BookmarkLoaded' /\ SavedDelivered'
    BY DEF Write, Pages, BookmarkLoaded, SavedDelivered
  <1>4. ASSUME NEW t \in Task, task[t].pc \in {"enqueueing", "saving"}
        PROVE  Passed(bookmark, task[t].mark)' \subseteq Passed(bookmark, task[t].mark)
    <2>1. task[t].mark <= last /\ task[t].mark \in Int
      BY <1>4 DEF Pages, PageComplete, PollTask
    <2>2. task' = task /\ bookmark' = bookmark
      BY DEF Write
    <2>3. r \notin Passed(bookmark, task[t].mark)'
      BY <1>1, <2>1, <2>2 DEF Passed
    <2>4. QED
      BY <1>1, <2>2, <2>3 DEF Passed
  <1>5. PageComplete'
    <2> SUFFICES ASSUME NEW t \in Task, task[t].pc \in {"enqueueing", "saving"}
                 PROVE  /\ task[t].mark <= last'
                        /\ \A s \in Passed(bookmark, task[t].mark)' :
                              <<s, table'[s]>> \in task[t].rows
                        /\ \A x \in task[t].rows : bookmark < x[2] /\ x[2] <= task[t].mark
      BY DEF PageComplete, Write
    <2>1. task[t].mark <= last /\ task[t].mark \in Int
      BY DEF Pages, PageComplete, PollTask
    <2>2. ASSUME NEW s \in Passed(bookmark, task[t].mark)'
          PROVE  <<s, table'[s]>> \in task[t].rows
      <3>1. s \in Passed(bookmark, task[t].mark)
        BY <1>4, <2>2
      <3>2. s # r
        BY <1>1, <2>1, <2>2 DEF Passed, Write
      <3>3. QED
        BY <1>1, <3>1, <3>2 DEF Pages, PageComplete, Passed
    <2>3. QED
      BY <1>1, <2>1, <2>2 DEF Pages, PageComplete
  <1>6. QED
    BY <1>2, <1>3, <1>5 DEF Pages

\* ORDER BY and LIMIT skip nothing up to the last row fetched.
LEMMA PageSkipsNothing ==
  ASSUME TypeOK, TableIncreases, NEW from \in Value \cup {None},
         NEW rows \in SUBSET Newer(from), IsPage(rows, Newer(from)),
         NEW top \in {x[2] : x \in rows}
  PROVE  /\ from < top /\ top <= last
         /\ \A r \in Passed(from, top) : <<r, table[r]>> \in rows
  <1>1. PICK s \in Row : <<s, table[s]>> \in rows /\ table[s] = top /\ table[s] > from
    BY DEF Newer
  <1>2. ASSUME NEW r \in Passed(from, top), <<r, table[r]>> \notin rows PROVE FALSE
    <2>1. r \in Row /\ from < table[r] /\ table[r] <= top
      BY <1>2 DEF Passed
    <2>2. <<r, table[r]>> \in Newer(from) \ rows
      BY <1>2, <2>1 DEF Newer, TypeOK, Value, None
    <2>3. top <= table[r]
      BY <1>1, <2>2 DEF IsPage
    <2>4. table[r] = table[s] /\ table[r] # None
      BY <1>1, <2>1, <2>3 DEF TypeOK, Value, None
    <2>5. QED
      BY <1>1, <1>2, <2>1, <2>4 DEF TableIncreases
  <1>3. QED
    BY <1>1, <1>2 DEF TableIncreases, TypeOK, Value, None

LEMMA FetchPages ==
  ASSUME Polling, Pages, NEW t \in Task, Fetch(t)
  PROVE  Pages'
  <1>1. TypeOK /\ task[t].pc = "reading" /\ task[t].mark = bookmark /\ bookmark # None
    BY DEF Fetch, Polling, Pages, BookmarkLoaded
  <1>2. PICK rows \in SUBSET Newer(bookmark) : \E top \in {x[2] : x \in rows} :
          /\ IsPage(rows, Newer(bookmark)) /\ \A x \in rows : x[2] <= top
          /\ Become(t, [pc |-> "enqueueing", mark |-> top, rows |-> rows])
    BY <1>1 DEF Fetch
  <1>3. PICK top \in {x[2] : x \in rows} :
          /\ IsPage(rows, Newer(bookmark)) /\ \A x \in rows : x[2] <= top
          /\ Become(t, [pc |-> "enqueueing", mark |-> top, rows |-> rows])
    BY <1>2
  <1>4. /\ bookmark < top /\ top <= last
        /\ \A r \in Passed(bookmark, top) : <<r, table[r]>> \in rows
    BY <1>1, <1>3, PageSkipsNothing DEF TypeOK, Pages
  <1>5. /\ task'[t] = [pc |-> "enqueueing", mark |-> top, rows |-> rows]
        /\ \A u \in Task \ {t} : task'[u].pc = "none"
    BY <1>1, <1>3, Becomes, OneLive DEF Live
  <1>6. UNCHANGED <<table, last, bookmark, calls>>
    BY DEF Fetch, db, row, seen
  <1>7. \A x \in rows : bookmark < x[2]
    BY DEF Newer
  <1>8. TableIncreases'
    BY <1>6 DEF Pages, TableIncreases
  <1>9. BookmarkLoaded' /\ SavedDelivered'
    BY <1>1, <1>4, <1>5, <1>6 DEF BookmarkLoaded, SavedDelivered
  <1>10. PageComplete'
    BY <1>3, <1>4, <1>5, <1>6, <1>7 DEF PageComplete, Passed
  <1>11. QED
    BY <1>8, <1>9, <1>10 DEF Pages

LEMMA EnqueuePages ==
  ASSUME Polling, Pages, NEW t \in Task, Enqueue(t)
  PROVE  Pages'
  <1>1. task[t] \in PollTask /\ task[t].pc = "enqueueing" /\ calls \in [Version -> Nat]
    BY DEF Enqueue, Polling, TypeOK
  <1>2. /\ task'[t].pc = "saving" /\ task'[t].mark = task[t].mark
        /\ task'[t].rows = task[t].rows
        /\ \A u \in Task \ {t} : task'[u].pc = "none"
    <2>1. /\ \A u \in Task \ {t} : task'[u] = task[u]
          /\ task'[t] = [task[t] EXCEPT !.pc = "saving"]
      BY DEF Enqueue, Goto, Polling, TypeOK
    <2>2. QED
      BY <1>1, <2>1, OneLive DEF Live, PollTask
  <1>3. UNCHANGED <<table, last, bookmark>>
    BY DEF Enqueue, db, row
  <1>4. \A x \in task[t].rows : calls'[x] > 0
    BY <1>1 DEF Enqueue, CallFunction, PollTask
  <1>5. TableIncreases' /\ SavedDelivered'
    BY <1>2, <1>3, <1>4 DEF Pages, TableIncreases, SavedDelivered
  <1>6. BookmarkLoaded'
    BY <1>1, <1>2, <1>3 DEF Pages, BookmarkLoaded
  <1>7. PageComplete'
    BY <1>1, <1>2, <1>3 DEF Pages, PageComplete, Passed
  <1>8. QED
    BY <1>5, <1>6, <1>7 DEF Pages

\* The steps that leave no task with anything it has read.
LEMMA QuietSteps ==
  ASSUME Polling, NEW t \in Task,
         \/ (Load(t) /\ trigger # "active")
         \/ FetchNothing(t) \/ Save(t) \/ Wake(t) \/ PollRaises(t)
         \/ Boot \/ (Hear /\ Head(channel) # "reload") \/ Stop
  PROVE  (\A u \in Task : Quiet(u)') /\ UNCHANGED db
  <1>1. CASE (Load(t) /\ trigger # "active")
    BY <1>1, RestIsQuiet DEF Load, Live
  <1>2. CASE FetchNothing(t) \/ Save(t) \/ PollRaises(t)
    BY <1>2, RestIsQuiet DEF FetchNothing, Save, PollRaises, Live
  <1>3. CASE Wake(t)
    BY <1>3, RestIsQuiet DEF Wake, Live
  <1>4. CASE Boot
    <2>1. CASE trigger = "active"
      <3>1. Restart(registered) /\ registered \subseteq Task
        BY <1>4, <2>1 DEF Boot, Polling, TypeOK
      <3>2. QED
        BY <1>4, <3>1, RestartKeeps DEF Boot
    <2>2. CASE trigger # "active"
      BY <1>4, <2>2 DEF Boot, poller, Quiet, Polling, OneTask, Live
    <2>3. QED
      BY <2>1, <2>2
  <1>5. CASE Hear /\ Head(channel) # "reload"
    <2>1. registered \subseteq Task
      BY DEF Polling, TypeOK
    <2>2. CASE Head(channel) = "remove"
      BY <1>5, <2>1, <2>2, CancelKeeps DEF Hear, Quiet, Live
    <2>3. CASE Head(channel) # "remove"
      BY <1>5, <2>1, <2>3, RestartKeeps DEF Hear
    <2>4. QED
      BY <2>2, <2>3
  <1>6. CASE Stop
    BY <1>6, CancelKeeps DEF Stop, Quiet, Live, Polling, TypeOK
  <1>7. QED
    BY <1>1, <1>2, <1>3, <1>4, <1>5, <1>6

\* The steps of the API, the listener and the table that leave the task alone.
LEMMA ApiSteps ==
  ASSUME Polling, Api \/ Subscribe \/ ListenerRaises \/ (Hear /\ Head(channel) = "reload")
                       \/ UNCHANGED vars
  PROVE  /\ UNCHANGED <<db, bookmark, task, calls, unsaved>>
         /\ trigger = "deleted" => trigger' = "deleted"
  BY DEF Api, Create, Update, ConfigApply, Announce, AnnounceRaises, Delete,
         DeleteCommits, DeleteRaises, Subscribe, ListenerRaises, Hear, vars,
         db, row, poller, seen

LEMMA LoadPages ==
  ASSUME Polling, Pages, NEW t \in Task, (Load(t) /\ trigger = "active") \/ ReadMax(t)
  PROVE  Pages'
  <1>1. PICK v \in Value \cup {None} :
          \/ Become(t, [At("reading") EXCEPT !.mark = v]) /\ v = bookmark
          \/ Become(t, [At("initialising") EXCEPT !.mark = v]) /\ bookmark = None
    <2>1. CASE Load(t) /\ trigger = "active"
      BY <2>1 DEF Load, Polling, TypeOK
    <2>2. CASE ReadMax(t)
      BY <2>2 DEF ReadMax, Pages, BookmarkLoaded
    <2>3. QED
      BY <2>1, <2>2
  <1>2. Live(t) /\ UNCHANGED <<table, last, bookmark, calls>>
    BY DEF Load, ReadMax, Live, db, row, seen
  <1>3. /\ \/ task'[t].pc = "reading" /\ task'[t].mark = bookmark
           \/ task'[t].pc = "initialising" /\ bookmark = None
        /\ \A u \in Task \ {t} : task'[u].pc = "none"
    BY <1>1, <1>2, Becomes, OneLive DEF At
  <1>4. QED
    BY <1>2, <1>3 DEF Pages, TableIncreases, BookmarkLoaded, PageComplete, SavedDelivered

LEMMA PagesNext == Polling /\ Pages /\ [Next]_vars => Pages'
  <1> SUFFICES ASSUME Polling, Pages, [Next]_vars PROVE Pages'
    OBVIOUS
  <1>1. ASSUME NEW r \in Row, Write(r) PROVE Pages'
    BY <1>1, WritePages DEF Polling
  <1>2. ASSUME NEW t \in Task, Poll(t) \/ PollRaises(t) PROVE Pages'
    <2>1. CASE (Load(t) /\ trigger = "active") \/ ReadMax(t)
      BY <2>1, LoadPages
    <2>2. CASE Fetch(t) \/ Enqueue(t)
      BY <2>2, FetchPages, EnqueuePages
    <2>3. CASE \/ (Load(t) /\ trigger # "active")
               \/ FetchNothing(t) \/ Save(t) \/ Wake(t) \/ PollRaises(t)
      <3>1. (\A u \in Task : Quiet(u)') /\ UNCHANGED db
        BY <2>3, QuietSteps
      <3>2. QED
        BY <3>1, QuietPages DEF Pages
    <2>4. QED
      BY <1>2, <2>1, <2>2, <2>3 DEF Poll
  <1>3. CASE Boot \/ (Hear /\ Head(channel) # "reload") \/ Stop
    <2>1. PICK t \in Task : TRUE
      BY CdcAssumption
    <2>2. (\A u \in Task : Quiet(u)') /\ UNCHANGED db
      BY <1>3, <2>1, QuietSteps
    <2>3. QED
      BY <2>2, QuietPages DEF Pages
  <1>4. CASE Api \/ Subscribe \/ ListenerRaises \/ (Hear /\ Head(channel) = "reload")
                 \/ UNCHANGED vars
    <2>1. UNCHANGED <<table, last, bookmark, task, calls>>
      BY <1>4, ApiSteps DEF db
    <2>2. QED
      BY <2>1 DEF Pages, TableIncreases, BookmarkLoaded, PageComplete, SavedDelivered, Passed
  <1>5. CASE Hear
    BY <1>3, <1>4, <1>5
  <1>6. QED
    BY <1>1, <1>2, <1>3, <1>4, <1>5 DEF Next, Main

LEMMA PagesInit == Init => Pages
  BY DEF Init, Pages, TableIncreases, BookmarkLoaded, PageComplete, SavedDelivered, At, None

\* The step that moves the bookmark is the end of a poll, which has delivered
\* what the bookmark passes.
LEMMA BookmarkMoves ==
  ASSUME Polling, Pages, [Next]_vars, bookmark # None, bookmark' # bookmark
  PROVE  bookmark < bookmark' /\ \A r \in Passed(bookmark, bookmark') : Delivered(r)
  <1>1. PICK t \in Task : SaveBookmark(t) /\ task[t].pc \in {"initialising", "saving"}
    <2>1. ~UNCHANGED row
      BY DEF row
    <2>2. ~UNCHANGED bookmark
      OBVIOUS
    <2>3. \A r \in Row : ~Write(r)
      BY <2>1 DEF Write
    <2>4. ~Api /\ ~Main /\ ~ListenerRaises /\ ~Stop /\ ~UNCHANGED vars
      BY <2>1, <2>2 DEF Api, Create, Update, ConfigApply, Announce, AnnounceRaises,
           Delete, DeleteCommits, DeleteRaises, Main, Boot, Subscribe, Hear,
           ListenerRaises, Stop, vars
    <2>5. PICK t \in Task : Poll(t) \/ PollRaises(t)
      BY <2>3, <2>4 DEF Next
    <2>6. Save(t) \/ PollRaises(t)
      BY <2>1, <2>5 DEF Poll, Load, ReadMax, Fetch, FetchNothing, Enqueue, Wake
    <2>7. QED
      BY <2>2, <2>6 DEF Save, PollRaises
  <1>2. bookmark' = task[t].mark /\ task[t].pc = "saving"
    BY <1>1 DEF SaveBookmark, Pages, BookmarkLoaded
  <1>3. bookmark < task[t].mark
    BY <1>2 DEF Pages, BookmarkLoaded
  <1>4. ASSUME NEW r \in Passed(bookmark, task[t].mark) PROVE Delivered(r)
    BY <1>2 DEF Pages, PageComplete, SavedDelivered, Delivered
  <1>5. QED
    BY <1>2, <1>3, <1>4

\* The bookmark only grows and never passes a row that was not delivered.
THEOREM BookmarkIsSafe == Spec => BookmarkSteps
  <1>1. Init => Polling /\ Pages
    BY PollingInit, PagesInit
  <1>2. Polling /\ Pages /\ [Next]_vars => Polling' /\ Pages'
    BY PollingNext, PagesNext
  <1>3. Polling /\ Pages /\ [Next]_vars =>
          [bookmark # None /\ bookmark' # bookmark =>
              /\ bookmark < bookmark'
              /\ \A r \in Passed(bookmark, bookmark') : Delivered(r)]_vars
    BY BookmarkMoves
  <1>4. QED
    BY <1>1, <1>2, <1>3, PTL DEF Spec, BookmarkSteps

-----------------------------------------------------------------------------
(* What is delivered again.                                                *)

Repeated(x) == x[2] > bookmark /\ calls[x] > unsaved

\* While a task polls but is not saving, nothing above the bookmark has been
\* delivered more often than polls were interrupted.
LEMMA NotSaving ==
  ASSUME Polling, Repeats, NEW t \in Task, ~Quiet(t), task[t].pc # "saving"
  PROVE  \A x \in Version : ~Repeated(x)
  <1>1. \A u \in Task : task[u].pc # "saving"
    BY OneLive DEF Live, Quiet
  <1>2. QED
    BY <1>1 DEF Repeats, NotRepeatedYet, Repeated

LEMMA QuietTask ==
  ASSUME Polling, NEW t \in Task, Live(t), Quiet(t)
  PROVE  \A u \in Task : Quiet(u)
  BY OneLive DEF Live, Quiet

\* Whoever is stopped leaves what it was about to save counted as unsaved.
LEMMA RestRepeats ==
  ASSUME Polling, Repeats, UNCHANGED <<bookmark, calls>>, \A t \in Task : Quiet(t)',
         trigger = "deleted" => trigger' = "deleted",
         unsaved' \in Nat, unsaved <= unsaved',
         (\E t \in Task : task[t].pc = "saving") => unsaved < unsaved'
  PROVE  Repeats'
  <1>1. \A x \in Version : calls[x] \in Nat /\ calls[x] <= unsaved + 1
    BY DEF Polling, TypeOK, Repeats, RepeatedOnlyIfUnsaved
  <1>2. unsaved \in Nat
    BY DEF Polling, TypeOK
  <1>3. RepeatedOnlyIfUnsaved'
    BY <1>1, <1>2 DEF RepeatedOnlyIfUnsaved
  <1>4. ASSUME NEW x \in Version, Repeated(x)' PROVE trigger' = "deleted"
    <2>1. Repeated(x)
      BY <1>1, <1>2, <1>4 DEF Repeated
    <2>2. ~\E t \in Task : task[t].pc = "saving"
      BY <1>1, <1>2, <1>4 DEF Repeated
    <2>3. QED
      BY <2>1, <2>2 DEF Repeats, NotRepeatedYet, Repeated
  <1>5. QED
    BY <1>3, <1>4 DEF Repeats, NotRepeatedYet, Repeated

LEMMA ReadRepeats ==
  ASSUME Polling, Repeats, NEW t \in Task,
         (Load(t) /\ trigger = "active") \/ ReadMax(t) \/ Fetch(t)
  PROVE  Repeats'
  <1>1. UNCHANGED <<bookmark, calls, unsaved>>
    BY DEF Load, ReadMax, Fetch, row, seen
  <1>2. \A x \in Version : ~Repeated(x)
    <2>1. CASE ReadMax(t) \/ Fetch(t)
      BY <2>1, NotSaving DEF ReadMax, Fetch, Quiet
    <2>2. CASE Load(t) /\ trigger = "active"
      <3>1. \A u \in Task : Quiet(u)
        BY <2>2, QuietTask DEF Load, Live, Quiet
      <3>2. QED
        BY <2>2, <3>1 DEF Repeats, NotRepeatedYet, Repeated, Quiet
    <2>3. QED
      BY <2>1, <2>2
  <1>3. QED
    BY <1>1, <1>2 DEF Repeats, NotRepeatedYet, RepeatedOnlyIfUnsaved, Repeated

LEMMA EnqueueRepeats ==
  ASSUME Polling, Pages, Repeats, NEW t \in Task, Enqueue(t)
  PROVE  Repeats'
  <1>1. /\ task[t].pc = "enqueueing" /\ calls \in [Version -> Nat] /\ unsaved \in Nat
        /\ UNCHANGED <<bookmark, unsaved>>
    BY DEF Enqueue, Polling, TypeOK, row
  <1>2. task'[t].pc = "saving" /\ task'[t].rows = task[t].rows
    BY DEF Enqueue, Goto, Polling, TypeOK, PollTask
  <1>3. \A x \in Version : ~Repeated(x)
    BY <1>1, NotSaving DEF Quiet
  <1>4. ASSUME NEW x \in Version
        PROVE  /\ x \in task[t].rows => calls'[x] = calls[x] + 1 /\ calls[x] <= unsaved
               /\ x \notin task[t].rows => calls'[x] = calls[x]
    <2>1. x \in task[t].rows => x[2] > bookmark
      BY <1>1 DEF Pages, PageComplete
    <2>2. x \in task[t].rows => calls[x] <= unsaved
      BY <1>1, <1>3, <2>1 DEF Repeated
    <2>3. QED
      BY <2>2 DEF Enqueue, CallFunction
  <1>5. RepeatedOnlyIfUnsaved'
    BY <1>1, <1>4 DEF Repeats, RepeatedOnlyIfUnsaved
  <1>6. NotRepeatedYet'
    BY <1>1, <1>2, <1>3, <1>4 DEF NotRepeatedYet, Repeated
  <1>7. QED
    BY <1>5, <1>6 DEF Repeats

\* A saved bookmark has passed its batch; a deleted trigger is not polled again.
LEMMA SaveRepeats ==
  ASSUME Polling, Pages, Repeats, NEW t \in Task,
         task[t].pc \in {"initialising", "saving"}, SaveBookmark(t),
         UNCHANGED <<trigger, calls, unsaved>>, \A u \in Task : Quiet(u)'
  PROVE  Repeats'
  <1>1. /\ bookmark \in Nat /\ bookmark' \in Nat /\ task[t].mark \in Nat
        /\ \A x \in Version : x[2] \in Nat \ {0}
    BY BookmarkType DEF Polling, TypeOK, PollTask, Value, Version, None
  <1>2. ASSUME NEW x \in Version, Repeated(x)' PROVE trigger = "deleted"
    <2>1. CASE task[t].pc = "initialising"
      <3>1. ~Repeated(x) /\ bookmark = None
        BY <2>1, NotSaving DEF Quiet, Pages, BookmarkLoaded
      <3>2. QED
        BY <1>1, <1>2, <3>1 DEF Repeated, None
    <2>2. CASE task[t].pc = "saving" /\ trigger # "deleted"
      <3>1. bookmark' = task[t].mark /\ bookmark < task[t].mark
        BY <2>2 DEF SaveBookmark, Pages, BookmarkLoaded
      <3>2. Repeated(x)
        BY <1>1, <1>2, <3>1 DEF Repeated
      <3>3. PICK u \in Task : task[u].pc = "saving" /\ x \in task[u].rows
        BY <2>2, <3>2 DEF Repeats, NotRepeatedYet, Repeated
      <3>4. u = t
        BY <2>2, <3>3, OneLive DEF Live
      <3>5. x[2] <= task[t].mark
        BY <2>2, <3>3, <3>4 DEF Pages, PageComplete
      <3>6. QED
        BY <1>1, <1>2, <3>1, <3>5 DEF Repeated
    <2>3. QED
      BY <2>1, <2>2
  <1>3. QED
    BY <1>2 DEF Repeats, NotRepeatedYet, RepeatedOnlyIfUnsaved, Repeated

LEMMA RaiseRepeats ==
  ASSUME Polling, Pages, Repeats, NEW t \in Task, PollRaises(t)
  PROVE  Repeats'
  <1>1. (\A u \in Task : Quiet(u)') /\ trigger' = trigger
    BY QuietSteps DEF PollRaises
  <1>2. unsaved \in Nat /\ calls \in [Version -> Nat]
    BY DEF Polling, TypeOK
  <1>3. CASE UNCHANGED <<bookmark, calls>> /\
               unsaved' = IF task[t].pc = "saving" THEN unsaved + 1 ELSE unsaved
    <2>1. (\E u \in Task : task[u].pc = "saving") => task[t].pc = "saving"
      BY OneLive DEF Live, PollRaises
    <2>2. unsaved' \in Nat /\ unsaved <= unsaved'
      BY <1>2, <1>3
    <2>3. (\E u \in Task : task[u].pc = "saving") => unsaved < unsaved'
      BY <1>2, <1>3, <2>1
    <2>4. QED
      BY <1>1, <1>3, <2>2, <2>3, RestRepeats
  <1>4. CASE /\ task[t].pc = "enqueueing" /\ CallFunction(task[t].rows)
             /\ unsaved' = unsaved + 1 /\ UNCHANGED bookmark
    <2>1. \A x \in Version : ~Repeated(x)
      BY <1>4, NotSaving DEF Quiet
    <2>2. \A x \in Version : /\ calls[x] \in Nat /\ calls'[x] \in Nat
                             /\ calls'[x] <= calls[x] + 1
      BY <1>2, <1>4 DEF CallFunction
    <2>3. \A x \in Version : ~Repeated(x)'
      BY <1>2, <1>4, <2>1, <2>2 DEF Repeated, CallFunction
    <2>4. RepeatedOnlyIfUnsaved'
      BY <1>2, <1>4, <2>2 DEF Repeats, RepeatedOnlyIfUnsaved
    <2>5. QED
      BY <2>3, <2>4 DEF Repeats, NotRepeatedYet, Repeated
  <1>5. CASE /\ task[t].pc \in {"initialising", "saving"} /\ SaveBookmark(t)
             /\ UNCHANGED <<calls, unsaved>>
    BY <1>1, <1>5, SaveRepeats
  <1>6. QED
    BY <1>3, <1>4, <1>5 DEF PollRaises

LEMMA RepeatsNext == Polling /\ Pages /\ Repeats /\ [Next]_vars => Repeats'
  <1> SUFFICES ASSUME Polling, Pages, Repeats, [Next]_vars PROVE Repeats'
    OBVIOUS
  <1>0. unsaved \in Nat
    BY DEF Polling, TypeOK
  <1>1. ASSUME NEW t \in Task, Poll(t) \/ PollRaises(t) PROVE Repeats'
    <2>1. CASE (Load(t) /\ trigger = "active") \/ ReadMax(t) \/ Fetch(t)
      BY <2>1, ReadRepeats
    <2>2. CASE Enqueue(t)
      BY <2>2, EnqueueRepeats
    <2>3. CASE Save(t)
      BY <2>3, SaveRepeats, QuietSteps DEF Save
    <2>4. CASE PollRaises(t)
      BY <2>4, RaiseRepeats
    <2>5. CASE (Load(t) /\ trigger # "active") \/ FetchNothing(t) \/ Wake(t)
      <3>1. (\A u \in Task : Quiet(u)')
        BY <2>5, QuietSteps
      <3>2. UNCHANGED <<bookmark, trigger, calls, unsaved>> /\ Live(t) /\ task[t].pc # "saving"
        BY <2>5 DEF Load, FetchNothing, Wake, row, seen, Live
      <3>3. ~\E u \in Task : task[u].pc = "saving"
        BY <3>2, OneLive
      <3>4. QED
        BY <1>0, <3>1, <3>2, <3>3, RestRepeats
    <2>6. QED
      BY <1>1, <2>1, <2>2, <2>3, <2>4, <2>5 DEF Poll
  <1>2. CASE Boot \/ (Hear /\ Head(channel) # "reload") \/ Stop
    <2>1. PICK t \in Task : TRUE
      BY CdcAssumption
    <2>2. \A u \in Task : Quiet(u)'
      BY <1>2, <2>1, QuietSteps
    <2>3. UNCHANGED <<bookmark, trigger, calls>>
      BY <1>2 DEF Boot, Hear, Stop, row, seen
    <2>4. \A u \in Task : task[u].pc = "saving" => u \in registered
      BY DEF Polling, OneTask, Live
    <2>5. CASE Boot
      <3>1. unsaved' = unsaved /\ registered = {}
        BY <2>5 DEF Boot, Polling, seen
      <3>2. QED
        BY <1>0, <2>2, <2>3, <2>4, <3>1, RestRepeats
    <2>6. CASE (Hear /\ Head(channel) # "reload") \/ Stop
      <3>1. PICK S \in SUBSET Task : Interrupted(S) /\ registered \subseteq S
        BY <2>6 DEF Hear, Stop, Polling, TypeOK
      <3>2. /\ unsaved' \in Nat /\ unsaved <= unsaved'
            /\ (\E u \in S : task[u].pc = "saving") => unsaved < unsaved'
        BY <3>1, InterruptedCounts DEF Polling
      <3>3. QED
        BY <2>2, <2>3, <2>4, <3>1, <3>2, RestRepeats
    <2>7. QED
      BY <1>2, <2>5, <2>6
  <1>3. ASSUME /\ UNCHANGED <<bookmark, task, calls, unsaved>>
               /\ trigger = "deleted" => trigger' = "deleted"
        PROVE  Repeats'
    BY <1>3 DEF Repeats, NotRepeatedYet, RepeatedOnlyIfUnsaved, Quiet
  <1>4. CASE Api \/ Subscribe \/ ListenerRaises \/ (Hear /\ Head(channel) = "reload")
                 \/ UNCHANGED vars
    BY <1>3, <1>4, ApiSteps
  <1>5. ASSUME NEW r \in Row, Write(r) PROVE Repeats'
    BY <1>3, <1>5 DEF Write, row, poller, seen
  <1>6. CASE Hear
    BY <1>2, <1>4, <1>6
  <1>7. QED
    BY <1>1, <1>2, <1>4, <1>5, <1>6 DEF Next, Main

LEMMA RepeatsInit == Init => Repeats
  BY DEF Init, Repeats, NotRepeatedYet, RepeatedOnlyIfUnsaved

\* A row version is delivered again only after an interrupted poll.
THEOREM RepeatsAreExplained == Spec => []RepeatedOnlyIfUnsaved
  <1>1. Init => IInv
    BY PollingInit, PagesInit, RepeatsInit DEF IInv
  <1>2. IInv /\ [Next]_vars => IInv'
    BY PollingNext, PagesNext, RepeatsNext DEF IInv
  <1>3. IInv => RepeatedOnlyIfUnsaved
    BY DEF IInv, Repeats
  <1>4. QED
    BY <1>1, <1>2, <1>3, PTL DEF Spec

-----------------------------------------------------------------------------
(* Whether an active trigger is polled.                                    *)

\* A message on its way is for a listener that hears.
HeardOrLost == service # "on" => channel = <<>>

\* A removal that is on its way is still to be committed, has failed, or has
\* left a deleted trigger.
RemovalAsked ==
    (\E i \in DOMAIN channel : channel[i] = "remove") =>
        "remove" \in asked \/ unheard \/ trigger = "deleted"

\* What would start a task for an active trigger that has none.
Owed ==
    service \in {"starting", "on"} /\ ~unheard /\ trigger = "active" =>
        (\E t \in Task : Live(t)) \/ asked # {} \/ channel # <<>>

Announcing == HeardOrLost /\ RemovalAsked /\ Owed

\* A restart leaves a task that polls.
LEMMA RestartPolls ==
  ASSUME Polling, NEW S \in SUBSET Task, registered \subseteq S, Restart(S)
  PROVE  \E t \in Task : Live(t)'
  <1>1. PICK t \in Task : t \in S \/ ~Live(t)
    BY CdcAssumption DEF Polling, OneTask
  <1> DEFINE new == CHOOSE u \in Task : u \in S \/ ~Live(u)
  <1>2. new \in Task
    BY <1>1
  <1>3. task'[new] = At("polling")
    BY <1>2 DEF Restart
  <1>4. QED
    BY <1>2, <1>3 DEF Live, At

\* What a message does to the messages on their way.
LEMMA Published ==
  ASSUME Polling, HeardOrLost, NEW a \in Change, Publish(a)
  PROVE  /\ service # "on" => channel' = <<>> /\ unheard'
         /\ channel' # <<>> \/ unheard'
         /\ unheard => unheard'
         /\ \A b : (\E i \in DOMAIN channel' : channel'[i] = b) =>
                b = a \/ \E i \in DOMAIN channel : channel[i] = b
  <1>1. channel \in Seq(Change)
    BY DEF Polling, TypeOK
  <1>2. CASE service = "on"
    <2>1. channel' = Append(channel, a) /\ unheard' = unheard
      BY <1>2 DEF Publish
    <2>2. QED
      BY <1>1, <1>2, <2>1
  <1>3. CASE service # "on"
    BY <1>3 DEF Publish, HeardOrLost
  <1>4. QED
    BY <1>2, <1>3

\* The API announces each change it asks for, or the change goes unheard.
LEMMA ApiAnnounces ==
  ASSUME Polling, Announcing, Api
  PROVE  Announcing'
  <1>0. UNCHANGED <<service, task>>
    BY DEF Api, Create, Update, ConfigApply, Announce, AnnounceRaises,
           Delete, DeleteCommits, DeleteRaises, poller
  <1>1. ASSUME UNCHANGED <<channel, unheard>>, asked \subseteq asked', asked' # {},
               trigger = "deleted" => trigger' = "deleted"
        PROVE  Announcing'
    BY <1>0, <1>1 DEF Announcing, HeardOrLost, RemovalAsked, Owed
  <1>2. CASE \/ Create
             \/ \E activity \in {"active", "inactive"} : Update(activity) \/ ConfigApply(activity)
    BY <1>1, <1>2 DEF Create, Update, ConfigApply, Ask
  <1>3. ASSUME NEW a \in Change, Announce(a) PROVE Announcing'
    <2>1. a # "remove" /\ Publish(a) /\ asked' = asked \ {a} /\ trigger' = trigger
      BY <1>3 DEF Announce, row
    <2>2. QED
      BY <1>0, <2>1, Published DEF Announcing, HeardOrLost, RemovalAsked, Owed
  <1>4. CASE DeleteRaises \/ \E a \in Change : AnnounceRaises(a)
    BY <1>0, <1>4
       DEF DeleteRaises, AnnounceRaises, Announcing, HeardOrLost, RemovalAsked, Owed
  <1>5. CASE Delete
    <2>1. Publish("remove") /\ asked' = asked \cup {"remove"} /\ trigger' = trigger
      BY <1>5 DEF Delete, Ask, row
    <2>2. "remove" \in Change
      BY DEF Change
    <2>3. QED
      BY <1>0, <2>1, <2>2, Published DEF Announcing, HeardOrLost, RemovalAsked, Owed
  <1>6. CASE DeleteCommits
    BY <1>0, <1>6 DEF DeleteCommits, Announcing, HeardOrLost, RemovalAsked, Owed
  <1>7. QED
    BY <1>2, <1>3, <1>4, <1>5, <1>6 DEF Api

\* The listener starts the task anew, or stops it for a removal.
LEMMA HearingAnnounces ==
  ASSUME Polling, Announcing, Hear
  PROVE  Announcing'
  <1>1. /\ channel \in Seq(Change) /\ channel # <<>> /\ service = "on"
        /\ UNCHANGED <<asked, unheard, trigger>>
    BY DEF Polling, TypeOK, Hear, row
  <1>2. CASE Head(channel) = "reload"
    BY <1>1, <1>2 DEF Hear, Announcing, HeardOrLost, RemovalAsked, Owed
  <1>3. CASE Head(channel) # "reload"
    <2>1. channel' = Tail(channel) /\ service' = "on"
      BY <1>1, <1>3 DEF Hear
    <2>2. /\ Head(channel) = channel[1] /\ 1 \in DOMAIN channel
          /\ \A i \in DOMAIN channel' : i + 1 \in DOMAIN channel /\ channel'[i] = channel[i + 1]
      BY <1>1, <2>1
    <2>3. HeardOrLost' /\ RemovalAsked'
      BY <1>1, <2>1, <2>2 DEF Announcing, HeardOrLost, RemovalAsked
    <2>4. CASE Head(channel) = "remove"
      <3>1. "remove" \in asked \/ unheard \/ trigger = "deleted"
        BY <2>2, <2>4 DEF Announcing, RemovalAsked
      <3>2. Owed'
        BY <1>1, <3>1 DEF Owed
      <3>3. QED
        BY <2>3, <3>2 DEF Announcing
    <2>5. CASE Head(channel) # "remove"
      <3>1. Restart(registered) /\ registered \in SUBSET Task
        BY <1>3, <2>5 DEF Hear, Polling, TypeOK
      <3>2. \E t \in Task : Live(t)'
        BY <3>1, RestartPolls
      <3>3. Owed'
        BY <3>2 DEF Owed, Live
      <3>4. QED
        BY <2>3, <3>3 DEF Announcing
    <2>6. QED
      BY <2>4, <2>5
  <1>4. QED
    BY <1>2, <1>3

LEMMA AnnouncingNext == Polling /\ Announcing /\ [Next]_vars => Announcing'
  <1> SUFFICES ASSUME Polling, Announcing, [Next]_vars PROVE Announcing'
    OBVIOUS
  <1>1. ASSUME UNCHANGED <<trigger, asked, channel, unheard>>,
               service' = service \/ (service = "starting" /\ service' = "on"),
               \A t \in Task : Live(t) => Live(t)' \/ trigger # "active"
        PROVE  Announcing'
    BY <1>1 DEF Announcing, HeardOrLost, RemovalAsked, Owed, Live
  <1>2. ASSUME NEW t \in Task, Poll(t) \/ PollRaises(t) PROVE Announcing'
    <2>1. UNCHANGED <<trigger, asked, channel, unheard, service>>
      BY <1>2 DEF Poll, Load, ReadMax, Fetch, FetchNothing, Enqueue, Save, Wake, PollRaises, row
    <2>2. \A u \in Task : u # t => task'[u] = task[u]
      BY <1>2 DEF Poll, Load, ReadMax, Fetch, FetchNothing, Enqueue, Save, Wake, PollRaises,
                  Become, Goto, Polling, TypeOK
    <2>3. CASE Load(t)
      <3>1. trigger = "active" => Live(t)'
        BY <2>3 DEF Load, Become, Live, At, Polling, TypeOK
      <3>2. QED
        BY <1>1, <2>1, <2>2, <3>1 DEF Live
    <2>4. CASE ~Load(t)
      <3>1. CASE Enqueue(t)
        <4>1. task[t] \in PollTask /\ task'[t] = [task[t] EXCEPT !.pc = "saving"]
          BY <3>1 DEF Enqueue, Goto, Polling, TypeOK
        <4>2. task'[t].pc = "saving"
          BY <4>1 DEF PollTask
        <4>3. QED
          BY <1>1, <2>1, <2>2, <4>2 DEF Live
      <3>2. CASE ReadMax(t) \/ Fetch(t)
        <4>1. task'[t].pc = "initialising" \/ task'[t].pc = "enqueueing"
          BY <3>2 DEF ReadMax, Fetch, Become, At, Polling, TypeOK
        <4>2. QED
          BY <1>1, <2>1, <2>2, <4>1 DEF Live
      <3>3. CASE FetchNothing(t) \/ Save(t) \/ PollRaises(t) \/ Wake(t)
        <4>1. task'[t].pc = "sleeping" \/ task'[t].pc = "polling"
          BY <3>3 DEF FetchNothing, Save, PollRaises, Wake, Become, At, Polling, TypeOK
        <4>2. QED
          BY <1>1, <2>1, <2>2, <4>1 DEF Live
      <3>4. QED
        BY <1>2, <2>4, <3>1, <3>2, <3>3 DEF Poll
    <2>5. QED
      BY <2>3, <2>4
  <1>3. CASE \/ \E r \in Row : Write(r)
             \/ Subscribe \/ UNCHANGED vars
    <2>1. /\ UNCHANGED <<trigger, asked, channel, unheard, task>>
          /\ service' = service \/ (service = "starting" /\ service' = "on")
      BY <1>3 DEF Write, Subscribe, vars, row, poller
    <2>2. QED
      BY <1>1, <2>1 DEF Live
  <1>4. CASE ListenerRaises \/ Stop
    <2>1. channel' = <<>> /\ service' \in {"deaf", "down"}
      BY <1>4 DEF ListenerRaises, Stop
    <2>2. QED
      BY <2>1 DEF Announcing, HeardOrLost, RemovalAsked, Owed
  <1>5. CASE Boot
    <2>1. /\ service = "down" /\ channel = <<>> /\ UNCHANGED <<trigger, channel>>
          /\ registered = {}
      BY <1>5 DEF Boot, Announcing, HeardOrLost, Polling, row
    <2>2. trigger = "active" => \E t \in Task : Live(t)'
      BY <1>5, <2>1, RestartPolls DEF Boot
    <2>3. QED
      BY <2>1, <2>2 DEF Announcing, HeardOrLost, RemovalAsked, Owed, Live
  <1>6. QED
    BY <1>2, <1>3, <1>4, <1>5, ApiAnnounces, HearingAnnounces DEF Next, Main

\* Once the listener has caught up with the API an active trigger is polled,
\* unless an announcement was lost since the service started, in whatever
\* order changes are committed, announced and heard (handle_trigger_change,
\* the database_triggers endpoints).
THEOREM ActiveGetsPolled == Spec => []ActiveIsPolled
  <1>1. Init => Announcing
    BY DEF Init, Announcing, HeardOrLost, RemovalAsked, Owed
  <1>2. Announcing => ActiveIsPolled
    BY DEF Announcing, Owed, ActiveIsPolled
  <1>3. QED
    BY <1>1, <1>2, PollingInit, PollingNext, AnnouncingNext, PTL DEF Spec

=============================================================================
