--------------------------- MODULE ResourcesProofs ---------------------------
(***************************************************************************)
(* What a row says of things beside it: the contents of a collection's     *)
(* files, which the storage keeps, the refresh tokens of a connector,      *)
(* which the provider takes or refuses, and the package a resource is      *)
(* marked with, which is edited, upgraded and uninstalled elsewhere.  Each *)
(* proof is about who holds the lock of the row and what was read before.  *)
(*                                                                         *)
(* Files: for any number of uploads, tools, deletions and readers of one   *)
(* name, a reader gets the content its version was recorded with, versions *)
(* are numbered without a gap, and every content is accounted for.         *)
(* Whoever holds the row's lock and counted from the row it locked writes  *)
(* to a path nobody was told of.  A tool counts before it locks; when its  *)
(* number is taken by then the file is raced for.                          *)
(*                                                                         *)
(* Connectors: for any number of calls, processes and consents, a refresh  *)
(* token is spent twice only if its replacement was lost on the way to the *)
(* row.                                                                    *)
(*                                                                         *)
(* Packages: for any number of managers, versions, resources, requests and *)
(* users, a row that carries a package's mark holds what it shipped, and   *)
(* what is recorded as installed if its requests came one after the other. *)
(* Between the read of a row and its lock a mark may come off, but none    *)
(* comes on unless the row is taken over or made anew, so what a request   *)
(* sets agrees with the mark it finds when it gets the lock.               *)
(***************************************************************************)
EXTENDS Files, Connectors, Packages, FiniteSetTheorems, TLAPS

-----------------------------------------------------------------------------
(* Files.                                                                  *)

\* Where a request's transaction is past what makes its file.
Past == {"over", "cleaning", "stopped"}
\* Where it has locked the row it is about, or creates it.
Writing == {"flushed", "saved"}

PC == {"new", "filtering", "checked", "inserting", "edited", "updating", "flushed", "saved",
       "removing", "deleted", "looked", "served", "missing"} \cup Past

Versions == Writer \X Nat \X Writer

Typed ==
    /\ rows \in [Writer -> Row \cup {NoFile}]
    /\ recorded \subseteq Versions /\ stored \subseteq Versions
    /\ pc \in [Request -> PC]
    /\ target \in [Request -> Writer \cup {NoFile}]
    /\ number \in [Request -> Nat]
    /\ unique \subseteq Upload
    /\ locks \in [Request -> SUBSET Writer]
    /\ todo \in [Request -> SUBSET Nat]
    /\ seen \in [Request -> SUBSET Writer]
    /\ faults \in Nat
    /\ raced \subseteq Writer
    /\ listed \subseteq Writer \X Nat /\ unremoved \subseteq Writer \X Nat

\* The places are those of the request's kind.
Kinds ==
    \A r \in Request :
        /\ pc[r] \in {"filtering", "checked"} => r \in Upload
        /\ pc[r] \in {"edited", "updating"} => r \in Tool
        /\ pc[r] \in Writing \cup {"inserting", "cleaning"} => r \in Writer
        /\ pc[r] \in {"removing", "deleted"} => r \in Delete
        /\ pc[r] \in {"looked", "served", "missing"} => r \in Reader

\* A row has at most one lock.
LockedOnce == \A q, r \in Request : q # r => locks[q] \cap locks[r] = {}

\* A file's row is written by its creator, once.
Born(f) == pc[f] \in Past
RowsOfPast == \A f \in Writer : rows[f] # NoFile => Born(f) /\ rows[f].current > 0

\* Before that nobody knows of the file.
Unborn ==
    \A f \in Writer : ~Born(f) => \A r \in Request : r # f => target[r] # f

IsAt(t, f, n) == t[1] = f /\ t[2] = n

\* CurrentIsLatest, record by record.
Numbered ==
    /\ \A t \in recorded : rows[t[1]] # NoFile /\ t[2] \in 1 .. rows[t[1]].current
    /\ \A f \in Writer : rows[f] # NoFile =>
          \A n \in 1 .. rows[f].current : \E t \in recorded : IsAt(t, f, n)
    /\ \A t, u \in recorded : IsAt(t, u[1], u[2]) => t[3] = u[3]

\* What the places of a request say of the row it is about.
AboutOf(r) ==
    /\ pc[r] \notin {"new", "filtering", "checked", "edited", "over", "stopped"} =>
          target[r] # NoFile
    /\ pc[r] = "inserting" => target[r] = r
    /\ target[r] = r /\ pc[r] \in {"inserting"} \cup Writing => number[r] = 1
    /\ pc[r] = "updating" => target[r] # r
    /\ pc[r] = "updating" /\ rows[target[r]] # NoFile =>
          number[r] \in 1 .. rows[target[r]].current + 1
    /\ pc[r] \in Writing /\ target[r] # r =>
          /\ rows[target[r]] # NoFile /\ target[r] \in locks[r]
          /\ number[r] \in 1 .. rows[target[r]].current + 1
          /\ number[r] = rows[target[r]].current + 1 \/ target[r] \in raced
    /\ pc[r] = "deleted" => target[r] \in locks[r]
    /\ pc[r] = "cleaning" => target[r] \in raced

Abouts == \A r \in Request : AboutOf(r)

\* A version that was recorded, of a file that may be gone.
Known(f, n) == (\E t \in recorded : IsAt(t, f, n)) \/ (rows[f] = NoFile /\ Born(f))

\* The contents at a path are those of c, or a deletion took them away.
Kept(f, n, c) ==
    /\ \A t \in stored : IsAt(t, f, n) => t[3] = c
    /\ (\E t \in stored : IsAt(t, f, n)) \/ <<f, n>> \in listed

\* A recorded version has the content of the request that recorded it, ...
RecordsKept == \A t \in recorded : Born(t[3]) /\ (t[1] \in raced \/ Kept(t[1], t[2], t[3]))

\* ... what is about to be recorded is stored, ...
SavedKept ==
    \A r \in Request : pc[r] = "saved" =>
        \/ target[r] \in raced
        \/ /\ Entry(r) \in stored
           /\ \A t \in stored : IsAt(t, target[r], number[r]) => t[3] = r

\* ... and readers find what they were told of.
ReadersKept ==
    \A r \in Reader :
        /\ pc[r] = "looked" =>
              /\ Known(target[r], number[r])
              /\ \/ target[r] \in raced
                 \/ \E c \in Writer : seen[r] = {c} /\ Kept(target[r], number[r], c)
        /\ pc[r] = "served" => target[r] \in raced \/ \E c \in Writer : seen[r] = {c}
        /\ pc[r] = "missing" => Path(r) \in listed \/ target[r] \in raced

\* Only versions are listed, ...
ListedKnown == \A p \in listed : Known(p[1], p[2])

\* ... and what a deletion is yet to remove is listed.
TodoListed ==
    \A d \in Request :
        /\ pc[d] = "new" => todo[d] = {}
        /\ d \notin Delete => todo[d] = {}
        /\ \A n \in todo[d] : target[d] # NoFile /\ <<target[d], n>> \in listed

\* A content is at the path its request wrote it to, ...
Mine ==
    \A t \in stored :
        /\ target[t[3]] = t[1] /\ number[t[3]] = t[2]
        /\ pc[t[3]] \in {"saved"} \cup Past

\* ... and after a commit it is recorded until the file is deleted.
Recorded ==
    \A t \in stored : pc[t[3]] = "over" =>
        /\ t \in recorded \/ (rows[t[1]] = NoFile /\ Born(t[1]))
        /\ <<t[1], t[2]>> \in listed \ unremoved =>
              \E d \in Delete : target[d] = t[1] /\ t[2] \in todo[d]

FilesInv ==
    /\ Typed /\ Kinds /\ LockedOnce /\ RowsOfPast /\ Unborn /\ Abouts /\ Numbered
    /\ RecordsKept /\ SavedKept /\ ReadersKept /\ ListedKnown /\ TodoListed /\ Mine /\ Recorded

-----------------------------------------------------------------------------
\* A step is one request's.
OnlyOf(r) ==
    \A q \in Request \ {r} :
        /\ pc'[q] = pc[q] /\ target'[q] = target[q] /\ number'[q] = number[q]
        /\ locks'[q] = locks[q] /\ todo'[q] = todo[q] /\ seen'[q] = seen[q]

LEMMA OneAtATime == ASSUME Typed, NEW r \in Request, Step(r) PROVE OnlyOf(r)
  <1> USE DEF OnlyOf, Typed, Goto, About, Unlock, files, history
  <1>1. CASE Check(r) \/ Filtered(r) \/ EditRead(r) \/ Insert(r)
    BY <1>1 DEF Check, Filtered, EditRead, Insert
  <1>2. CASE FindForUpdate(r) \/ FindFile(r)
    BY <1>2 DEF FindForUpdate, FindFile
  <1>3. CASE Update(r) \/ Save(r) \/ SaveFails(r) \/ Clean(r)
    BY <1>3 DEF Update, Save, SaveFails, Clean
  <1>4. CASE Commit(r) \/ CommitFails(r)
    BY <1>4 DEF Commit, CommitFails
  <1>5. CASE Choose(r) \/ Remove(r) \/ DeleteRow(r) \/ DeleteCommits(r)
    BY <1>5 DEF Choose, Remove, DeleteRow, DeleteCommits
  <1>6. CASE Look(r) \/ ReadContent(r) \/ Stop(r)
    BY <1>6 DEF Look, ReadContent, Stop
  <1>7. QED
    BY <1>1, <1>2, <1>3, <1>4, <1>5, <1>6 DEF Step

\* Whoever is past the making of its file stays so.
LEMMA BornForEver ==
    ASSUME FilesInv, NEW r \in Request, Step(r), NEW f \in Request, Born(f) PROVE Born(f)'
  <1> USE DEF FilesInv, Typed, Born, Past, Goto
  <1>1. CASE f # r
    BY <1>1, OneAtATime DEF OnlyOf
  <1>2. CASE f = r
    BY <1>2 DEF Step, Check, Filtered, EditRead, Insert, FindForUpdate, FindFile, Update, Save,
                SaveFails, Clean, Commit, CommitFails, Choose, Remove, DeleteRow, DeleteCommits,
                Look, ReadContent, Stop
  <1>3. QED
    BY <1>1, <1>2

\* Whatever a request finds is a file that is there.
LEMMA Found ==
    ASSUME NEW r
    PROVE  /\ Existing(r) \subseteq Writer /\ Preferred(r) \subseteq Writer
           /\ Visible(r) \subseteq Writer /\ Named \subseteq Writer
           /\ \A f \in Existing(r) \cup Preferred(r) \cup Visible(r) : rows[f] # NoFile
  BY DEF Existing, Preferred, Visible, Named

\* What is kept stays kept when the storage does not change.
LEMMA RecordsStay ==
    ASSUME RecordsKept, NEW r \in Request, \A f \in Request : Born(f) => Born(f)',
           recorded \subseteq Versions, recorded' = recorded, stored' = stored,
           raced \subseteq raced', listed \subseteq listed'
    PROVE  RecordsKept'
  BY DEF RecordsKept, Kept, IsAt, Versions, Request, Writer

\* The same of what is recorded, unless a request gets through.
LEMMA RecordedStays ==
    ASSUME Mine, Recorded, stored \subseteq Versions, NEW r \in Request, OnlyOf(r),
           \A f \in Request : Born(f) => Born(f)',
           UNCHANGED <<stored, listed, rows, recorded>>, unremoved \subseteq unremoved',
           pc[r] \notin {"saved"} \cup Past \/ pc'[r] # "over",
           (target'[r] = target[r] /\ todo'[r] = todo[r]) \/ r \notin Delete
    PROVE  Recorded'
  <1> SUFFICES ASSUME NEW t \in stored, pc'[t[3]] = "over"
               PROVE  /\ t \in recorded \/ (rows[t[1]] = NoFile /\ Born(t[1])')
                      /\ <<t[1], t[2]>> \in listed \ unremoved' =>
                           \E d \in Delete : target'[d] = t[1] /\ t[2] \in todo'[d]
    BY DEF Recorded, Born
  <1>1. t[1] \in Request /\ t[3] \in Request
    BY DEF Versions, Writer, Request
  <1>2. pc[t[3]] = "over"
    BY <1>1 DEF Mine, OnlyOf
  <1>3. \A d \in Delete : target'[d] = target[d] /\ todo'[d] = todo[d]
    BY DEF OnlyOf, Request
  <1>4. QED
    BY <1>1, <1>2, <1>3 DEF Recorded

\* Two requests never write to one file at once.
LEMMA OneWriter ==
    ASSUME FilesInv, NEW q \in Request, NEW r \in Request, q # r, pc[q] \in Writing, pc[r] \in Writing
    PROVE  target[q] # target[r]
  <1> USE DEF FilesInv, Typed, Writing, Kinds, Request
  <1>1. target[q] \in Writer /\ target[r] \in Writer /\ q \in Writer /\ r \in Writer
    BY DEF Abouts, AboutOf
  <1>2. ~Born(q) /\ ~Born(r)
    BY DEF Born, Past
  <1>3. CASE target[q] = q \/ target[r] = r
    BY <1>1, <1>2, <1>3 DEF Unborn
  <1>4. CASE target[q] # q /\ target[r] # r
    BY <1>4 DEF Abouts, AboutOf, LockedOnce
  <1>5. QED
    BY <1>3, <1>4

\* What is about to be written is a new version, or the file is raced for.
LEMMA NewPath ==
    ASSUME FilesInv, NEW r \in Request, pc[r] \in Writing, Known(target[r], number[r])
    PROVE  target[r] \in raced
  <1> USE DEF FilesInv, Typed, Writing
  <1>1. target[r] \in Writer /\ r \in Writer /\ ~Born(r)
    BY DEF Abouts, AboutOf, Kinds, Born, Past
  <1>2. rows[r] = NoFile
    BY <1>1 DEF RowsOfPast
  <1>3. target[r] # r
    BY <1>1, <1>2 DEF Known, Numbered, IsAt
  <1>4. rows[target[r]] # NoFile /\ rows[target[r]] \in Row
    BY <1>1, <1>3 DEF Abouts, AboutOf
  <1>5. number[r] \in 1 .. rows[target[r]].current
    BY <1>4 DEF Known, Numbered, IsAt
  <1>6. number[r] # rows[target[r]].current + 1
    BY <1>4, <1>5 DEF Row
  <1>7. QED
    BY <1>3, <1>6 DEF Abouts, AboutOf

\* A content is kept when nothing at its path changes.
LEMMA KeptStays ==
    ASSUME Typed, NEW f, NEW n, NEW c, Kept(f, n, c), listed \subseteq listed',
           \A t : IsAt(t, f, n) => (t \in stored' <=> t \in stored)
    PROVE  Kept(f, n, c)'
  BY DEF Kept, IsAt

-----------------------------------------------------------------------------
\* Steps that only move a request on, and may let go of its locks.
LEMMA MovesKeep ==
    ASSUME FilesInv, NEW r \in Request,
           \/ Check(r) \/ Filtered(r) \/ Insert(r) \/ EditRead(r) \/ SaveFails(r) \/ Stop(r)
    PROVE  FilesInv'
  <1> USE FilesAssumption DEF FilesInv, Typed, Goto, About, Unlock, Fault, files, history, Request,
          Writer, Path, Entry, PathOf, Born, IsAt, Past, Writing, PC, Versions
  <1>1. OnlyOf(r) /\ \A f \in Request : Born(f) => Born(f)'
    BY OneAtATime, BornForEver DEF Step
  <1>2. /\ UNCHANGED <<rows, recorded, stored, target, number, todo, seen, raced, listed,
                       unremoved>>
        /\ \/ locks' = locks
           \/ locks' = [locks EXCEPT ![r] = {}] /\ pc'[r] \notin Writing \cup {"deleted"}
        /\ unique' \subseteq Upload /\ faults' \in Nat
    BY DEF Check, Filtered, Insert, EditRead, SaveFails, Stop
  <1>3. /\ pc' = [pc EXCEPT ![r] = pc'[r]] /\ r \notin Reader
        /\ \/ /\ pc'[r] \in {"filtering", "checked", "edited"} /\ pc[r] \in {"new", "filtering"}
              /\ pc'[r] = "edited" => r \in Tool
              /\ pc'[r] \in {"filtering", "checked"} => r \in Upload
           \/ pc[r] = "inserting" /\ pc'[r] \in {"inserting", "flushed"}
           \/ pc'[r] = "over" /\ pc[r] \notin {"saved"} \cup Past
           \/ pc'[r] = "stopped" /\ pc[r] # "new"
    BY DEF Check, Filtered, Insert, EditRead, SaveFails, Stop, Kinds
  <1>4. Typed' /\ Kinds' /\ LockedOnce'
    BY <1>2, <1>3 DEF Kinds, LockedOnce
  <1>5. RowsOfPast' /\ Unborn' /\ Abouts'
    BY <1>1, <1>2, <1>3 DEF RowsOfPast, Unborn, Abouts, AboutOf
  <1>6. Numbered' /\ RecordsKept' /\ SavedKept'
    BY <1>1, <1>2, <1>3, RecordsStay DEF Numbered, SavedKept
  <1>7. ReadersKept' /\ ListedKnown'
    BY <1>1, <1>2, <1>3 DEF ReadersKept, Kept, Known, ListedKnown
  <1>8. TodoListed' /\ Mine'
    BY <1>1, <1>2, <1>3 DEF TodoListed, Mine
  <1>9. Recorded'
    BY <1>1, <1>2, <1>3, RecordedStays
  <1>10. QED
    BY <1>4, <1>5, <1>6, <1>7, <1>8, <1>9

\* An upload finds a file and locks it, or none.
LEMMA FindForUpdateKeeps ==
    ASSUME FilesInv, NEW r \in Request, FindForUpdate(r) PROVE FilesInv'
  <1> USE FilesAssumption DEF FilesInv, Typed, Goto, About, Unlock, Fault, files, history, Request,
          Writer, Path, Entry, PathOf, Born, IsAt, Past, Writing, PC, Versions
  <1>1. OnlyOf(r) /\ \A f \in Request : Born(f) => Born(f)'
    BY OneAtATime, BornForEver DEF Step
  <1>2. /\ r \in Upload /\ pc[r] = "checked" /\ Free(r, Existing(r))
        /\ locks' = [locks EXCEPT ![r] = Existing(r)]
        /\ unique' \subseteq unique \cup {r}
        /\ UNCHANGED <<rows, recorded, stored, todo, seen, faults, raced, listed, unremoved>>
    BY DEF FindForUpdate, Kinds
  <1>3. \E f \in Existing(r) \cup {r} :
           /\ target' = [target EXCEPT ![r] = f]
           /\ \/ /\ f = r /\ number' = [number EXCEPT ![r] = 1]
                 /\ pc' = [pc EXCEPT ![r] = "inserting"]
              \/ /\ f \in Existing(r) /\ number' = [number EXCEPT ![r] = rows[f].current + 1]
                 /\ pc' = [pc EXCEPT ![r] = "flushed"]
    <2>1. CASE Existing(r) # {} /\ r \in Updating
      <3>1. PICK f \in Existing(r) : About(r, f, rows[f].current + 1) /\ Goto(r, "flushed")
        BY <2>1 DEF FindForUpdate
      <3>2. QED
        BY <3>1
    <2>2. CASE ~(Existing(r) # {} /\ r \in Updating)
      BY <2>2 DEF FindForUpdate
    <2>3. QED
      BY <2>1, <2>2
  <1>4. /\ Existing(r) \subseteq Writer
        /\ \A f \in Existing(r) : rows[f] # NoFile /\ Born(f) /\ rows[f] \in Row
    BY Found DEF RowsOfPast
  <1>5. Kinds'
    BY DEF FindForUpdate, Kinds
  <1>6. Typed'
    BY <1>2, <1>3, <1>4 DEF Row
  <1>7. LockedOnce'
    BY <1>2, <1>4 DEF LockedOnce, Free
  <1>8. RowsOfPast'
    BY DEF FindForUpdate, RowsOfPast
  <1>9. Unborn'
    BY <1>1, <1>3, <1>4 DEF Unborn, OnlyOf
  <1>10. Abouts'
    <2>1. ASSUME NEW q \in Request \ {r} PROVE AboutOf(q)'
      BY <1>1, <1>2 DEF Abouts, AboutOf, OnlyOf
    <2>2. AboutOf(r)'
      BY <1>2, <1>3, <1>4 DEF AboutOf, Row, RowsOfPast
    <2>3. QED
      BY <2>1, <2>2 DEF Abouts
  <1>11. Numbered'
    BY DEF FindForUpdate, Numbered
  <1>12. SavedKept'
    BY DEF FindForUpdate, SavedKept
  <1>13. RecordsKept'
    BY <1>1, RecordsStay DEF FindForUpdate
  <1>14. ReadersKept'
    BY DEF FindForUpdate, ReadersKept, Kept, Known
  <1>15. ListedKnown'
    BY DEF FindForUpdate, ListedKnown, Known
  <1>16. TodoListed'
    BY <1>1, <1>2, <1>3 DEF TodoListed, OnlyOf
  <1>17. Mine'
    BY DEF FindForUpdate, Mine
  <1>18. Recorded'
    BY <1>1, <1>2, <1>3, RecordedStays
  <1>19. QED
    BY <1>5, <1>6, <1>7, <1>8, <1>9, <1>10, <1>11, <1>12, <1>13, <1>14, <1>15, <1>16, <1>17, <1>18

\* A tool remembers the number it read.
LEMMA FindFileKeeps ==
    ASSUME FilesInv, NEW r \in Request, FindFile(r) PROVE FilesInv'
  <1> USE FilesAssumption DEF FilesInv, Typed, Goto, About, Unlock, Fault, files, history, Request,
          Writer, Path, Entry, PathOf, Born, IsAt, Past, Writing, PC, Versions
  <1>1. OnlyOf(r) /\ \A f \in Request : Born(f) => Born(f)'
    BY OneAtATime, BornForEver DEF Step
  <1>2. /\ r \in Tool /\ pc[r] \in {"new", "edited"}
        /\ UNCHANGED <<rows, recorded, stored, unique, locks, todo, seen, faults, raced, listed,
                       unremoved>>
    BY DEF FindFile
  <1>3. \E f \in Preferred(r) \cup {r} :
           /\ target' = [target EXCEPT ![r] = f]
           /\ \/ /\ f = r /\ number' = [number EXCEPT ![r] = 1]
                 /\ pc' = [pc EXCEPT ![r] = "inserting"]
              \/ /\ f \in Preferred(r) /\ number' = [number EXCEPT ![r] = rows[f].current + 1]
                 /\ pc' = [pc EXCEPT ![r] = "updating"]
    BY DEF FindFile
  <1>4. /\ Preferred(r) \subseteq Writer
        /\ \A f \in Preferred(r) : rows[f] # NoFile /\ Born(f) /\ rows[f] \in Row
    BY Found DEF RowsOfPast
  <1>5. Kinds' /\ LockedOnce'
    BY DEF FindFile, Kinds, LockedOnce
  <1>6. Typed'
    BY <1>2, <1>3, <1>4 DEF Row
  <1>7. RowsOfPast'
    BY DEF FindFile, RowsOfPast
  <1>8. Unborn'
    BY <1>1, <1>3, <1>4 DEF Unborn, OnlyOf
  <1>9. Abouts'
    <2>1. ASSUME NEW q \in Request \ {r} PROVE AboutOf(q)'
      BY <1>1, <1>2 DEF Abouts, AboutOf, OnlyOf
    <2>2. AboutOf(r)'
      BY <1>2, <1>3, <1>4 DEF AboutOf, Row, RowsOfPast
    <2>3. QED
      BY <2>1, <2>2 DEF Abouts
  <1>10. Numbered'
    BY DEF FindFile, Numbered
  <1>11. RecordsKept' /\ SavedKept'
    BY DEF FindFile, RecordsKept, Kept, SavedKept
  <1>12. ReadersKept'
    BY DEF FindFile, ReadersKept, Kept, Known
  <1>13. ListedKnown' /\ TodoListed'
    BY DEF FindFile, ListedKnown, Known, TodoListed
  <1>14. Mine'
    BY DEF FindFile, Mine
  <1>15. Recorded'
    BY <1>1, RecordedStays DEF FindFile
  <1>16. QED
    BY <1>5, <1>6, <1>7, <1>8, <1>9, <1>10, <1>11, <1>12, <1>13, <1>14, <1>15

\* A tool gets the lock; its number is the next one still, or the file is raced for.
LEMMA UpdateKeeps ==
    ASSUME FilesInv, NEW r \in Request, Update(r) PROVE FilesInv'
  <1> USE FilesAssumption DEF FilesInv, Typed, Goto, About, Unlock, Fault, files, history, Request,
          Writer, Path, Entry, PathOf, Born, IsAt, Past, Writing, PC, Versions
  <1>1. OnlyOf(r) /\ \A f \in Request : Born(f) => Born(f)'
    BY OneAtATime, BornForEver DEF Step
  <1>2. /\ r \in Tool /\ pc[r] = "updating" /\ Free(r, {target[r]})
        /\ target[r] \in Writer \ {r}
        /\ UNCHANGED <<rows, recorded, stored, target, number, unique, todo, seen, faults, listed,
                       unremoved>>
    BY DEF Update, Kinds, Abouts, AboutOf
  <1>3. \/ /\ rows[target[r]] = NoFile /\ pc' = [pc EXCEPT ![r] = "over"]
           /\ UNCHANGED <<locks, raced>>
        \/ /\ rows[target[r]] # NoFile /\ pc' = [pc EXCEPT ![r] = "flushed"]
           /\ locks' = [locks EXCEPT ![r] = {target[r]}]
           /\ \/ rows[target[r]].current + 1 # number[r] /\ raced' = raced \cup {target[r]}
              \/ rows[target[r]].current + 1 = number[r] /\ raced' = raced
    BY <1>2 DEF Update
  <1>4. Kinds'
    BY DEF Update, Kinds
  <1>5. Typed'
    BY <1>2, <1>3
  <1>6. LockedOnce'
    BY <1>2, <1>3 DEF LockedOnce, Free
  <1>7. RowsOfPast' /\ Unborn'
    BY DEF Update, RowsOfPast, Unborn
  <1>8. Abouts'
    <2>1. ASSUME NEW q \in Request \ {r} PROVE AboutOf(q)'
      BY <1>1, <1>2, <1>3 DEF Abouts, AboutOf, OnlyOf
    <2>2. AboutOf(r)'
      BY <1>2, <1>3 DEF Abouts, AboutOf, Row, RowsOfPast
    <2>3. QED
      BY <2>1, <2>2 DEF Abouts
  <1>9. Numbered'
    BY DEF Update, Numbered
  <1>10. SavedKept'
    BY DEF Update, SavedKept
  <1>11. RecordsKept'
    BY <1>1, RecordsStay DEF Update
  <1>12. ReadersKept'
    BY DEF Update, ReadersKept, Kept, Known
  <1>13. ListedKnown' /\ TodoListed'
    BY DEF Update, ListedKnown, Known, TodoListed
  <1>14. Mine'
    BY DEF Update, Mine
  <1>15. Recorded'
    BY <1>1, RecordedStays DEF Update
  <1>16. QED
    BY <1>4, <1>5, <1>6, <1>7, <1>8, <1>9, <1>10, <1>11, <1>12, <1>13, <1>14, <1>15

\* What goes to the storage is at the path of a version nobody was told of.
LEMMA SaveKeeps ==
    ASSUME FilesInv, NEW r \in Request, Save(r) PROVE FilesInv'
  <1> USE FilesAssumption DEF FilesInv, Typed, Goto, About, Unlock, Fault, files, history, Request,
          Writer, Path, Entry, PathOf, Born, IsAt, Past, Writing, PC, Versions
  <1>1. OnlyOf(r) /\ \A f \in Request : Born(f) => Born(f)'
    BY OneAtATime, BornForEver DEF Step
  <1>2. /\ r \in Writer /\ pc[r] = "flushed" /\ target[r] \in Writer
        /\ stored' = {t \in stored : ~IsAt(t, target[r], number[r])} \cup {Entry(r)}
        /\ pc' = [pc EXCEPT ![r] = "saved"]
        /\ UNCHANGED <<rows, recorded, target, number, unique, locks, todo, seen, faults, raced,
                       listed, unremoved>>
    BY DEF Save, Kinds, Abouts, AboutOf
  <1>3. Known(target[r], number[r]) => target[r] \in raced
    BY <1>2, NewPath
  <1>4. \A f, n, c : ~IsAt(<<f, n>>, target[r], number[r]) /\ Kept(f, n, c) => Kept(f, n, c)'
    BY <1>2, KeptStays
  <1>5. Kinds' /\ LockedOnce'
    BY DEF Save, Kinds, LockedOnce
  <1>6. Typed'
    BY <1>2
  <1>7. RowsOfPast' /\ Unborn' /\ Abouts'
    BY DEF Save, RowsOfPast, Unborn, Abouts, AboutOf
  <1>8. Numbered'
    BY DEF Save, Numbered
  <1>9. RecordsKept'
    <2> SUFFICES ASSUME NEW t \in recorded
                 PROVE  Born(t[3])' /\ (t[1] \in raced \/ Kept(t[1], t[2], t[3])')
      BY <1>2 DEF RecordsKept
    <2>1. Known(t[1], t[2]) /\ t[3] \in Request
      BY DEF Known
    <2>2. QED
      BY <1>1, <1>2, <1>3, <1>4, <2>1 DEF RecordsKept
  <1>10. SavedKept'
    <2>1. ASSUME NEW q \in Request \ {r}, pc[q] = "saved" PROVE target[q] # target[r]
      BY <1>2, <2>1, OneWriter
    <2>2. QED
      BY <1>2, <2>1 DEF SavedKept
  <1>11. ReadersKept'
    BY <1>1, <1>2, <1>3, <1>4 DEF ReadersKept, Known
  <1>12. ListedKnown' /\ TodoListed'
    BY DEF Save, ListedKnown, Known, TodoListed
  <1>13. Mine' /\ Recorded'
    BY DEF Save, Mine, Recorded
  <1>14. QED
    BY <1>5, <1>6, <1>7, <1>8, <1>9, <1>10, <1>11, <1>12, <1>13

\* The next version is recorded with the content that was stored for it.
LEMMA CommitKeeps ==
    ASSUME FilesInv, NEW r \in Request, Commit(r) PROVE FilesInv'
  <1> USE FilesAssumption DEF FilesInv, Typed, Goto, About, Unlock, Fault, files, history, Request,
          Writer, Path, Entry, PathOf, Born, IsAt, Past, Writing, PC, Versions
  <1>1. OnlyOf(r) /\ \A f \in Request : Born(f) => Born(f)'
    BY OneAtATime, BornForEver DEF Step
  <1>2. /\ r \in Writer /\ pc[r] = "saved" /\ target[r] \in Writer /\ ~Born(r)
        /\ rows' = [rows EXCEPT ![target[r]] = IF target[r] = r THEN NewRow(r)
                                               ELSE [@ EXCEPT !.current = number[r]]]
        /\ recorded' = recorded \cup {Entry(r)} /\ ~VersionTaken(r)
        /\ \/ pc' = [pc EXCEPT ![r] = "over"] /\ UNCHANGED <<faults, raced>>
           \/ /\ pc' = [pc EXCEPT ![r] = "cleaning"] /\ faults' = faults + 1
              /\ raced' = raced \cup {target[r]}
        /\ locks' = [locks EXCEPT ![r] = {}]
        /\ UNCHANGED <<stored, target, number, unique, todo, seen, listed, unremoved>>
    BY DEF Commit, Kinds, Abouts, AboutOf
  <1>3. \/ target[r] = r /\ number[r] = 1 /\ rows[r] = NoFile
        \/ /\ target[r] # r /\ Born(target[r]) /\ rows[target[r]] \in Row
           /\ number[r] = rows[target[r]].current + 1
    <2>1. CASE target[r] = r
      BY <1>2, <2>1 DEF Abouts, AboutOf, RowsOfPast
    <2>2. CASE target[r] # r
      <3>1. /\ rows[target[r]] # NoFile /\ rows[target[r]] \in Row
            /\ number[r] \in 1 .. rows[target[r]].current + 1
        BY <1>2, <2>2 DEF Abouts, AboutOf
      <3>2. number[r] \notin 1 .. rows[target[r]].current
        BY <1>2, <3>1 DEF Numbered, VersionTaken
      <3>3. QED
        BY <1>2, <2>2, <3>1, <3>2 DEF RowsOfPast, Row
    <2>3. QED
      BY <2>1, <2>2
  <1>4. /\ rows'[target[r]] \in Row /\ rows'[target[r]].current = number[r]
        /\ \A f \in Writer \ {target[r]} : rows'[f] = rows[f]
    BY <1>2, <1>3 DEF NewRow, Row
  <1>5. ~Known(target[r], number[r])
    BY <1>2, <1>3 DEF Known, VersionTaken
  <1>6. \A q \in Request \ {r} : pc[q] \in Writing => target[q] # target[r]
    BY <1>2, OneWriter
  <1>7. \A f, n : f \in Writer /\ Known(f, n) => Known(f, n)'
    BY <1>1, <1>2, <1>3, <1>4 DEF Known
  <1>8. Kinds' /\ LockedOnce'
    BY DEF Commit, Kinds, LockedOnce
  <1>9. Typed'
    BY <1>2, <1>3, <1>4
  <1>10. Unborn'
    BY DEF Commit, Unborn
  <1>11. RowsOfPast'
    BY <1>1, <1>2, <1>3, <1>4 DEF RowsOfPast, Row
  <1>12. Abouts'
    <2>1. ASSUME NEW q \in Request \ {r} PROVE AboutOf(q)'
      <3>1. AboutOf(q) /\ (pc[q] = "updating" => target[q] # r)
        BY <1>2 DEF Abouts, Unborn
      <3>2. QED
        BY <1>1, <1>2, <1>3, <1>4, <1>6, <3>1 DEF AboutOf, OnlyOf, Row
    <2>2. AboutOf(r)'
      BY <1>2 DEF AboutOf
    <2>3. QED
      BY <2>1, <2>2 DEF Abouts
  <1>13. Numbered'
    <2>1. ASSUME NEW t \in recorded' PROVE rows'[t[1]] # NoFile /\ t[2] \in 1 .. rows'[t[1]].current
      BY <1>2, <1>3, <1>4 DEF Numbered, Row
    <2>2. ASSUME NEW f \in Writer, rows'[f] # NoFile, NEW n \in 1 .. rows'[f].current
          PROVE \E t \in recorded' : IsAt(t, f, n)
      <3>1. CASE f # target[r]
        <4>1. \E t \in recorded : IsAt(t, f, n)
          BY <1>4, <2>2, <3>1 DEF Numbered
        <4>2. QED
          BY <1>2, <4>1
      <3>2. CASE f = target[r] /\ n = number[r]
        <4>1. IsAt(Entry(r), f, n)
          BY <3>2
        <4>2. QED
          BY <1>2, <4>1
      <3>3. CASE f = target[r] /\ n # number[r]
        <4>1. rows[f] # NoFile /\ n \in 1 .. rows[f].current
          <5>1. n \in 1 .. number[r] - 1
            BY <1>4, <3>3
          <5>2. ~(target[r] = r /\ number[r] = 1 /\ rows[r] = NoFile)
            BY <5>1
          <5>3. rows[f] \in Row /\ number[r] = rows[f].current + 1
            BY <1>3, <3>3, <5>2
          <5>4. QED
            BY <5>1, <5>3 DEF Row
        <4>2. \E t \in recorded : IsAt(t, f, n)
          BY <4>1 DEF Numbered
        <4>3. QED
          BY <1>2, <4>2
      <3>4. QED
        BY <3>1, <3>2, <3>3
    <2>3. ASSUME NEW t \in recorded', NEW u \in recorded', IsAt(t, u[1], u[2]) PROVE t[3] = u[3]
      BY <1>2, <2>3 DEF Numbered, VersionTaken
    <2>4. QED
      BY <2>1, <2>2, <2>3 DEF Numbered
  <1>14. SavedKept'
    BY DEF Commit, SavedKept
  <1>15. RecordsKept'
    <2>1. ASSUME NEW t \in recorded
          PROVE  Born(t[3])' /\ (t[1] \in raced \/ Kept(t[1], t[2], t[3])')
      BY <1>1, <1>2 DEF RecordsKept, Kept
    <2>2. Born(r)' /\ (target[r] \in raced \/ Kept(target[r], number[r], r)')
      <3>1. IsAt(Entry(r), target[r], number[r])
        OBVIOUS
      <3>2. QED
        BY <1>2, <3>1 DEF SavedKept, Kept
    <2>3. QED
      BY <1>2, <2>1, <2>2 DEF RecordsKept
  <1>16. ReadersKept'
    <2>1. \A f, n, c : Kept(f, n, c) => Kept(f, n, c)'
      BY <1>2 DEF Kept
    <2>2. QED
      BY <1>1, <1>2, <1>7, <2>1 DEF ReadersKept, Abouts, AboutOf
  <1>17. TodoListed'
    BY DEF Commit, TodoListed
  <1>18. ListedKnown'
    BY <1>2, <1>7 DEF ListedKnown
  <1>19. Mine'
    BY DEF Commit, Mine
  <1>20. Recorded'
    <2> SUFFICES ASSUME NEW t \in stored, pc'[t[3]] = "over"
                 PROVE  /\ t \in recorded' \/ (rows[t[1]] = NoFile /\ Born(t[1]))'
                        /\ <<t[1], t[2]>> \in listed \ unremoved =>
                             \E d \in Delete : target[d] = t[1] /\ t[2] \in todo[d]
      BY <1>2 DEF Recorded
    <2>1. CASE t[3] = r
      BY <1>2, <1>5, <2>1 DEF Mine, ListedKnown
    <2>2. CASE t[3] # r
      <3>1. pc[t[3]] = "over"
        BY <1>1, <2>2 DEF OnlyOf
      <3>2. QED
        BY <1>1, <1>2, <1>3, <1>4, <3>1 DEF Recorded
    <2>3. QED
      BY <2>1, <2>2
  <1>21. QED
    BY <1>8, <1>9, <1>10, <1>11, <1>12, <1>13, <1>14, <1>15, <1>16, <1>17, <1>18, <1>19, <1>20

\* A commit that is refused was about a file that is raced for.
LEMMA CommitFailsKeeps ==
    ASSUME FilesInv, NEW r \in Request, CommitFails(r) PROVE FilesInv'
  <1> USE FilesAssumption DEF FilesInv, Typed, Goto, About, Unlock, Fault, files, history, Request,
          Writer, Path, Entry, PathOf, Born, IsAt, Past, Writing, PC, Versions
  <1>1. OnlyOf(r) /\ \A f \in Request : Born(f) => Born(f)'
    BY OneAtATime, BornForEver DEF Step
  <1>2. /\ r \in Writer /\ pc[r] = "saved" /\ target[r] \in Writer
        /\ \/ VersionTaken(r) /\ raced' = raced
           \/ raced' = raced \cup {target[r]}
        /\ faults' \in Nat
        /\ pc' = [pc EXCEPT ![r] = "cleaning"] /\ locks' = [locks EXCEPT ![r] = {}]
        /\ UNCHANGED <<rows, recorded, stored, target, number, unique, todo, seen, listed,
                       unremoved>>
    BY DEF CommitFails, Kinds, Abouts, AboutOf
  <1>3. target[r] \in raced'
    BY <1>2, NewPath DEF VersionTaken, Known
  <1>4. Kinds' /\ LockedOnce'
    BY DEF CommitFails, Kinds, LockedOnce
  <1>5. Typed'
    BY <1>2
  <1>6. RowsOfPast' /\ Unborn'
    BY DEF CommitFails, RowsOfPast, Unborn
  <1>7. Abouts'
    <2>1. ASSUME NEW q \in Request \ {r} PROVE AboutOf(q)'
      BY <1>1, <1>2 DEF Abouts, AboutOf, OnlyOf
    <2>2. AboutOf(r)'
      <3>1. pc'[r] = "cleaning" /\ target'[r] # NoFile /\ target'[r] \in raced'
        BY <1>2, <1>3
      <3>2. QED
        BY <3>1 DEF AboutOf
    <2>3. QED
      BY <2>1, <2>2 DEF Abouts
  <1>8. Numbered'
    BY DEF CommitFails, Numbered
  <1>9. RecordsKept' /\ SavedKept'
    BY DEF CommitFails, RecordsKept, Kept, SavedKept
  <1>10. ReadersKept'
    <2>1. \A f \in Writer : \A n : Known(f, n) => Known(f, n)'
      BY <1>1, <1>2 DEF Known
    <2>2. \A f, n, c : Kept(f, n, c) => Kept(f, n, c)'
      BY <1>2 DEF Kept
    <2>3. \A q \in Reader : q \in Request /\ pc'[q] = pc[q]
      BY <1>2
    <2>4. \A q \in Reader : pc[q] = "looked" => target[q] \in Writer
      BY <2>3 DEF Abouts, AboutOf
    <2>5. raced \subseteq raced'
      BY <1>2
    <2>6. QED
      BY <1>2, <2>1, <2>2, <2>3, <2>4, <2>5 DEF ReadersKept
  <1>11. ListedKnown' /\ TodoListed'
    BY DEF CommitFails, ListedKnown, Known, TodoListed
  <1>12. Mine'
    BY DEF CommitFails, Mine
  <1>13. Recorded'
    BY <1>1, <1>2, RecordedStays
  <1>14. QED
    BY <1>4, <1>5, <1>6, <1>7, <1>8, <1>9, <1>10, <1>11, <1>12, <1>13

\* Taking a content away hurts only files that are raced for.
LEMMA CleanKeeps ==
    ASSUME FilesInv, NEW r \in Request, Clean(r) PROVE FilesInv'
  <1> USE FilesAssumption DEF FilesInv, Typed, Goto, About, Unlock, Fault, files, history, Request,
          Writer, Path, Entry, PathOf, Born, IsAt, Past, Writing, PC, Versions
  <1>1. OnlyOf(r) /\ \A f \in Request : Born(f) => Born(f)'
    BY OneAtATime, BornForEver DEF Step
  <1>2. /\ r \in Writer /\ pc[r] = "cleaning" /\ target[r] \in Writer /\ target[r] \in raced
        /\ \/ /\ stored' = {t \in stored : ~IsAt(t, target[r], number[r])}
              /\ pc' = [pc EXCEPT ![r] = "over"]
           \/ stored' = stored /\ pc' = [pc EXCEPT ![r] = "stopped"]
        /\ UNCHANGED <<rows, recorded, target, number, unique, locks, todo, seen, raced, listed,
                       unremoved>>
    BY DEF Clean, Kinds, Abouts, AboutOf
  <1>3. \A f, n, c : ~IsAt(<<f, n>>, target[r], number[r]) /\ Kept(f, n, c) => Kept(f, n, c)'
    BY <1>2, KeptStays
  <1>4. Typed' /\ Kinds' /\ LockedOnce'
    BY DEF Clean, Typed, Kinds, LockedOnce
  <1>5. RowsOfPast' /\ Unborn' /\ Abouts'
    BY DEF Clean, RowsOfPast, Unborn, Abouts, AboutOf
  <1>6. Numbered'
    BY DEF Clean, Numbered
  <1>7. RecordsKept'
    BY <1>1, <1>2, <1>3 DEF RecordsKept
  <1>8. SavedKept'
    BY <1>1, <1>2 DEF SavedKept, OnlyOf
  <1>9. ReadersKept'
    <2>1. ASSUME NEW q \in Reader, pc[q] = "looked", target[q] \notin raced
          PROVE  \E c \in Writer : seen[q] = {c} /\ Kept(target[q], number[q], c)'
      <3>1. PICK c \in Writer : seen[q] = {c} /\ Kept(target[q], number[q], c)
        BY <2>1 DEF ReadersKept
      <3>2. QED
        BY <1>2, <1>3, <2>1, <3>1
    <2>2. \A q \in Reader : pc'[q] = pc[q]
      BY <1>1, <1>2 DEF OnlyOf
    <2>3. \A q \in Reader : pc[q] = "looked" => Known(target[q], number[q])'
      <3>1. \A f \in Writer, n \in Nat : Known(f, n) => Known(f, n)'
        BY <1>1, <1>2 DEF Known
      <3>2. \A q \in Reader : pc[q] = "looked" => 
              target[q] \in Writer /\ number[q] \in Nat /\ Known(target[q], number[q])
        BY DEF Abouts, AboutOf, ReadersKept
      <3>3. QED
        BY <1>2, <3>1, <3>2
    <2>4. QED
      BY <1>2, <2>1, <2>2, <2>3 DEF ReadersKept
  <1>10. ListedKnown' /\ TodoListed'
    BY DEF Clean, ListedKnown, Known, TodoListed
  <1>11. Mine'
    BY DEF Clean, Mine
  <1>12. Recorded'
    <2> SUFFICES ASSUME NEW t \in stored', pc'[t[3]] = "over"
                 PROVE  /\ t \in recorded \/ (rows[t[1]] = NoFile /\ Born(t[1]))'
                        /\ <<t[1], t[2]>> \in listed \ unremoved =>
                             \E d \in Delete : target[d] = t[1] /\ t[2] \in todo[d]
      BY <1>2 DEF Recorded
    <2>1. t \in stored /\ t[3] # r
      BY <1>2 DEF Mine
    <2>2. pc[t[3]] = "over"
      BY <1>1, <2>1 DEF OnlyOf
    <2>3. QED
      BY <1>1, <1>2, <2>1, <2>2 DEF Recorded
  <1>13. QED
    BY <1>4, <1>5, <1>6, <1>7, <1>8, <1>9, <1>10, <1>11, <1>12

\* What a deletion lists it will remove, or could not.
LEMMA ChooseKeeps ==
    ASSUME FilesInv, NEW r \in Request, Choose(r) PROVE FilesInv'
  <1> USE FilesAssumption DEF FilesInv, Typed, Goto, About, Unlock, Fault, files, history, Request,
          Writer, Path, Entry, PathOf, Born, IsAt, Past, Writing, PC, Versions
  <1>1. OnlyOf(r) /\ \A f \in Request : Born(f) => Born(f)'
    BY OneAtATime, BornForEver DEF Step
  <1>2. /\ r \in Delete /\ pc[r] = "new" /\ todo[r] = {}
        /\ UNCHANGED <<rows, recorded, stored, number, unique, locks, seen, faults, raced,
                       unremoved>>
    BY DEF Choose, TodoListed
  <1>3. \/ /\ pc' = [pc EXCEPT ![r] = "over"] /\ UNCHANGED <<target, todo, listed>>
        \/ \E f \in Writer :
             /\ rows[f] # NoFile /\ Born(f) /\ pc' = [pc EXCEPT ![r] = "removing"]
             /\ target' = [target EXCEPT ![r] = f]
             /\ todo' = [todo EXCEPT ![r] = {t[2] : t \in {v \in recorded : v[1] = f}}]
             /\ listed' = listed \cup {<<t[1], t[2]>> : t \in {v \in recorded : v[1] = f}}
    <2> DEFINE found == IF r \in DeleteTool THEN Visible(r) ELSE Preferred(r)
    <2>1. CASE found = {}
      BY <2>1 DEF Choose
    <2>2. CASE found # {}
      <3>1. PICK f \in found :
              /\ target' = [target EXCEPT ![r] = f]
              /\ todo' = [todo EXCEPT ![r] = {t[2] : t \in {v \in recorded : v[1] = f}}]
              /\ listed' = listed \cup {PathOf(t) : t \in {v \in recorded : v[1] = f}}
              /\ Goto(r, "removing")
        BY <2>2 DEF Choose
      <3>2. f \in Writer /\ rows[f] # NoFile /\ Born(f)
        BY Found DEF RowsOfPast
      <3>3. QED
        BY <3>1, <3>2
    <2>3. QED
      BY <2>1, <2>2
  <1>4. Kinds' /\ LockedOnce'
    BY DEF Choose, Kinds, LockedOnce
  <1>5. Typed'
    BY <1>2, <1>3
  <1>6. RowsOfPast'
    BY DEF Choose, RowsOfPast
  <1>7. Unborn'
    BY <1>1, <1>2, <1>3 DEF Unborn, OnlyOf
  <1>8. Abouts'
    <2>1. ASSUME NEW q \in Request \ {r} PROVE AboutOf(q)'
      BY <1>1, <1>2 DEF Abouts, AboutOf, OnlyOf
    <2>2. AboutOf(r)'
      BY <1>2, <1>3 DEF Abouts, AboutOf
    <2>3. QED
      BY <2>1, <2>2 DEF Abouts
  <1>9. Numbered'
    BY DEF Choose, Numbered
  <1>10. SavedKept'
    BY DEF Choose, SavedKept
  <1>11. RecordsKept'
    BY <1>1, RecordsStay DEF Choose
  <1>12. ReadersKept'
    BY DEF Choose, ReadersKept, Kept, Known
  <1>13. ListedKnown' /\ TodoListed'
    BY DEF Choose, ListedKnown, Known, TodoListed
  <1>14. Mine'
    BY DEF Choose, Mine
  <1>15. Recorded'
    <2> SUFFICES ASSUME NEW t \in stored, pc'[t[3]] = "over"
                 PROVE  /\ t \in recorded \/ (rows[t[1]] = NoFile /\ Born(t[1]))'
                        /\ <<t[1], t[2]>> \in listed' \ unremoved =>
                             \E d \in Delete : target'[d] = t[1] /\ t[2] \in todo'[d]
      BY <1>2 DEF Recorded
    <2>1. pc[t[3]] = "over" /\ t[1] \in Writer
      BY <1>1, <1>2, <1>3 DEF Mine, OnlyOf
    <2>2. CASE <<t[1], t[2]>> \in listed
      <3>1. \A d \in Delete : t[2] \in todo[d] => target'[d] = target[d] /\ todo'[d] = todo[d]
        BY <1>1, <1>2 DEF OnlyOf
      <3>2. QED
        BY <1>1, <1>2, <2>1, <2>2, <3>1 DEF Recorded
    <2>3. CASE <<t[1], t[2]>> \notin listed
      BY <1>1, <1>2, <1>3, <2>1, <2>3 DEF Recorded
    <2>4. QED
      BY <2>2, <2>3
  <1>16. QED
    BY <1>4, <1>5, <1>6, <1>7, <1>8, <1>9, <1>10, <1>11, <1>12, <1>13, <1>14, <1>15

\* Only a content that is listed is removed.
LEMMA RemoveKeeps ==
    ASSUME FilesInv, NEW r \in Request, Remove(r) PROVE FilesInv'
  <1> USE FilesAssumption DEF FilesInv, Typed, Goto, About, Unlock, Fault, files, history, Request,
          Writer, Path, Entry, PathOf, Born, IsAt, Past, Writing, PC, Versions
  <1>1. OnlyOf(r) /\ \A f \in Request : Born(f) => Born(f)'
    BY OneAtATime, BornForEver DEF Step
  <1>2. /\ r \in Delete /\ pc[r] = "removing" /\ target[r] \in Writer
        /\ UNCHANGED <<rows, recorded, pc, target, number, unique, locks, seen, raced, listed>>
    BY DEF Remove, Kinds, Abouts, AboutOf
  <1>3. PICK n \in todo[r] :
           /\ todo' = [todo EXCEPT ![r] = @ \ {n}]
           /\ \/ /\ stored' = {t \in stored : ~IsAt(t, target[r], n)}
                 /\ UNCHANGED <<faults, unremoved>>
              \/ /\ stored' = stored /\ unremoved' = unremoved \cup {<<target[r], n>>}
                 /\ faults' \in Nat
    <2>1. PICK n \in todo[r] :
            /\ todo' = [todo EXCEPT ![r] = @ \ {n}]
            /\ \/ /\ stored' = {t \in stored : PathOf(t) # <<target[r], n>>}
                  /\ UNCHANGED <<faults, unremoved>>
               \/ /\ Fault /\ stored' = stored
                  /\ unremoved' = unremoved \cup {<<target[r], n>>}
      BY DEF Remove
    <2>2. {t \in stored : PathOf(t) # <<target[r], n>>} = {t \in stored : ~IsAt(t, target[r], n)}
      OBVIOUS
    <2>3. faults + 1 \in Nat
      OBVIOUS
    <2>4. QED
      BY <2>1, <2>2, <2>3
  <1>4. <<target[r], n>> \in listed /\ Known(target[r], n) /\ n \in Nat
    BY <1>2 DEF TodoListed, ListedKnown
  <1>5. \A f, m, c : Kept(f, m, c) => Kept(f, m, c)'
    BY <1>2, <1>3, <1>4 DEF Kept
  <1>6. Kinds' /\ LockedOnce'
    BY DEF Remove, Kinds, LockedOnce
  <1>7. Typed'
    BY <1>2, <1>3, <1>4
  <1>8. RowsOfPast' /\ Unborn' /\ Abouts'
    BY DEF Remove, RowsOfPast, Unborn, Abouts, AboutOf
  <1>9. Numbered'
    BY DEF Remove, Numbered
  <1>10. RecordsKept'
    BY <1>2, <1>5 DEF RecordsKept
  <1>11. SavedKept'
    <2> SUFFICES ASSUME NEW q \in Request, pc[q] = "saved", target[q] \notin raced
                 PROVE  /\ Entry(q) \in stored'
                        /\ \A t \in stored' : IsAt(t, target[q], number[q]) => t[3] = q
      BY <1>2 DEF SavedKept
    <2>1. ~Known(target[q], number[q])
      BY NewPath
    <2>2. ~IsAt(Entry(q), target[r], n)
      BY <1>4, <2>1
    <2>3. QED
      BY <1>3, <2>2 DEF SavedKept
  <1>12. ReadersKept'
    BY <1>2, <1>5 DEF ReadersKept, Known
  <1>13. ListedKnown' /\ TodoListed'
    BY DEF Remove, ListedKnown, Known, TodoListed
  <1>14. Mine'
    BY DEF Remove, Mine
  <1>15. Recorded'
    <2> SUFFICES ASSUME NEW t \in stored', pc[t[3]] = "over"
                 PROVE  /\ t \in recorded \/ (rows[t[1]] = NoFile /\ Born(t[1]))'
                        /\ <<t[1], t[2]>> \in listed \ unremoved' =>
                             \E d \in Delete : target[d] = t[1] /\ t[2] \in todo'[d]
      BY <1>2 DEF Recorded
    <2>1. t \in stored /\ unremoved \subseteq unremoved'
      BY <1>3
    <2>2. ASSUME <<t[1], t[2]>> \in listed \ unremoved'
          PROVE  \E d \in Delete : target[d] = t[1] /\ t[2] \in todo'[d]
      <3>1. PICK d \in Delete : target[d] = t[1] /\ t[2] \in todo[d]
        BY <2>1, <2>2 DEF Recorded
      <3>2. CASE d # r
        BY <1>1, <3>1, <3>2 DEF OnlyOf
      <3>3. CASE d = r
        BY <1>2, <1>3, <2>2, <3>1, <3>3
      <3>4. QED
        BY <3>2, <3>3
    <2>3. QED
      BY <1>1, <1>2, <2>1, <2>2 DEF Recorded
  <1>16. QED
    BY <1>6, <1>7, <1>8, <1>9, <1>10, <1>11, <1>12, <1>13, <1>14, <1>15

\* A deletion gets the lock.
LEMMA DeleteRowKeeps ==
    ASSUME FilesInv, NEW r \in Request, DeleteRow(r) PROVE FilesInv'
  <1> USE FilesAssumption DEF FilesInv, Typed, Goto, About, Unlock, Fault, files, history, Request,
          Writer, Path, Entry, PathOf, Born, IsAt, Past, Writing, PC, Versions
  <1>1. OnlyOf(r) /\ \A f \in Request : Born(f) => Born(f)'
    BY OneAtATime, BornForEver DEF Step
  <1>2. /\ r \in Delete /\ pc[r] = "removing" /\ Free(r, {target[r]}) /\ target[r] \in Writer
        /\ \/ pc' = [pc EXCEPT ![r] = "over"] /\ UNCHANGED locks
           \/ /\ pc' = [pc EXCEPT ![r] = "deleted"]
              /\ locks' = [locks EXCEPT ![r] = {target[r]}]
        /\ UNCHANGED <<rows, recorded, stored, target, number, unique, todo, seen, faults, raced,
                       listed, unremoved>>
    BY DEF DeleteRow, Kinds, Abouts, AboutOf
  <1>3. Kinds'
    BY DEF DeleteRow, Kinds
  <1>4. Typed'
    BY <1>2
  <1>5. LockedOnce'
    BY <1>2 DEF LockedOnce, Free
  <1>6. RowsOfPast' /\ Unborn' /\ Abouts'
    BY DEF DeleteRow, RowsOfPast, Unborn, Abouts, AboutOf
  <1>7. Numbered'
    BY DEF DeleteRow, Numbered
  <1>8. SavedKept'
    BY DEF DeleteRow, SavedKept
  <1>9. RecordsKept'
    BY <1>1, RecordsStay DEF DeleteRow
  <1>10. ReadersKept'
    BY DEF DeleteRow, ReadersKept, Kept, Known
  <1>11. ListedKnown' /\ TodoListed'
    BY DEF DeleteRow, ListedKnown, Known, TodoListed
  <1>12. Mine'
    BY DEF DeleteRow, Mine
  <1>13. Recorded'
    BY <1>1, RecordedStays DEF DeleteRow
  <1>14. QED
    BY <1>3, <1>4, <1>5, <1>6, <1>7, <1>8, <1>9, <1>10, <1>11, <1>12, <1>13

\* A deletion ends, and nobody else is at the file.
LEMMA DeleteCommitsKeeps ==
    ASSUME FilesInv, NEW r \in Request, DeleteCommits(r) PROVE FilesInv'
  <1> USE FilesAssumption DEF FilesInv, Typed, Goto, About, Unlock, Fault, files, history, Request,
          Writer, Path, Entry, PathOf, Born, IsAt, Past, Writing, PC, Versions
  <1>1. OnlyOf(r) /\ \A f \in Request : Born(f) => Born(f)'
    BY OneAtATime, BornForEver DEF Step
  <1>2. /\ r \in Delete /\ pc[r] = "deleted" /\ target[r] \in Writer /\ target[r] \in locks[r]
        /\ \/ /\ rows' = [rows EXCEPT ![target[r]] = NoFile]
              /\ recorded' = {t \in recorded : t[1] # target[r]}
           \/ UNCHANGED <<rows, recorded>>
        /\ pc' = [pc EXCEPT ![r] = "over"] /\ locks' = [locks EXCEPT ![r] = {}]
        /\ UNCHANGED <<stored, target, number, unique, todo, seen, raced, listed, unremoved>>
    BY DEF DeleteCommits, Kinds, Abouts, AboutOf
  <1>3. \A f, n : f \in Writer /\ Known(f, n) => Known(f, n)'
    BY <1>1, <1>2 DEF Known, Numbered, RowsOfPast
  <1>4. \A q \in Request \ {r} : target[r] \notin locks[q]
    BY <1>2 DEF LockedOnce
  <1>5. Typed' /\ Kinds' /\ LockedOnce'
    BY DEF DeleteCommits, Typed, Kinds, LockedOnce
  <1>6. RowsOfPast' /\ Unborn'
    BY DEF DeleteCommits, RowsOfPast, Unborn
  <1>7. Abouts'
    <2>1. ASSUME NEW q \in Request \ {r} PROVE AboutOf(q)'
      <3>1. CASE target[q] # target[r]
        BY <1>1, <1>2, <3>1 DEF Abouts, AboutOf, OnlyOf
      <3>2. CASE target[q] = target[r]
        BY <1>1, <1>2, <1>4, <3>2 DEF Abouts, AboutOf, OnlyOf
      <3>3. QED
        BY <3>1, <3>2
    <2>2. AboutOf(r)'
      BY <1>2 DEF AboutOf
    <2>3. QED
      BY <2>1, <2>2 DEF Abouts
  <1>8. Numbered'
    BY DEF DeleteCommits, Numbered
  <1>9. SavedKept'
    BY DEF DeleteCommits, SavedKept
  <1>10. RecordsKept'
    <2>1. recorded' \subseteq recorded /\ \A f, n, c : Kept(f, n, c) => Kept(f, n, c)'
      BY <1>2 DEF Kept
    <2>2. \A t \in recorded : t[3] \in Request
      OBVIOUS
    <2>3. QED
      BY <1>1, <1>2, <2>1, <2>2 DEF RecordsKept
  <1>11. ReadersKept'
    <2>1. \A f, n, c : Kept(f, n, c) => Kept(f, n, c)'
      BY <1>2 DEF Kept
    <2>2. \A q \in Reader : pc'[q] = pc[q]
      BY <1>1, <1>2 DEF OnlyOf
    <2>3. QED
      BY <1>2, <1>3, <2>1, <2>2 DEF ReadersKept, Abouts, AboutOf
  <1>12. TodoListed'
    BY DEF DeleteCommits, TodoListed
  <1>13. ListedKnown'
    BY <1>2, <1>3 DEF ListedKnown
  <1>14. Mine'
    BY DEF DeleteCommits, Mine
  <1>15. Recorded'
    <2> SUFFICES ASSUME NEW t \in stored, pc'[t[3]] = "over"
                 PROVE  /\ t \in recorded' \/ (rows[t[1]] = NoFile /\ Born(t[1]))'
                        /\ <<t[1], t[2]>> \in listed \ unremoved =>
                             \E d \in Delete : target[d] = t[1] /\ t[2] \in todo[d]
      BY <1>2 DEF Recorded
    <2>1. pc[t[3]] = "over"
      BY <1>1, <1>2 DEF Mine, OnlyOf
    <2>2. t[1] \in Writer /\ (t \in recorded => rows[t[1]] # NoFile /\ Born(t[1]))
      BY DEF Numbered, RowsOfPast
    <2>3. QED
      BY <1>1, <1>2, <2>1, <2>2 DEF Recorded
  <1>16. QED
    BY <1>5, <1>6, <1>7, <1>8, <1>9, <1>10, <1>11, <1>12, <1>13, <1>14, <1>15

\* A reader is told of a version.
LEMMA LookKeeps ==
    ASSUME FilesInv, NEW r \in Request, Look(r) PROVE FilesInv'
  <1> USE FilesAssumption DEF FilesInv, Typed, Goto, About, Unlock, Fault, files, history, Request,
          Writer, Path, Entry, PathOf, Born, IsAt, Past, Writing, PC, Versions
  <1>1. OnlyOf(r) /\ \A f \in Request : Born(f) => Born(f)'
    BY OneAtATime, BornForEver DEF Step
  <1>2. /\ r \in Reader /\ pc[r] = "new" /\ pc' = [pc EXCEPT ![r] = "looked"]
        /\ UNCHANGED <<rows, recorded, stored, unique, locks, todo, faults, raced, listed,
                       unremoved>>
    BY DEF Look
  <1>3. PICK t \in recorded :
           /\ target' = [target EXCEPT ![r] = t[1]] /\ number' = [number EXCEPT ![r] = t[2]]
           /\ seen' = [seen EXCEPT ![r] = {t[3]}]
    BY DEF Look
  <1>4. Born(t[1]) /\ Known(t[1], t[2]) /\ t[1] \in Writer /\ t[3] \in Writer
    BY DEF Numbered, RowsOfPast, Known
  <1>5. Typed' /\ Kinds' /\ LockedOnce'
    BY DEF Look, Typed, Kinds, LockedOnce
  <1>6. RowsOfPast' /\ Abouts'
    BY DEF Look, RowsOfPast, Abouts, AboutOf
  <1>7. Unborn'
    BY <1>1, <1>3, <1>4 DEF Unborn, OnlyOf
  <1>8. Numbered'
    BY DEF Look, Numbered
  <1>9. SavedKept'
    BY DEF Look, SavedKept
  <1>10. RecordsKept'
    BY <1>1, RecordsStay DEF Look
  <1>11. ReadersKept'
    <2>1. ASSUME NEW q \in Reader \ {r}
          PROVE  /\ pc'[q] = pc[q] /\ target'[q] = target[q]
                 /\ number'[q] = number[q] /\ seen'[q] = seen[q]
      BY <1>1 DEF OnlyOf
    <2>2. /\ Known(t[1], t[2])' /\ seen'[r] = {t[3]} /\ target'[r] = t[1] /\ number'[r] = t[2]
          /\ t[1] \in raced \/ Kept(t[1], t[2], t[3])'
      BY <1>1, <1>2, <1>3, <1>4 DEF Known, RecordsKept, Kept
    <2>3. /\ \A f \in Writer, n \in Nat : Known(f, n) => Known(f, n)'
          /\ \A f \in Writer, n \in Nat, c \in Writer : Kept(f, n, c) => Kept(f, n, c)'
      BY <1>1, <1>2 DEF Known, Kept
    <2>4. \A q \in Reader : pc[q] = "looked" => target[q] \in Writer /\ number[q] \in Nat
      BY DEF Abouts, AboutOf
    <2>5. QED
      BY <1>2, <1>4, <2>1, <2>2, <2>3, <2>4 DEF ReadersKept
  <1>12. ListedKnown' /\ TodoListed'
    BY DEF Look, ListedKnown, Known, TodoListed
  <1>13. Mine'
    BY DEF Look, Mine
  <1>14. Recorded'
    BY <1>1, <1>2, RecordedStays
  <1>15. QED
    BY <1>5, <1>6, <1>7, <1>8, <1>9, <1>10, <1>11, <1>12, <1>13, <1>14

\* A reader gets the one content there is.
LEMMA ReadContentKeeps ==
    ASSUME FilesInv, NEW r \in Request, ReadContent(r) PROVE FilesInv'
  <1> USE FilesAssumption DEF FilesInv, Typed, Goto, About, Unlock, Fault, files, history, Request,
          Writer, Path, Entry, PathOf, Born, IsAt, Past, Writing, PC, Versions
  <1>1. OnlyOf(r) /\ \A f \in Request : Born(f) => Born(f)'
    BY OneAtATime, BornForEver DEF Step
  <1> DEFINE here == {t \in stored : IsAt(t, target[r], number[r])}
  <1>2. /\ r \in Reader /\ pc[r] = "looked" /\ target[r] \in Writer
        /\ \/ /\ here # {} /\ seen' = [seen EXCEPT ![r] = @ \cup {t[3] : t \in here}]
              /\ pc' = [pc EXCEPT ![r] = "served"]
           \/ /\ here = {} /\ seen' = seen /\ pc' = [pc EXCEPT ![r] = "missing"]
        /\ UNCHANGED <<rows, recorded, stored, target, number, unique, locks, todo, faults, raced,
                       listed, unremoved>>
    <2>1. r \in Reader /\ pc[r] = "looked" /\ target[r] \in Writer
      BY DEF ReadContent, Kinds, Abouts, AboutOf
    <2>2. {v \in stored : PathOf(v) = Path(r)} = here
      OBVIOUS
    <2>3. (\E t \in stored : PathOf(t) = Path(r)) <=> here # {}
      OBVIOUS
    <2>4. QED
      BY <2>1, <2>2, <2>3 DEF ReadContent
  <1>3. Typed' /\ Kinds' /\ LockedOnce'
    BY DEF ReadContent, Typed, Kinds, LockedOnce
  <1>4. RowsOfPast' /\ Unborn' /\ Abouts'
    BY DEF ReadContent, RowsOfPast, Unborn, Abouts, AboutOf
  <1>5. Numbered'
    BY DEF ReadContent, Numbered
  <1>6. SavedKept'
    BY DEF ReadContent, SavedKept
  <1>7. RecordsKept'
    BY <1>1, RecordsStay DEF ReadContent
  <1>8. ReadersKept'
    <2>1. ASSUME NEW q \in Reader \ {r} PROVE pc'[q] = pc[q] /\ seen'[q] = seen[q]
      BY <1>1 DEF OnlyOf
    <2>2. /\ \A f \in Writer, n \in Nat : Known(f, n) => Known(f, n)'
          /\ \A f \in Writer, n \in Nat, c \in Writer : Kept(f, n, c) => Kept(f, n, c)'
      BY <1>1, <1>2 DEF Known, Kept
    <2>3. \A q \in Reader : pc[q] = "looked" => target[q] \in Writer /\ number[q] \in Nat
      BY DEF Abouts, AboutOf
    <2>4. /\ pc'[r] = "served" => target[r] \in raced \/ \E c \in Writer : seen'[r] = {c}
          /\ pc'[r] = "missing" => Path(r) \in listed \/ target[r] \in raced
          /\ pc'[r] # "looked"
      BY <1>2 DEF ReadersKept, Kept
    <2>5. QED
      BY <1>2, <2>1, <2>2, <2>3, <2>4 DEF ReadersKept
  <1>9. ListedKnown' /\ TodoListed'
    BY DEF ReadContent, ListedKnown, Known, TodoListed
  <1>10. Mine'
    BY DEF ReadContent, Mine
  <1>11. Recorded'
    BY <1>1, RecordedStays DEF ReadContent
  <1>12. QED
    BY <1>3, <1>4, <1>5, <1>6, <1>7, <1>8, <1>9, <1>10, <1>11

-----------------------------------------------------------------------------
LEMMA FilesInvInit == Init => FilesInv
  <1> USE FilesAssumption DEF FilesInv, Request, Writer
  <1>1. Init => Typed /\ Kinds /\ LockedOnce /\ RowsOfPast /\ Unborn
    BY DEF Init, Typed, PC, Past, Kinds, LockedOnce, RowsOfPast, Unborn, Born, Writing
  <1>2. Init => Abouts /\ Numbered /\ RecordsKept /\ SavedKept
    BY DEF Init, Abouts, AboutOf, Numbered, RecordsKept, SavedKept, Writing
  <1>3. Init => ReadersKept /\ ListedKnown /\ TodoListed /\ Mine /\ Recorded
    BY DEF Init, ReadersKept, ListedKnown, TodoListed, Mine, Recorded
  <1>4. QED
    BY <1>1, <1>2, <1>3

LEMMA FilesInvNext == FilesInv /\ [Next]_vars => FilesInv'
  <1> SUFFICES ASSUME FilesInv, [Next]_vars PROVE FilesInv'
    OBVIOUS
  <1>1. ASSUME NEW r \in Request, Step(r) PROVE FilesInv'
    BY <1>1, MovesKeep, FindForUpdateKeeps, FindFileKeeps, UpdateKeeps, SaveKeeps, CommitKeeps,
       CommitFailsKeeps, CleanKeeps, ChooseKeeps, RemoveKeeps, DeleteRowKeeps, DeleteCommitsKeeps,
       LookKeeps, ReadContentKeeps DEF Step
  <1>2. CASE UNCHANGED vars
    <2> USE <1>2 DEF vars, FilesInv, Born
    <2>1. Typed' /\ Kinds' /\ LockedOnce' /\ RowsOfPast' /\ Unborn' /\ Abouts' /\ Numbered'
      BY DEF Typed, Kinds, LockedOnce, RowsOfPast, Unborn, Abouts, AboutOf, Numbered
    <2>2. RecordsKept' /\ SavedKept'
      BY DEF RecordsKept, Kept, SavedKept, Entry
    <2>3. ReadersKept' /\ ListedKnown' /\ TodoListed' /\ Mine' /\ Recorded'
      BY DEF ReadersKept, Known, Kept, ListedKnown, TodoListed, Mine, Recorded, Path
    <2>4. QED
      BY <2>1, <2>2, <2>3
  <1>3. QED
    BY <1>1, <1>2 DEF Next

\* Who locks, writes, removes and reads what: an invariant of every instance.
THEOREM FilesInductive == Spec => []FilesInv
  BY FilesInvInit, FilesInvNext, PTL DEF Spec

\* ServedAsRecorded for any number of requests, of users and of faults.
THEOREM Served == Spec => []ServedAsRecorded
  <1>1. FilesInv => ServedAsRecorded
    <2> SUFFICES ASSUME FilesInv, NEW r \in Reader
                 PROVE  /\ pc[r] = "served" => Cardinality(seen[r]) = 1 \/ target[r] \in raced
                        /\ pc[r] = "missing" => Path(r) \in listed \/ target[r] \in raced
      BY DEF ServedAsRecorded
    <2>1. pc[r] = "served" => target[r] \in raced \/ \E c \in Writer : seen[r] = {c}
      BY DEF FilesInv, ReadersKept
    <2>2. \A c : Cardinality({c}) = 1
      BY FS_Singleton
    <2>3. QED
      BY <2>1, <2>2 DEF FilesInv, ReadersKept
  <1>2. QED
    BY <1>1, FilesInductive, PTL

\* CurrentIsLatest for any number of requests, of users and of faults.
THEOREM NumberedWithoutGap == Spec => []CurrentIsLatest
  <1>1. FilesInv => CurrentIsLatest
    <2> SUFFICES ASSUME FilesInv, NEW f \in Writer
                 PROVE  /\ {t[2] : t \in {v \in recorded : v[1] = f}} =
                             IF rows[f] = NoFile THEN {} ELSE 1 .. rows[f].current
                        /\ \A t, u \in recorded : PathOf(t) = PathOf(u) => t = u
      BY DEF CurrentIsLatest
    <2>1. \A t, u \in recorded : PathOf(t) = PathOf(u) => t = u
      BY DEF FilesInv, Typed, Versions, Numbered, IsAt, PathOf
    <2>2. CASE rows[f] = NoFile
      BY <2>1, <2>2 DEF FilesInv, Numbered
    <2>3. CASE rows[f] # NoFile
      <3>1. \A t \in recorded : t[1] = f => t[2] \in 1 .. rows[f].current
        BY <2>3 DEF FilesInv, Numbered
      <3>2. \A n \in 1 .. rows[f].current : \E t \in recorded : t[1] = f /\ t[2] = n
        BY <2>3 DEF FilesInv, Numbered, IsAt
      <3>3. QED
        BY <2>1, <2>3, <3>1, <3>2
    <2>4. QED
      BY <2>2, <2>3
  <1>2. QED
    BY <1>1, FilesInductive, PTL

\* ContentAccountedFor for any number of requests, of users and of faults.
THEOREM Accounted == Spec => []ContentAccountedFor
  <1>1. FilesInv => ContentAccountedFor
    BY DEF FilesInv, ContentAccountedFor, Mine, Recorded, Past, PathOf
  <1>2. QED
    BY <1>1, FilesInductive, PTL

-----------------------------------------------------------------------------
(* Connectors.                                                             *)

\* One call at a time talks to the provider, and the row is the one it read.
Holding(c) == At(c, {"posting", "storing"})

Held ==
    /\ \A c, d \in Call : Holding(c) /\ Holding(d) => c = d
    /\ \A c \in Call : Holding(c) =>
          row.present /\ row.refresh # None /\ call[c].read = row.refresh
    /\ ~row.present => row.refresh = None

\* No token is spoken of that was not issued.
Issued ==
    /\ row.refresh <= issued
    /\ \A c \in Call : call[c].read <= issued

\* A token on its way to the row has neither been stored nor spent.
Fresh(k) == k <= issued /\ k \notin rotated /\ k # row.refresh

OnItsWay ==
    /\ \A c \in Call : At(c, {"storing"}) =>
          LET k == call[c].answer.refresh
          IN IF k = None THEN call[c].read \notin rotated
             ELSE Fresh(k) /\ \A s \in Consent : consent[s].answer.refresh # k
    /\ \A s \in Consent : consent[s].answer.refresh # None => Fresh(consent[s].answer.refresh)
    /\ \A s, t \in Consent :
          consent[s].answer.refresh # None /\ consent[s].answer.refresh = consent[t].answer.refresh
              => s = t

\* All of it: the invariant.
TokensInv == TypeOK /\ Held /\ Issued /\ OnItsWay /\ TokensKept

CallRecord == [pc : Call_PC, read : Nat, answer : Answer]
ConsentRecord == [pc : Consent_PC, read : Nat, answer : Answer]

\* What a call does with the row as it reads it.
LEMMA Resolved ==
    ASSUME TypeOK, NEW c \in Call, NEW next \in Call_PC, Resolve(c, next)
    PROVE  \E new \in CallRecord :
              /\ call' = [call EXCEPT ![c] = new]
              /\ \/ new.pc \in {"over", "sending"} /\ new.read \in {None, call[c].read}
                 \/ /\ row.present /\ row.refresh # None
                    /\ new.pc = next /\ new.read = row.refresh
  <1> USE DEF TypeOK, CallRecord
  <1>1. CASE ~row.present \/ (row.present /\ ~TokenStillValid /\ row.refresh = None)
    <2>1. [Blank EXCEPT !.pc = "over"] \in CallRecord
      BY DEF Blank, NoAnswer, Answer, Call_PC, None
    <2>2. call' = [call EXCEPT ![c] = [Blank EXCEPT !.pc = "over"]]
      BY <1>1 DEF Resolve, Ends
    <2>3. QED
      BY <2>1, <2>2 DEF Blank
  <1>2. CASE row.present /\ TokenStillValid
    <2>1. [call[c] EXCEPT !.pc = "sending"] \in CallRecord
      BY DEF Call_PC
    <2>2. call' = [call EXCEPT ![c] = [call[c] EXCEPT !.pc = "sending"]]
      BY <1>2 DEF Resolve, Goes
    <2>3. QED
      BY <2>1, <2>2
  <1>3. CASE row.present /\ ~TokenStillValid /\ row.refresh # None
    <2>1. [call[c] EXCEPT !.pc = next, !.read = row.refresh] \in CallRecord
      OBVIOUS
    <2>2. call' = [call EXCEPT ![c] = [call[c] EXCEPT !.pc = next, !.read = row.refresh]]
      BY <1>3 DEF Resolve
    <2>3. QED
      BY <1>3, <2>1, <2>2
  <1>4. QED
    BY <1>1, <1>2, <1>3

\* What is written of an answer.
LEMMA StoredRow ==
    ASSUME TypeOK, NEW read \in Nat, NEW answer \in Answer
    PROVE  /\ Stored(read, answer) \in [present : BOOLEAN, refresh : Nat, expiry : {"unknown", "later", "past"}]
           /\ Stored(read, answer).present
           /\ answer.refresh # None => Stored(read, answer).refresh = answer.refresh
           /\ answer.refresh = None => Stored(read, answer).refresh = row.refresh
  BY DEF TypeOK, Stored, Answer

\* A call reads the row without a lock; what it reads may be spent by then.
LEMMA GetTokenKeeps ==
    ASSUME TokensInv, NEW c \in Call, GetToken(c) PROVE TokensInv'
  <1> USE DEF TokensInv, TypeOK, Holding, At, provider, Goes, Ends, Moves, Closes, Blank,
            NoAnswer, Absent, Answer, Strike, None, Call_PC, Consent_PC, RowFree, TokenStillValid
  <1>1. PICK new \in CallRecord :
          /\ call' = [call EXCEPT ![c] = new]
          /\ \/ new.pc \in {"over", "sending"} /\ new.read \in {None, call[c].read}
             \/ row.present /\ row.refresh # None /\ new.pc = "locking" /\ new.read = row.refresh
    BY Resolved DEF GetToken
  <1>2. UNCHANGED <<row, issued, rotated, reused, orphaned, consent, expiries, failures>>
    BY DEF GetToken
  <1>3. TypeOK'
    BY <1>1, <1>2 DEF CallRecord
  <1>4. Held'
    BY <1>1, <1>2 DEF Held, GetToken
  <1>5. Issued'
    BY <1>1, <1>2 DEF Issued, CallRecord
  <1>6. OnItsWay'
    BY <1>1, <1>2 DEF OnItsWay, Fresh, GetToken
  <1>7. TokensKept'
    BY <1>1, <1>2 DEF TokensKept, GetToken
  <1>8. QED
    BY <1>3, <1>4, <1>5, <1>6, <1>7

\* The process's lock is not what keeps a token from being spent twice.
LEMMA GetLockKeeps ==
    ASSUME TokensInv, NEW c \in Call, GetLock(c) PROVE TokensInv'
  <1> USE DEF TokensInv, TypeOK, Holding, At, provider, Goes, Ends, Moves, Closes, Blank,
            NoAnswer, Absent, Answer, Strike, None, Call_PC, Consent_PC, RowFree, TokenStillValid
  <1>1. TypeOK'
    BY DEF GetLock, Answers, Stored, Owning, Refreshing, Resolve, TypeOK
  <1>2. Held'
    BY DEF GetLock, Answers, Stored, Owning, Refreshing, Resolve, Held, Holding
  <1>3. Issued'
    BY DEF GetLock, Answers, Stored, Owning, Refreshing, Resolve, Issued
  <1>4. OnItsWay'
    BY DEF GetLock, Answers, Stored, Owning, Refreshing, Resolve, OnItsWay, Fresh
  <1>5. TokensKept'
    BY DEF GetLock, Answers, Stored, Owning, Refreshing, Resolve, TokensKept
  <1>6. QED
    BY <1>1, <1>2, <1>3, <1>4, <1>5

\* Nor is the connection,
LEMMA OpenSessionKeeps ==
    ASSUME TokensInv, NEW c \in Call, OpenSession(c) PROVE TokensInv'
  <1> USE DEF TokensInv, TypeOK, Holding, At, provider, Goes, Ends, Moves, Closes, Blank,
            NoAnswer, Absent, Answer, Strike, None, Call_PC, Consent_PC, RowFree, TokenStillValid
  <1>1. TypeOK'
    BY DEF OpenSession, Answers, Stored, Owning, Refreshing, Resolve, TypeOK
  <1>2. Held'
    BY DEF OpenSession, Answers, Stored, Owning, Refreshing, Resolve, Held, Holding
  <1>3. Issued'
    BY DEF OpenSession, Answers, Stored, Owning, Refreshing, Resolve, Issued
  <1>4. OnItsWay'
    BY DEF OpenSession, Answers, Stored, Owning, Refreshing, Resolve, OnItsWay, Fresh
  <1>5. TokensKept'
    BY DEF OpenSession, Answers, Stored, Owning, Refreshing, Resolve, TokensKept
  <1>6. QED
    BY <1>1, <1>2, <1>3, <1>4, <1>5

\* nor its absence.
LEMMA PoolTimesOutKeeps ==
    ASSUME TokensInv, NEW c \in Call, PoolTimesOut(c) PROVE TokensInv'
  <1> USE DEF TokensInv, TypeOK, Holding, At, provider, Goes, Ends, Moves, Closes, Blank,
            NoAnswer, Absent, Answer, Strike, None, Call_PC, Consent_PC, RowFree, TokenStillValid
  <1>1. TypeOK'
    BY DEF PoolTimesOut, Answers, Stored, Owning, Refreshing, Resolve, TypeOK
  <1>2. Held'
    BY DEF PoolTimesOut, Answers, Stored, Owning, Refreshing, Resolve, Held, Holding
  <1>3. Issued'
    BY DEF PoolTimesOut, Answers, Stored, Owning, Refreshing, Resolve, Issued
  <1>4. OnItsWay'
    BY DEF PoolTimesOut, Answers, Stored, Owning, Refreshing, Resolve, OnItsWay, Fresh
  <1>5. TokensKept'
    BY DEF PoolTimesOut, Answers, Stored, Owning, Refreshing, Resolve, TokensKept
  <1>6. QED
    BY <1>1, <1>2, <1>3, <1>4, <1>5

\* Whoever gets the row's lock has read the token the row holds.
LEMMA SelectForUpdateKeeps ==
    ASSUME TokensInv, NEW c \in Call, SelectForUpdate(c) PROVE TokensInv'
  <1> USE DEF TokensInv, TypeOK, Holding, At, provider, Goes, Ends, Moves, Closes, Blank,
            NoAnswer, Absent, Answer, Strike, None, Call_PC, Consent_PC, RowFree, TokenStillValid
  <1>1. PICK new \in CallRecord :
          /\ call' = [call EXCEPT ![c] = new]
          /\ \/ new.pc \in {"over", "sending"} /\ new.read \in {None, call[c].read}
             \/ row.present /\ row.refresh # None /\ new.pc = "posting" /\ new.read = row.refresh
    BY Resolved DEF SelectForUpdate
  <1>2. UNCHANGED <<row, issued, rotated, reused, orphaned, consent, expiries, failures>>
    BY DEF SelectForUpdate
  <1>3. TypeOK'
    BY <1>1, <1>2 DEF CallRecord
  <1>4. Held'
    BY <1>1, <1>2 DEF Held, SelectForUpdate
  <1>5. Issued'
    BY <1>1, <1>2 DEF Issued, CallRecord
  <1>6. OnItsWay'
    BY <1>1, <1>2 DEF OnItsWay, Fresh, SelectForUpdate
  <1>7. TokensKept'
    BY <1>1, <1>2 DEF TokensKept, SelectForUpdate
  <1>8. QED
    BY <1>3, <1>4, <1>5, <1>6, <1>7

\* The token the row holds is spent, and its replacement is with the call that has the lock.
LEMMA PostRefreshKeeps ==
    ASSUME TokensInv, NEW c \in Call, PostRefresh(c) PROVE TokensInv'
  <1> USE DEF TokensInv, TypeOK, Holding, At, provider, Goes, Ends, Moves, Closes, Blank,
            NoAnswer, Absent, Answer, Strike, None, Call_PC, Consent_PC, RowFree, TokenStillValid
  <1>1. PICK rotating \in BOOLEAN, answer \in Answer :
          /\ Answers(rotating, answer)
          /\ rotated' = IF rotating THEN rotated \cup {call[c].read} ELSE rotated
          /\ call' = [call EXCEPT ![c] = [@ EXCEPT !.pc = "storing", !.answer = answer]]
    <2>1. PICK rotating \in BOOLEAN, answer \in [refresh : {None, issued + 1}, lifetime : BOOLEAN] :
              /\ Answers(rotating, answer)
              /\ rotated' = IF rotating THEN rotated \cup {call[c].read} ELSE rotated
              /\ call' = [call EXCEPT ![c].pc = "storing", ![c].answer = answer]
      BY DEF PostRefresh
    <2>2. answer \in Answer
      <3>1. issued \in Nat /\ issued + 1 \in Nat /\ None \in Nat
        OBVIOUS
      <3>2. {None, issued + 1} \subseteq Nat
        BY <3>1
      <3>3. QED
        BY <2>1, <3>2
    <2>3. call' = [call EXCEPT ![c] = [@ EXCEPT !.pc = "storing", !.answer = answer]]
      BY <2>1
    <2>4. QED
      BY <2>1, <2>2, <2>3
  <1>2. /\ At(c, {"posting"}) /\ call[c].read \notin rotated /\ call[c].read = row.refresh
        /\ row.refresh # None /\ row.refresh <= issued
        /\ UNCHANGED <<row, reused, orphaned, consent, expiries, failures>>
    BY DEF PostRefresh, Held, Issued
  <1>3. /\ issued' \in Nat /\ issued <= issued'
        /\ answer.refresh = IF rotating THEN issued + 1 ELSE None
        /\ rotating => issued' = issued + 1
    BY <1>1 DEF Answers
  <1>4. /\ call'[c].pc = "storing" /\ call'[c].read = call[c].read /\ call'[c].answer = answer
        /\ \A d \in Call \ {c} : call'[d] = call[d]
    <2>1. call[c] \in [pc : Call_PC, read : Nat, answer : Answer]
      OBVIOUS
    <2>2. call'[c] = [call[c] EXCEPT !.pc = "storing", !.answer = answer]
      BY <1>1
    <2>3. \A d \in Call \ {c} : call'[d] = call[d]
      BY <1>1
    <2>4. QED
      BY <2>1, <2>2, <2>3
  <1>5. TypeOK'
    <2>1. [call[c] EXCEPT !.pc = "storing", !.answer = answer] \in [pc : Call_PC, read : Nat, answer : Answer]
      <3>1. call[c] \in [pc : Call_PC, read : Nat, answer : Answer] /\ answer \in Answer
        BY <1>1
      <3>2. QED
        BY <3>1
    <2>2. call' \in [Call -> [pc : Call_PC, read : Nat, answer : Answer]]
      BY <1>1, <2>1
    <2>3. rotated' \subseteq 1 .. issued' /\ reused' \subseteq rotated' /\ orphaned' \subseteq rotated'
      BY <1>1, <1>2, <1>3, <1>4 DEF Issued
    <2>4. QED
      BY <1>2, <1>3, <2>2, <2>3
  <1>6. Held'
    <2>1. \A d \in Call : Holding(d)' <=> Holding(d)
      BY <1>2, <1>4
    <2>2. \A d \in Call : call'[d].read = call[d].read
      BY <1>2, <1>4
    <2>3. QED
      BY <1>2, <2>1, <2>2 DEF Held
  <1>7. Issued'
    <2>1. \A d \in Call : call'[d].read = call[d].read /\ call[d].read \in Nat
      BY <1>2, <1>4
    <2>2. QED
      BY <1>2, <1>3, <2>1 DEF Issued
  <1>8. OnItsWay'
    <2>1. \A d \in Call : At(d, {"storing"})' => d = c
      BY <1>2, <1>4 DEF Held
    <2>2. \A s \in Consent : LET k == consent[s].answer.refresh IN k # None => Fresh(k)' /\ k <= issued
      BY <1>1, <1>2, <1>3 DEF OnItsWay, Fresh
    <2>3. answer.refresh # None => Fresh(answer.refresh)'
      BY <1>1, <1>2, <1>3 DEF Fresh
    <2>4. answer.refresh = None => call'[c].read \notin rotated'
      BY <1>1, <1>2, <1>3, <1>4
    <2>5. answer.refresh # None => \A s \in Consent : consent[s].answer.refresh # answer.refresh
      BY <1>3, <2>2
    <2>6. call'[c].answer.refresh = answer.refresh
      BY <1>4
    <2>7. (\A d \in Call : At(d, {"storing"}) =>
             LET k == call[d].answer.refresh
             IN IF k = None THEN call[d].read \notin rotated
                ELSE Fresh(k) /\ \A s \in Consent : consent[s].answer.refresh # k)'
      BY <2>1, <2>3, <2>4, <2>5, <2>6, <1>2, <1>4
    <2>8. QED
      BY <1>2, <2>2, <2>7 DEF OnItsWay
  <1>9. TokensKept'
    BY <1>1, <1>2, <1>4 DEF TokensKept
  <1>10. QED
    BY <1>5, <1>6, <1>7, <1>8, <1>9

\* A token that is refused was spent by a call whose replacement was lost.
LEMMA PostRefusedKeeps ==
    ASSUME TokensInv, NEW c \in Call, PostRefused(c) PROVE TokensInv'
  <1> USE DEF TokensInv, TypeOK, Holding, At, provider, Goes, Ends, Moves, Closes, Blank,
            NoAnswer, Absent, Answer, Strike, None, Call_PC, Consent_PC, RowFree, TokenStillValid
  <1>1. TypeOK'
    BY DEF PostRefused, Answers, Stored, Owning, Refreshing, Resolve, TypeOK
  <1>2. Held'
    BY DEF PostRefused, Answers, Stored, Owning, Refreshing, Resolve, Held, Holding
  <1>3. Issued'
    BY DEF PostRefused, Answers, Stored, Owning, Refreshing, Resolve, Issued
  <1>4. OnItsWay'
    BY DEF PostRefused, Answers, Stored, Owning, Refreshing, Resolve, OnItsWay, Fresh
  <1>5. TokensKept'
    <2>1. /\ Holding(c) /\ At(c, {"posting"}) /\ call[c].read \in rotated /\ reused' = reused \cup {call[c].read}
          /\ UNCHANGED <<row, issued, rotated, orphaned>>
          /\ \A d \in Call \ {c} : call'[d] = call[d]
      BY DEF PostRefused
    <2>2. \A d \in Call : ~At(d, {"storing"})
      BY <2>1 DEF Held
    <2>3. call[c].read \in orphaned
      BY <2>1, <2>2 DEF TokensKept, Held
    <2>4. QED
      BY <2>1, <2>2, <2>3 DEF TokensKept
  <1>6. QED
    BY <1>1, <1>2, <1>3, <1>4, <1>5

\* The replacement gets into the row: it is fresh.
LEMMA StoreTokenKeeps ==
    ASSUME TokensInv, NEW c \in Call, StoreToken(c) PROVE TokensInv'
  <1> USE DEF TokensInv, TypeOK, Holding, At, provider, Goes, Ends, Moves, Closes, Blank,
            NoAnswer, Absent, Answer, Strike, None, Call_PC, Consent_PC, RowFree, TokenStillValid
  <1>1. /\ At(c, {"storing"}) /\ call[c].answer \in Answer /\ call[c].read \in Nat
        /\ row' = Stored(call[c].read, call[c].answer)
        /\ call' = [call EXCEPT ![c] = [@ EXCEPT !.pc = "sending"]]
        /\ UNCHANGED <<issued, rotated, reused, orphaned, consent, expiries, failures>>
    BY DEF StoreToken
  <1>2. /\ row' \in [present : BOOLEAN, refresh : Nat, expiry : {"unknown", "later", "past"}]
        /\ row'.present
        /\ row'.refresh = IF call[c].answer.refresh # None THEN call[c].answer.refresh ELSE row.refresh
    BY <1>1, StoredRow
  <1>3. \A d \in Call \ {c} : ~At(d, {"posting", "storing"}) /\ call'[d] = call[d]
    BY <1>1 DEF Held
  <1>4. /\ row.refresh \in 1 .. issued /\ call[c].read = row.refresh
        /\ call[c].answer.refresh # None => Fresh(call[c].answer.refresh)
        /\ call[c].answer.refresh = None => row.refresh \notin rotated
    BY <1>1 DEF OnItsWay, Held, Issued
  <1>5. TypeOK'
    BY <1>1, <1>2
  <1>6. Held'
    BY <1>1, <1>2, <1>3 DEF Held
  <1>7. Issued'
    BY <1>1, <1>2, <1>4 DEF Issued, Fresh
  <1>8. OnItsWay'
    <2>1. \A d \in Call : ~At(d, {"storing"})'
      BY <1>1, <1>3
    <2>2. \A s \in Consent : consent[s].answer.refresh # None => Fresh(consent[s].answer.refresh)'
      BY <1>1, <1>2, <1>4 DEF OnItsWay, Fresh
    <2>3. QED
      BY <1>1, <2>1, <2>2 DEF OnItsWay
  <1>9. TokensKept'
    BY <1>1, <1>2, <1>4 DEF TokensKept, Fresh
  <1>10. QED
    BY <1>5, <1>6, <1>7, <1>8, <1>9

\* The request itself.
LEMMA SendKeeps ==
    ASSUME TokensInv, NEW c \in Call, Send(c) PROVE TokensInv'
  <1> USE DEF TokensInv, TypeOK, Holding, At, provider, Goes, Ends, Moves, Closes, Blank,
            NoAnswer, Absent, Answer, Strike, None, Call_PC, Consent_PC, RowFree, TokenStillValid
  <1>1. TypeOK'
    BY DEF Send, Answers, Stored, Owning, Refreshing, Resolve, TypeOK
  <1>2. Held'
    BY DEF Send, Answers, Stored, Owning, Refreshing, Resolve, Held, Holding
  <1>3. Issued'
    BY DEF Send, Answers, Stored, Owning, Refreshing, Resolve, Issued
  <1>4. OnItsWay'
    BY DEF Send, Answers, Stored, Owning, Refreshing, Resolve, OnItsWay, Fresh
  <1>5. TokensKept'
    BY DEF Send, Answers, Stored, Owning, Refreshing, Resolve, TokensKept
  <1>6. QED
    BY <1>1, <1>2, <1>3, <1>4, <1>5

\* Nothing was said to the provider.
LEMMA NothingPostedKeeps ==
    ASSUME TokensInv, NEW c \in Call, NothingPosted(c) PROVE TokensInv'
  <1> USE DEF TokensInv, TypeOK, Holding, At, provider, Goes, Ends, Moves, Closes, Blank,
            NoAnswer, Absent, Answer, Strike, None, Call_PC, Consent_PC, RowFree, TokenStillValid
  <1>1. /\ call' = [call EXCEPT ![c] = [Blank EXCEPT !.pc = "over"]]
        /\ UNCHANGED <<row, issued, rotated, reused, consent, expiries>> /\ failures' \in Nat
        /\ orphaned' \subseteq rotated
    BY DEF NothingPosted
  <1>2. TypeOK'
    BY <1>1
  <1>3. Held'
    BY DEF NothingPosted, Answers, Stored, Owning, Refreshing, Resolve, Held, Holding
  <1>4. Issued'
    BY DEF NothingPosted, Answers, Stored, Owning, Refreshing, Resolve, Issued
  <1>5. OnItsWay'
    BY DEF NothingPosted, Answers, Stored, Owning, Refreshing, Resolve, OnItsWay, Fresh
  <1>6. TokensKept'
    BY DEF NothingPosted, Answers, Stored, Owning, Refreshing, Resolve, TokensKept
  <1>7. QED
    BY <1>2, <1>3, <1>4, <1>5, <1>6

\* A call that ends on its way loses the replacement: its token is orphaned.
LEMMA StoppedKeeps ==
    ASSUME TokensInv, NEW c \in Call, Stopped(c) PROVE TokensInv'
  <1> USE DEF TokensInv, TypeOK, Holding, At, provider, Goes, Ends, Moves, Closes, Blank,
            NoAnswer, Absent, Answer, Strike, None, Call_PC, Consent_PC, RowFree, TokenStillValid
  <1>1. /\ call' = [call EXCEPT ![c] = [Blank EXCEPT !.pc = "over"]]
        /\ UNCHANGED <<row, issued, rotated, reused, consent, expiries>> /\ failures' \in Nat
        /\ orphaned' \subseteq rotated
    BY DEF Stopped
  <1>2. TypeOK'
    BY <1>1
  <1>3. Held'
    BY DEF Stopped, Answers, Stored, Owning, Refreshing, Resolve, Held, Holding
  <1>4. Issued'
    BY DEF Stopped, Answers, Stored, Owning, Refreshing, Resolve, Issued
  <1>5. OnItsWay'
    BY DEF Stopped, Answers, Stored, Owning, Refreshing, Resolve, OnItsWay, Fresh
  <1>6. TokensKept'
    BY DEF Stopped, Answers, Stored, Owning, Refreshing, Resolve, TokensKept
  <1>7. QED
    BY <1>2, <1>3, <1>4, <1>5, <1>6

\* The user is sent to the provider, ...
LEMMA AuthorizeKeeps ==
    ASSUME TokensInv, NEW s \in Consent, Authorize(s) PROVE TokensInv'
  <1> USE DEF TokensInv, TypeOK, Holding, At, provider, Goes, Ends, Moves, Closes, Blank,
            NoAnswer, Absent, Answer, Strike, None, Call_PC, Consent_PC, RowFree, TokenStillValid
  <1>1. TypeOK'
    BY DEF Authorize, Answers, Stored, Owning, Refreshing, Resolve, TypeOK
  <1>2. Held'
    BY DEF Authorize, Answers, Stored, Owning, Refreshing, Resolve, Held, Holding
  <1>3. Issued'
    BY DEF Authorize, Answers, Stored, Owning, Refreshing, Resolve, Issued
  <1>4. OnItsWay'
    BY DEF Authorize, Answers, Stored, Owning, Refreshing, Resolve, OnItsWay, Fresh
  <1>5. TokensKept'
    BY DEF Authorize, Answers, Stored, Owning, Refreshing, Resolve, TokensKept
  <1>6. QED
    BY <1>1, <1>2, <1>3, <1>4, <1>5

\* ... and comes back or does not.
LEMMA CallbackKeeps ==
    ASSUME TokensInv, NEW s \in Consent, Callback(s) PROVE TokensInv'
  <1> USE DEF TokensInv, TypeOK, Holding, At, provider, Goes, Ends, Moves, Closes, Blank,
            NoAnswer, Absent, Answer, Strike, None, Call_PC, Consent_PC, RowFree, TokenStillValid
  <1>1. /\ consent[s].pc = "begun"
        /\ \E new \in ConsentRecord :
              /\ consent' = [consent EXCEPT ![s] = new]
              /\ new.answer.refresh \in {None, consent[s].answer.refresh}
        /\ UNCHANGED <<row, issued, rotated, reused, orphaned, call, expiries, failures>>
    <2>1. CASE Moves(s, "posting")
      <3>1. [consent[s] EXCEPT !.pc = "posting"] \in ConsentRecord
        BY DEF ConsentRecord
      <3>2. QED
        BY <2>1, <3>1 DEF Callback
    <2>2. CASE Closes(s)
      <3>1. [Blank EXCEPT !.pc = "over"] \in ConsentRecord
        BY DEF ConsentRecord
      <3>2. QED
        BY <2>2, <3>1 DEF Callback
    <2>3. QED
      BY <2>1, <2>2 DEF Callback
  <1>2. TypeOK'
    BY <1>1 DEF ConsentRecord
  <1>3. Held'
    BY DEF Callback, Answers, Stored, Owning, Refreshing, Resolve, Held, Holding
  <1>4. Issued'
    BY DEF Callback, Answers, Stored, Owning, Refreshing, Resolve, Issued
  <1>5. OnItsWay'
    BY <1>1 DEF OnItsWay, Fresh
  <1>6. TokensKept'
    BY DEF Callback, Answers, Stored, Owning, Refreshing, Resolve, TokensKept
  <1>7. QED
    BY <1>2, <1>3, <1>4, <1>5, <1>6

\* A consent has a token of its own.
LEMMA ExchangeCodeKeeps ==
    ASSUME TokensInv, NEW s \in Consent, ExchangeCode(s) PROVE TokensInv'
  <1> USE DEF TokensInv, TypeOK, Holding, At, provider, Goes, Ends, Moves, Closes, Blank,
            NoAnswer, Absent, Answer, Strike, None, Call_PC, Consent_PC, RowFree, TokenStillValid
  <1>1. PICK rotating \in BOOLEAN, answer \in Answer :
          /\ Answers(rotating, answer)
          /\ consent' = [consent EXCEPT ![s] = [@ EXCEPT !.pc = "reading", !.answer = answer]]
    <2>1. PICK rotating \in BOOLEAN, answer \in [refresh : {None, issued + 1}, lifetime : BOOLEAN] :
              /\ Answers(rotating, answer)
              /\ consent' = [consent EXCEPT ![s].pc = "reading", ![s].answer = answer]
      BY DEF ExchangeCode
    <2>2. answer \in Answer
      <3>1. issued \in Nat /\ issued + 1 \in Nat /\ None \in Nat
        OBVIOUS
      <3>2. {None, issued + 1} \subseteq Nat
        BY <3>1
      <3>3. QED
        BY <2>1, <3>2
    <2>3. consent' = [consent EXCEPT ![s] = [@ EXCEPT !.pc = "reading", !.answer = answer]]
      BY <2>1
    <2>4. QED
      BY <2>1, <2>2, <2>3
  <1>2. UNCHANGED <<row, rotated, reused, orphaned, call, expiries, failures>>
    BY DEF ExchangeCode
  <1>3. /\ issued' \in Nat /\ issued <= issued'
        /\ answer.refresh \in {None, issued + 1} /\ answer.refresh <= issued'
    BY <1>1 DEF Answers
  <1>4. TypeOK'
    <2>1. [consent[s] EXCEPT !.pc = "reading", !.answer = answer] \in [pc : Consent_PC, read : Nat, answer : Answer]
      <3>1. consent[s] \in [pc : Consent_PC, read : Nat, answer : Answer] /\ answer \in Answer
        BY <1>1
      <3>2. QED
        BY <3>1
    <2>2. consent' \in [Consent -> [pc : Consent_PC, read : Nat, answer : Answer]]
      BY <1>1, <2>1
    <2>3. rotated' \subseteq 1 .. issued' /\ reused' \subseteq rotated' /\ orphaned' \subseteq rotated'
      BY <1>1, <1>2, <1>3 DEF Issued
    <2>4. QED
      BY <1>2, <1>3, <2>2, <2>3
  <1>5. Held'
    BY DEF ExchangeCode, Answers, Stored, Owning, Refreshing, Resolve, Held, Holding
  <1>6. Issued'
    BY DEF ExchangeCode, Answers, Stored, Owning, Refreshing, Resolve, Issued
  <1>7. OnItsWay'
    BY DEF ExchangeCode, Answers, Stored, Owning, Refreshing, Resolve, OnItsWay, Fresh
  <1>8. TokensKept'
    BY DEF ExchangeCode, Answers, Stored, Owning, Refreshing, Resolve, TokensKept
  <1>9. QED
    BY <1>4, <1>5, <1>6, <1>7, <1>8

\* The row is read; it may be another one by the time it is written.
LEMMA ReadRowKeeps ==
    ASSUME TokensInv, NEW s \in Consent, ReadRow(s) PROVE TokensInv'
  <1> USE DEF TokensInv, TypeOK, Holding, At, provider, Goes, Ends, Moves, Closes, Blank,
            NoAnswer, Absent, Answer, Strike, None, Call_PC, Consent_PC, RowFree, TokenStillValid
  <1>1. /\ \E place \in Consent_PC :
              consent' = [consent EXCEPT ![s] = [@ EXCEPT !.pc = place, !.read = row.refresh]]
        /\ UNCHANGED <<row, issued, rotated, reused, orphaned, call, expiries, failures>>
    BY DEF ReadRow
  <1>2. TypeOK'
    <2>1. PICK place \in Consent_PC :
            consent' = [consent EXCEPT ![s] = [@ EXCEPT !.pc = place, !.read = row.refresh]]
      BY <1>1
    <2>2. [consent[s] EXCEPT !.pc = place, !.read = row.refresh] \in [pc : Consent_PC, read : Nat, answer : Answer]
      <3>1. consent[s] \in [pc : Consent_PC, read : Nat, answer : Answer] /\ row.refresh \in Nat
        OBVIOUS
      <3>2. QED
        BY <3>1
    <2>3. consent' \in [Consent -> [pc : Consent_PC, read : Nat, answer : Answer]]
      BY <2>1, <2>2
    <2>4. QED
      BY <1>1, <2>3
  <1>3. Held'
    BY DEF ReadRow, Answers, Stored, Owning, Refreshing, Resolve, Held, Holding
  <1>4. Issued'
    BY DEF ReadRow, Answers, Stored, Owning, Refreshing, Resolve, Issued
  <1>5. OnItsWay'
    BY DEF ReadRow, Answers, Stored, Owning, Refreshing, Resolve, OnItsWay, Fresh
  <1>6. TokensKept'
    BY DEF ReadRow, Answers, Stored, Owning, Refreshing, Resolve, TokensKept
  <1>7. QED
    BY <1>2, <1>3, <1>4, <1>5, <1>6

\* No call holds the row: its token is replaced by a fresh one or stays.
LEMMA FlushUpdateKeeps ==
    ASSUME TokensInv, NEW s \in Consent, FlushUpdate(s) PROVE TokensInv'
  <1> USE DEF TokensInv, TypeOK, Holding, At, provider, Goes, Ends, Moves, Closes, Blank,
            NoAnswer, Absent, Answer, Strike, None, Call_PC, Consent_PC, RowFree, TokenStillValid
  <1>1. /\ consent' = [consent EXCEPT ![s] = [Blank EXCEPT !.pc = "over"]]
        /\ UNCHANGED <<issued, rotated, reused, orphaned, call, expiries, failures>>
        /\ \/ row' = row
           \/ /\ row' = Stored(consent[s].read, consent[s].answer)
              /\ \A c \in Call : ~Holding(c)
    BY DEF FlushUpdate, Held
  <1>2. row' = row \/ /\ row' \in [present : BOOLEAN, refresh : Nat, expiry : {"unknown", "later", "past"}]
                      /\ row'.present /\ \A c \in Call : ~Holding(c)
                      /\ \/ consent[s].answer.refresh = None /\ row'.refresh = row.refresh
                         \/ /\ consent[s].answer.refresh # None
                            /\ row'.refresh = consent[s].answer.refresh /\ Fresh(row'.refresh)
    <2>1. consent[s].answer \in Answer /\ consent[s].read \in Nat
      OBVIOUS
    <2>2. consent[s].answer.refresh # None => Fresh(consent[s].answer.refresh)
      BY DEF OnItsWay
    <2>3. LET new == Stored(consent[s].read, consent[s].answer) IN
          /\ new \in [present : BOOLEAN, refresh : Nat, expiry : {"unknown", "later", "past"}]
          /\ new.present
          /\ consent[s].answer.refresh # None => new.refresh = consent[s].answer.refresh
          /\ consent[s].answer.refresh = None => new.refresh = row.refresh
      <3>1. TypeOK
        BY DEF TypeOK
      <3>2. QED
        BY <2>1, <3>1, StoredRow
    <2>4. QED
      BY <1>1, <2>2, <2>3
  <1>3. /\ consent'[s].answer.refresh = None
        /\ \A t \in Consent \ {s} : consent'[t] = consent[t]
    BY <1>1
  <1>4. TypeOK'
    BY <1>1, <1>2
  <1>5. Held'
    BY <1>1, <1>2 DEF Held
  <1>6. Issued'
    BY <1>1, <1>2 DEF Issued, Fresh
  <1>7. OnItsWay'
    BY <1>1, <1>2, <1>3 DEF OnItsWay, Fresh
  <1>8. TokensKept'
    BY <1>1, <1>2 DEF TokensKept, Fresh
  <1>9. QED
    BY <1>4, <1>5, <1>6, <1>7, <1>8

\* There is no row a call could hold.
LEMMA FlushInsertKeeps ==
    ASSUME TokensInv, NEW s \in Consent, FlushInsert(s) PROVE TokensInv'
  <1> USE DEF TokensInv, TypeOK, Holding, At, provider, Goes, Ends, Moves, Closes, Blank,
            NoAnswer, Absent, Answer, Strike, None, Call_PC, Consent_PC, RowFree, TokenStillValid
  <1>1. /\ consent' = [consent EXCEPT ![s] = [Blank EXCEPT !.pc = "over"]]
        /\ UNCHANGED <<issued, rotated, reused, orphaned, call, expiries, failures>>
        /\ \/ row' = row
           \/ /\ row' = Stored(consent[s].read, consent[s].answer)
              /\ \A c \in Call : ~Holding(c)
    BY DEF FlushInsert, Held
  <1>2. row' = row \/ /\ row' \in [present : BOOLEAN, refresh : Nat, expiry : {"unknown", "later", "past"}]
                      /\ row'.present /\ \A c \in Call : ~Holding(c)
                      /\ \/ consent[s].answer.refresh = None /\ row'.refresh = row.refresh
                         \/ /\ consent[s].answer.refresh # None
                            /\ row'.refresh = consent[s].answer.refresh /\ Fresh(row'.refresh)
    <2>1. consent[s].answer \in Answer /\ consent[s].read \in Nat
      OBVIOUS
    <2>2. consent[s].answer.refresh # None => Fresh(consent[s].answer.refresh)
      BY DEF OnItsWay
    <2>3. LET new == Stored(consent[s].read, consent[s].answer) IN
          /\ new \in [present : BOOLEAN, refresh : Nat, expiry : {"unknown", "later", "past"}]
          /\ new.present
          /\ consent[s].answer.refresh # None => new.refresh = consent[s].answer.refresh
          /\ consent[s].answer.refresh = None => new.refresh = row.refresh
      <3>1. TypeOK
        BY DEF TypeOK
      <3>2. QED
        BY <2>1, <3>1, StoredRow
    <2>4. QED
      BY <1>1, <2>2, <2>3
  <1>3. /\ consent'[s].answer.refresh = None
        /\ \A t \in Consent \ {s} : consent'[t] = consent[t]
    BY <1>1
  <1>4. TypeOK'
    BY <1>1, <1>2
  <1>5. Held'
    BY <1>1, <1>2 DEF Held
  <1>6. Issued'
    BY <1>1, <1>2 DEF Issued, Fresh
  <1>7. OnItsWay'
    BY <1>1, <1>2, <1>3 DEF OnItsWay, Fresh
  <1>8. TokensKept'
    BY <1>1, <1>2 DEF TokensKept, Fresh
  <1>9. QED
    BY <1>4, <1>5, <1>6, <1>7, <1>8

\* A token that no row ever held is forgotten.
LEMMA ConsentFailsKeeps ==
    ASSUME TokensInv, NEW s \in Consent, ConsentFails(s) PROVE TokensInv'
  <1> USE DEF TokensInv, TypeOK, Holding, At, provider, Goes, Ends, Moves, Closes, Blank,
            NoAnswer, Absent, Answer, Strike, None, Call_PC, Consent_PC, RowFree, TokenStillValid
  <1>1. /\ consent' = [consent EXCEPT ![s] = [Blank EXCEPT !.pc = "over"]]
        /\ UNCHANGED <<row, issued, rotated, reused, orphaned, call, expiries>> /\ failures' \in Nat
    BY DEF ConsentFails
  <1>2. TypeOK'
    BY <1>1
  <1>3. Held'
    BY DEF ConsentFails, Answers, Stored, Owning, Refreshing, Resolve, Held, Holding
  <1>4. Issued'
    BY DEF ConsentFails, Answers, Stored, Owning, Refreshing, Resolve, Issued
  <1>5. OnItsWay'
    BY DEF ConsentFails, Answers, Stored, Owning, Refreshing, Resolve, OnItsWay, Fresh
  <1>6. TokensKept'
    BY DEF ConsentFails, Answers, Stored, Owning, Refreshing, Resolve, TokensKept
  <1>7. QED
    BY <1>2, <1>3, <1>4, <1>5, <1>6

\* The access token has no part in it.
LEMMA AccessExpiresKeeps ==
    ASSUME TokensInv, AccessExpires PROVE TokensInv'
  <1> USE DEF TokensInv, TypeOK, Holding, At, provider, Goes, Ends, Moves, Closes, Blank,
            NoAnswer, Absent, Answer, Strike, None, Call_PC, Consent_PC, RowFree, TokenStillValid
  <1>1. TypeOK'
    BY DEF AccessExpires, Answers, Stored, Owning, Refreshing, Resolve, TypeOK
  <1>2. Held'
    BY DEF AccessExpires, Answers, Stored, Owning, Refreshing, Resolve, Held, Holding
  <1>3. Issued'
    BY DEF AccessExpires, Answers, Stored, Owning, Refreshing, Resolve, Issued
  <1>4. OnItsWay'
    BY DEF AccessExpires, Answers, Stored, Owning, Refreshing, Resolve, OnItsWay, Fresh
  <1>5. TokensKept'
    BY DEF AccessExpires, Answers, Stored, Owning, Refreshing, Resolve, TokensKept
  <1>6. QED
    BY <1>1, <1>2, <1>3, <1>4, <1>5

\* No call holds the row that goes, and no token is on its way to it from a call.
LEMMA DisconnectKeeps ==
    ASSUME TokensInv, Disconnect PROVE TokensInv'
  <1> USE DEF TokensInv, TypeOK, Holding, At, provider, Goes, Ends, Moves, Closes, Blank,
            NoAnswer, Absent, Answer, Strike, None, Call_PC, Consent_PC, RowFree, TokenStillValid
  <1>1. TypeOK'
    BY DEF Disconnect, Answers, Stored, Owning, Refreshing, Resolve, TypeOK
  <1>2. Held'
    BY DEF Disconnect, Answers, Stored, Owning, Refreshing, Resolve, Held, Holding
  <1>3. Issued'
    BY DEF Disconnect, Answers, Stored, Owning, Refreshing, Resolve, Issued
  <1>4. OnItsWay'
    BY DEF Disconnect, Answers, Stored, Owning, Refreshing, Resolve, OnItsWay, Fresh
  <1>5. TokensKept'
    BY DEF Disconnect, Answers, Stored, Owning, Refreshing, Resolve, TokensKept
  <1>6. QED
    BY <1>1, <1>2, <1>3, <1>4, <1>5

LEMMA TokensInvInit == ConnectorsInit => TokensInv
  <1> SUFFICES ASSUME ConnectorsInit PROVE TokensInv
    OBVIOUS
  <1> USE DEF ConnectorsInit, Absent, Blank, NoAnswer, Answer, None, At
  <1>1. TypeOK
    <2>1. Blank \in [pc : Call_PC, read : Nat, answer : Answer]
      BY DEF Call_PC
    <2>2. Blank \in [pc : Consent_PC, read : Nat, answer : Answer]
      BY DEF Consent_PC
    <2>3. QED
      BY <2>1, <2>2 DEF TypeOK
  <1>2. Held /\ Issued
    BY DEF Held, Holding, Issued
  <1>3. OnItsWay /\ TokensKept
    BY DEF OnItsWay, TokensKept
  <1>4. QED
    BY <1>1, <1>2, <1>3 DEF TokensInv

LEMMA TokensInvNext == TokensInv /\ [ConnectorsNext]_connectorsVars => TokensInv'
  <1> SUFFICES ASSUME TokensInv, [ConnectorsNext]_connectorsVars PROVE TokensInv'
    OBVIOUS
  <1>1. CASE AccessExpires
    BY <1>1, AccessExpiresKeeps
  <1>2. CASE Disconnect
    BY <1>2, DisconnectKeeps
  <1>3. ASSUME NEW c \in Call, GetToken(c) \/ CallStep(c) \/ NothingPosted(c) \/ Stopped(c)
        PROVE  TokensInv'
    BY <1>3, GetTokenKeeps, GetLockKeeps, OpenSessionKeeps, PoolTimesOutKeeps, SelectForUpdateKeeps,
       PostRefreshKeeps, PostRefusedKeeps, StoreTokenKeeps, SendKeeps, NothingPostedKeeps,
       StoppedKeeps DEF CallStep
  <1>4. ASSUME NEW s \in Consent, UserStep(s) PROVE TokensInv'
    BY <1>4, AuthorizeKeeps, CallbackKeeps, ExchangeCodeKeeps, ReadRowKeeps, FlushUpdateKeeps,
       FlushInsertKeeps, ConsentFailsKeeps DEF UserStep
  <1>5. CASE UNCHANGED connectorsVars
    <2> USE <1>5 DEF connectorsVars, provider, TokensInv, At
    <2>1. TypeOK'
      BY DEF TypeOK
    <2>2. Held' /\ Issued'
      BY DEF Held, Holding, Issued
    <2>3. OnItsWay' /\ TokensKept'
      BY DEF OnItsWay, Fresh, TokensKept
    <2>4. QED
      BY <2>1, <2>2, <2>3
  <1>6. QED
    BY <1>1, <1>2, <1>3, <1>4, <1>5 DEF ConnectorsNext

\* Who holds the row, and where every refresh token is: an invariant of every instance.
THEOREM TokensInductive == ConnectorsSpec => []TokensInv
  BY TokensInvInit, TokensInvNext, PTL DEF ConnectorsSpec

\* TokensKept for any number of calls, processes, consents and failures: a
\* refresh token is presented again after it was spent only if its replacement
\* was lost between the provider and the commit.
THEOREM SpentOnce == ConnectorsSpec => []TokensKept
  <1>1. TokensInv => TokensKept
    BY DEF TokensInv
  <1>2. QED
    BY <1>1, TokensInductive, PTL

-----------------------------------------------------------------------------
(* Packages.                                                               *)

\* A statement about a row.
Statements ==
    [kind : {"none", "insert", "update", "delete", "lost"}, on : Resource \union {Missing},
     new : ResourceRow \union {Missing}, columns : SUBSET Column]

\* What is known of a request under way.
SessionRecord ==
    [op : {"none", "apply", "preview", "remove"}, by : Manager \union {Nobody},
     version : Version \union {0}, known : Version \union {0}, todo : Seq(Resource),
     pending : Statements, writes : [Resource -> Statements], failed : SUBSET Resource]

\* The types of the variables.
PackagesTyped ==
    /\ rowOf \in [Resource -> ResourceRow \union {Missing}]
    /\ packages \in [Package -> Version \union {0}]
    /\ request \in [Session -> SessionRecord]
    /\ editing \in [Resource -> ResourceRow \union {Missing}]
    /\ requests \in Nat /\ edits \in Nat
    /\ failed \in [Package -> SUBSET Resource]
    /\ taken \subseteq Resource /\ imported \subseteq Connector /\ overlapped \subseteq Manager

\* The resource is in the list, ...
InList(list, r) == \E k \in DOMAIN list : list[k] = r
\* ... and in what a version ships.
Shipped(m, v, r) == InList(Ships[m][v], r)

\* A row with the mark of a package that did not take it over.
Marked(r) == r \notin taken /\ rowOf[r] # Missing /\ rowOf[r].owner \in Package

\* What a statement s about row r of the request q does.
Rightful(q, s, r) ==
    /\ s.kind = "insert" => q.op = "apply" /\ s.new = Made(r, q.by, q.version)
    /\ s.kind = "update" =>
          /\ s.new \in ResourceRow /\ ("active" \in s.columns => s.new.active)
          /\ q.op # "remove"
          /\ Marked(r) => ("owner" \notin s.columns <=> rowOf[r].owner = q.by)
          /\ Marked(r) /\ "owner" \notin s.columns =>
                /\ "content" \in s.columns <=> "sum" \in s.columns
                /\ "content" \in s.columns =>
                      /\ q.op = "apply"
                      /\ s.new.content = Text(q.by, q.version)
                      /\ s.new.sum = Hash[r][q.by][q.version]
    /\ s.kind = "delete" => q.op = "remove" /\ s.new = Missing

\* What a request is about to send, ...
PendingSound(q) ==
    LET s == q.pending IN
    /\ s.kind \in {"none", "insert", "update", "lost"}
    /\ s.kind \in {"insert", "update"} => s.on \in Resource /\ Rightful(q, s, s.on)
    /\ s.kind = "update" => rowOf[s.on] # Missing

\* ... and what it has sent.
WritesSound(q) ==
    \A r \in Resource : LET s == q.writes[r] IN
        /\ s = NoStatement \/ s.kind \in {"insert", "update", "delete"}
        /\ s.kind = "insert" => rowOf[r] = Missing
        /\ s.kind \in {"update", "delete"} => rowOf[r] # Missing
        /\ Rightful(q, s, r)

\* A request about a package that no other such request overlaps.
Alone(q) == q.op \in {"apply", "remove"} /\ q.by \in Package \ overlapped

\* It sets the checksum.
Sets(s) == s.kind = "update" /\ "sum" \in s.columns

\* A marked row that the request has passed will be what it is to be: deleted,
\* or in the version that is installed.
Passes(q) ==
    Alone(q) => \A r \in Resource : Marked(r) /\ rowOf[r].owner = q.by /\ ~InList(q.todo, r) =>
        IF q.op = "remove" THEN q.writes[r].kind = "delete"
        ELSE Shipped(q.by, q.version, r) /\ r \notin q.failed =>
                \/ rowOf[r].sum = Hash[r][q.by][q.version]
                \/ q.pending.on = r /\ Sets(q.pending)
                \/ Sets(q.writes[r])

\* A statement that leaves the contents alone need not set them.
NeedNot(q) ==
    LET s == q.pending IN
    Alone(q) /\ q.op = "apply" /\ s.kind = "update" /\ Marked(s.on) /\ rowOf[s.on].owner = q.by
        /\ s.on \notin q.failed => Sets(s) \/ rowOf[s.on].sum = Hash[s.on][q.by][q.version]

\* All of this of one request, ...
Sound(q) ==
    /\ q \in SessionRecord
    /\ q.op # "none" => q.by \in Manager
    /\ q.op \in {"apply", "preview"} => q.version \in Version
    /\ PendingSound(q) /\ WritesSound(q)
    /\ Alone(q) => q.known = packages[q.by]
    /\ Passes(q) /\ NeedNot(q)

\* ... and of every request.
AllSound == \A i \in Session : \A q \in {request[i]} : Sound(q)

\* Two requests never write one row: whoever wrote first holds its lock.
WrittenOnce == \A i, j \in Session, r \in Resource : Writes(i, r) /\ Writes(j, r) => i = j

\* Two requests about a package are one, unless they were seen to overlap.
OneAlone ==
    \A i, j \in Session :
        /\ request[i].op \in {"apply", "remove"} /\ request[j].op \in {"apply", "remove"}
        /\ request[i].by = request[j].by /\ request[i].by \notin overlapped
        => i = j

\* What a user edits under a package's mark had the mark when it was read.
EditsSound ==
    \A r \in Resource : editing[r] # Missing =>
        /\ rowOf[r] # Missing
        /\ Marked(r) => editing[r].owner = rowOf[r].owner

\* A marked row holds what its package shipped, in a version with the row's
\* checksum, or what a user has imported into it; a marked connector is active.
RowSound(r) ==
    Marked(r) =>
        /\ \E v \in Version :
              /\ rowOf[r].sum = Hash[r][rowOf[r].owner][v]
              /\ \/ rowOf[r].content = Text(rowOf[r].owner, v)
                 \/ r \in imported /\ rowOf[r].content = UserText
        /\ r \in Connector => rowOf[r].active

RowsSound == \A r \in Resource : RowSound(r)

\* All of it: the invariant.
PackagesInv ==
    /\ PackagesTyped /\ AllSound /\ WrittenOnce /\ OneAlone /\ EditsSound
    /\ RowsSound /\ MarkedAsRecorded

-----------------------------------------------------------------------------

\* An update sets its columns and no others.
LEMMA MergedRow ==
    ASSUME NEW old \in ResourceRow, NEW new \in ResourceRow, NEW columns \in SUBSET Column
    PROVE  /\ Merged(old, columns, new) \in ResourceRow
           /\ Merged(old, columns, new).owner = IF "owner" \in columns THEN new.owner ELSE old.owner
           /\ Merged(old, columns, new).content =
                  IF "content" \in columns THEN new.content ELSE old.content
           /\ Merged(old, columns, new).sum = IF "sum" \in columns THEN new.sum ELSE old.sum
           /\ Merged(old, columns, new).active =
                  IF "active" \in columns THEN new.active ELSE old.active
  BY DEF Merged, ResourceRow, Column

\* A session sends the columns that differ from what it loaded.
LEMMA ChangedColumns ==
    ASSUME NEW old \in ResourceRow, NEW new \in ResourceRow
    PROVE  /\ "owner" \in Changed(old, new) <=> new.owner # old.owner
           /\ "content" \in Changed(old, new) <=> new.content # old.content
           /\ "sum" \in Changed(old, new) <=> new.sum # old.sum
           /\ "active" \in Changed(old, new) <=> new.active # old.active
           /\ Changed(old, new) \in SUBSET Column
  BY DEF Changed, ResourceRow, Column

\* No request is under way.
LEMMA NoneSound == Sound(NoRequest) /\ Sound(NoRequest)'
  <1>1. NoStatement \in Statements
    BY DEF NoStatement, Statement, Statements, Column
  <1>2. NoRequest \in SessionRecord
    BY <1>1 DEF NoRequest, SessionRecord, Nothing
  <1>3. \A r \in Resource : NoRequest.writes[r] = NoStatement
    BY DEF NoRequest, Nothing
  <1>4. NoStatement.kind = "none"
    BY DEF NoStatement, Statement
  <1>5. NoRequest.op = "none" /\ NoRequest.pending = NoStatement
    BY DEF NoRequest
  <1>6. QED
    BY <1>2, <1>3, <1>4, <1>5 DEF Sound, PendingSound, WritesSound, Rightful, Alone, Passes, NeedNot

\* What changes no row and no package leaves a sound request sound.
LEMMA SoundStays ==
    ASSUME NEW q, Sound(q), UNCHANGED <<rowOf, packages, taken, imported>>, overlapped \subseteq overlapped'
    PROVE  Sound(q)'
  BY DEF Sound, PendingSound, WritesSound, Rightful, Alone, Passes, NeedNot, Marked

\* A request goes on by itself.
LEMMA BecomesKeeps ==
    ASSUME PackagesInv, NEW i \in Session, NEW q, Sound(q), request' = [request EXCEPT ![i] = q],
           UNCHANGED <<rowOf, packages, editing, failed, taken, imported>>,
           overlapped \subseteq overlapped', overlapped' \subseteq Manager,
           requests' \in Nat, edits' \in Nat,
           \A r \in Resource : q.writes[r] # NoStatement => Writes(i, r) \/ ~LockedFor(r, i),
           \A j \in Session \ {i} :
               /\ q.op \in {"apply", "remove"} /\ request[j].op \in {"apply", "remove"}
               /\ q.by = request[j].by
               => q.by \in overlapped'
    PROVE  PackagesInv'
  <1>1. /\ request'[i] = q
        /\ \A j \in Session \ {i} : request'[j] = request[j]
    BY DEF PackagesInv, PackagesTyped
  <1>2. PackagesTyped'
    BY DEF PackagesInv, PackagesTyped, Sound
  <1>3. AllSound'
    <2>1. ASSUME NEW j \in Session, NEW p \in {request'[j]} PROVE Sound(p)'
      <3>1. Sound(p)
        BY <1>1, <2>1 DEF PackagesInv, AllSound
      <3>2. QED
        BY <3>1, SoundStays
    <2>2. QED
      BY <2>1 DEF AllSound
  <1>4. WrittenOnce'
    BY <1>1 DEF PackagesInv, WrittenOnce, Writes, LockedFor
  <1>5. OneAlone'
    BY <1>1 DEF PackagesInv, OneAlone
  <1>6. EditsSound' /\ RowsSound' /\ MarkedAsRecorded'
    <2>1. EditsSound' /\ MarkedAsRecorded'
      BY DEF PackagesInv, EditsSound, MarkedAsRecorded, Marked
    <2>2. \A r \in Resource : RowSound(r) => RowSound(r)'
      BY DEF RowSound, Marked
    <2>3. QED
      BY <2>1, <2>2 DEF PackagesInv, RowsSound
  <1>7. QED
    BY <1>2, <1>3, <1>4, <1>5, <1>6 DEF PackagesInv

\* A list without its head.
LEMMA TailList ==
    ASSUME NEW list \in Seq(Resource), list # << >>, NEW x \in Resource, x # Head(list),
           ~InList(Tail(list), x)
    PROVE  ~InList(list, x)
  <1>1. SUFFICES ASSUME NEW k \in DOMAIN list, list[k] = x
                 PROVE  InList(Tail(list), x)
    BY DEF InList
  <1>2. k # 1 /\ k \in 1 .. Len(list)
    BY <1>1
  <1>3. Len(Tail(list)) = Len(list) - 1 /\ Tail(list) \in Seq(Resource)
    OBVIOUS
  <1>4. k - 1 \in 1 .. Len(Tail(list))
    BY <1>2, <1>3
  <1>5. Tail(list)[k - 1] = list[k - 1 + 1]
    BY <1>3, <1>4
  <1>6. Tail(list)[k - 1] = x
    BY <1>1, <1>2, <1>5
  <1>7. k - 1 \in DOMAIN Tail(list)
    BY <1>3, <1>4
  <1>8. QED
    BY <1>6, <1>7 DEF InList

\* The request passes resource r with the statement s.
LEMMA PassedSound ==
    ASSUME PackagesInv, NEW i \in Session, NEW r \in Resource, Applying(i, r), NEW q \in SessionRecord,
           q.op = request[i].op, q.by = request[i].by, q.version = request[i].version,
           q.known = request[i].known, q.todo = Tail(request[i].todo),
           q.writes = request[i].writes, request[i].failed \subseteq q.failed,
           q.pending.kind \in {"none", "insert", "update"},
           q.pending.kind \in {"insert", "update"} =>
               q.pending.on = r /\ Rightful(q, q.pending, r),
           q.pending.kind = "update" => rowOf[r] # Missing,
           Marked(r) /\ rowOf[r].owner = q.by /\ q.op = "apply" /\ r \notin q.failed =>
               \/ rowOf[r].sum = Hash[r][q.by][q.version]
               \/ q.pending.on = r /\ Sets(q.pending)
    PROVE  Sound(q)
  <1> DEFINE old == request[i]
  <1>1. Sound(old) /\ old \in SessionRecord
    BY DEF PackagesInv, AllSound, Sound
  <1>2. old.op \in {"apply", "preview"} /\ old.todo # << >> /\ r = Head(old.todo)
        /\ old.pending = NoStatement /\ old.todo \in Seq(Resource)
    BY <1>1 DEF Applying, SessionRecord
  <1>3. \A x \in Resource : ~InList(Tail(old.todo), x) /\ x # r => ~InList(old.todo, x)
    BY <1>2, TailList
  <1>4. NoStatement.kind = "none"
    BY DEF NoStatement, Statement
  <1>5. PendingSound(q) /\ WritesSound(q)
    BY <1>1, <1>2 DEF Sound, PendingSound, WritesSound, Rightful
  <1>6. Passes(q)
    <2>1. SUFFICES ASSUME Alone(q), NEW x \in Resource, Marked(x), rowOf[x].owner = q.by,
                          ~InList(q.todo, x), Shipped(q.by, q.version, x), x \notin q.failed
                   PROVE  \/ rowOf[x].sum = Hash[x][q.by][q.version]
                          \/ q.pending.on = x /\ Sets(q.pending)
                          \/ Sets(q.writes[x])
      BY <1>2 DEF Passes
    <2>2. q.op = "apply"
      BY <1>2, <2>1 DEF Alone
    <2>3. CASE x = r
      BY <2>1, <2>2, <2>3
    <2>4. CASE x # r
      <3>1. ~InList(old.todo, x)
        BY <1>3, <2>1, <2>4
      <3>2. Passes(old) /\ Alone(old)
        BY <1>1, <2>1 DEF Sound, Alone
      <3>3. ~Sets(old.pending)
        BY <1>2, <1>4 DEF Sets
      <3>4. QED
        BY <1>2, <2>1, <2>2, <3>1, <3>2, <3>3 DEF Passes
    <2>5. QED
      BY <2>3, <2>4
  <1>7. NeedNot(q)
    BY DEF NeedNot, Alone
  <1>8. QED
    BY <1>1, <1>5, <1>6, <1>7 DEF Sound, Alone

\* What the invariant says of a request.
LEMMA SessionFacts ==
    ASSUME PackagesInv, NEW i \in Session
    PROVE  /\ Sound(request[i]) /\ request[i] \in SessionRecord
           /\ request[i].pending \in Statements /\ request[i].todo \in Seq(Resource)
           /\ request[i].op \in {"apply", "preview"} =>
                  request[i].by \in Manager /\ request[i].version \in Version
  BY DEF PackagesInv, AllSound, Sound, SessionRecord

\* An apply that does not skip a marked row of its own sets its content and its
\* checksum, or neither.
LEMMA BothOrNeither ==
    ASSUME PackagesInv, NEW r \in Resource, Marked(r), NEW m \in Manager, rowOf[r].owner = m,
           NEW v \in Version, ~Skipped(r, rowOf[r], m, v)
    PROVE  rowOf[r].content = Text(m, v) <=> rowOf[r].sum = Hash[r][m][v]
  <1>1. PICK w \in Version : /\ rowOf[r].sum = Hash[r][m][w]
                             /\ \/ rowOf[r].content = Text(m, w)
                                \/ r \in imported /\ rowOf[r].content = UserText
    BY DEF PackagesInv, RowsSound, RowSound
  <1>2. Text(m, w) = Text(m, v) <=> w = v
    BY DEF Text
  <1>3. UserText # Text(m, v)
    BY PackagesAssumption DEF UserText, Text
  <1>4. CASE r \in Connector
    BY <1>1, <1>2, <1>3, <1>4 DEF PackagesInv, RowsSound, RowSound, Skipped
  <1>5. CASE r \notin Connector
    <2>1. r \notin imported
      BY <1>5 DEF PackagesInv, PackagesTyped
    <2>2. Hash[r][m][w] = Hash[r][m][v] => w = v
      BY <1>5, PackagesAssumption
    <2>3. QED
      BY <1>1, <1>2, <2>1, <2>2
  <1>6. QED
    BY <1>4, <1>5

\* What an update of an unskipped row does to its owner and its content.
LEMMA UpdateRightful ==
    ASSUME PackagesInv, NEW i \in Session, NEW r \in Resource, request[i].op \in {"apply", "preview"},
           rowOf[r] # Missing, NEW new \in ResourceRow, NEW q,
           q.op = request[i].op, q.by = request[i].by, q.version = request[i].version,
           new.owner = Reclaimed(rowOf[r], q.by).owner \/ new.owner = q.by,
           rowOf[r].owner \in Package /\ rowOf[r].owner # q.by =>
               new.owner = q.by \/ new = rowOf[r],
           new.active \/ new.active = rowOf[r].active,
           \/ new.content = rowOf[r].content /\ new.sum = rowOf[r].sum
           \/ /\ q.op = "apply" /\ ~Skipped(r, rowOf[r], q.by, q.version)
              /\ new.content = Text(q.by, q.version) /\ new.sum = Hash[r][q.by][q.version]
    PROVE  /\ UpdateOf(r, rowOf[r], new) \in Statements
           /\ UpdateOf(r, rowOf[r], new).kind \in {"none", "update"}
           /\ UpdateOf(r, rowOf[r], new).kind = "update" =>
                  /\ UpdateOf(r, rowOf[r], new).on = r
                  /\ Rightful(q, UpdateOf(r, rowOf[r], new), r)
           /\ \/ rowOf[r].sum = new.sum
              \/ UpdateOf(r, rowOf[r], new).on = r /\ Sets(UpdateOf(r, rowOf[r], new))
  <1>1. rowOf[r] \in ResourceRow /\ q.by \in Manager /\ q.version \in Version
    BY SessionFacts DEF PackagesInv, PackagesTyped
  <1>2. CASE new = rowOf[r]
    BY <1>2 DEF UpdateOf, NoStatement, Statement, Statements, Column
  <1>3. CASE new # rowOf[r]
    <2>1. PICK s : s = UpdateOf(r, rowOf[r], new)
      OBVIOUS
    <2>2. s.kind = "update" /\ s.on = r /\ s.new = new /\ s.columns = Changed(rowOf[r], new)
      BY <1>3, <2>1 DEF UpdateOf, Statement
    <2>3. s \in Statements
      BY <1>1, <1>3, <2>1, ChangedColumns DEF UpdateOf, Statement, Statements
    <2>4. /\ "owner" \in s.columns <=> new.owner # rowOf[r].owner
          /\ "content" \in s.columns <=> new.content # rowOf[r].content
          /\ "sum" \in s.columns <=> new.sum # rowOf[r].sum
          /\ "active" \in s.columns <=> new.active # rowOf[r].active
      BY <1>1, <2>2, ChangedColumns
    <2>5. Reclaimed(rowOf[r], q.by).owner \in {rowOf[r].owner, q.by}
      BY <1>1 DEF Reclaimed, ResourceRow
    <2>6. Marked(r) => ("owner" \notin s.columns <=> rowOf[r].owner = q.by)
      BY <1>3, <2>4, <2>5 DEF Marked
    <2>7. Marked(r) /\ rowOf[r].owner = q.by =>
              ("content" \in s.columns <=> "sum" \in s.columns)
      BY <1>1, <2>4, BothOrNeither
    <2>8. "content" \in s.columns =>
              /\ q.op = "apply"
              /\ s.new.content = Text(q.by, q.version) /\ s.new.sum = Hash[r][q.by][q.version]
      BY <2>2, <2>4
    <2>9. "active" \in s.columns => s.new.active
      BY <2>2, <2>4
    <2>10. Rightful(q, s, r)
      BY <2>2, <2>6, <2>7, <2>8, <2>9 DEF Rightful
    <2>11. QED
      BY <2>1, <2>2, <2>3, <2>4, <2>10 DEF Sets
  <1>4. QED
    BY <1>2, <1>3

\* The empty statement and the empty request.
LEMMA NoneTyped ==
    /\ NoStatement \in Statements /\ NoStatement.kind = "none"
    /\ NoRequest \in SessionRecord
    /\ NoRequest.op = "none" /\ NoRequest.pending = NoStatement /\ NoRequest.writes = Nothing
    /\ NoRequest.failed = {}
    /\ \A r \in Resource : NoRequest.writes[r] = NoStatement
  <1>1. NoStatement \in Statements /\ NoStatement.kind = "none"
    BY DEF NoStatement, Statement, Statements, Column
  <1>2. QED
    BY <1>1 DEF NoRequest, SessionRecord, Nothing

\* What a manager ships is a row.
LEMMA TextTyped ==
    ASSUME NEW m \in Manager, NEW v \in Version
    PROVE  /\ Text(m, v) \in (Manager \union {User}) \X Nat
           /\ \A r \in Resource : Hash[r][m][v] \in Nat /\ Made(r, m, v) \in ResourceRow
  BY PackagesAssumption DEF Text, Made, ResourceRow

\* A request that has passed a resource.
LEMMA PassedTyped ==
    ASSUME PackagesInv, NEW i \in Session, request[i].todo # << >>, NEW s \in Statements
    PROVE  /\ Passed(i, s) \in SessionRecord
           /\ Passed(i, s).op = request[i].op /\ Passed(i, s).by = request[i].by
           /\ Passed(i, s).version = request[i].version /\ Passed(i, s).known = request[i].known
           /\ Passed(i, s).todo = Tail(request[i].todo)
           /\ Passed(i, s).pending = s /\ Passed(i, s).writes = request[i].writes
           /\ Passed(i, s).failed = request[i].failed
  <1>1. request[i] \in SessionRecord /\ Tail(request[i].todo) \in Seq(Resource)
    BY SessionFacts
  <1>2. QED
    BY <1>1 DEF Passed, SessionRecord

\* A request that goes on about its own manager and starts no write of a locked row.
LEMMA GoesOn ==
    ASSUME PackagesInv, NEW i \in Session, NEW q, Sound(q), Becomes(i, q),
           q.op = request[i].op, q.by = request[i].by,
           \A r \in Resource : q.writes[r] # NoStatement => Writes(i, r) \/ ~LockedFor(r, i)
    PROVE  PackagesInv'
  <1>1. overlapped' \subseteq Manager /\ requests' \in Nat /\ edits' \in Nat
    BY DEF PackagesInv, PackagesTyped, Becomes
  <1>2. \A j \in Session \ {i} :
            /\ q.op \in {"apply", "remove"} /\ request[j].op \in {"apply", "remove"}
            /\ q.by = request[j].by
            => q.by \in overlapped'
    BY DEF PackagesInv, OneAlone, Becomes
  <1>3. QED
    BY <1>1, <1>2, BecomesKeeps DEF Becomes

\* A marked row that is skipped has the checksum of what would be written.
LEMMA SkipKeeps ==
    ASSUME PackagesInv, NEW i \in Session, NEW r \in Resource, Skip(i, r)
    PROVE  PackagesInv'
  <1>1. PICK q : q = Passed(i, NoStatement)
    OBVIOUS
  <1>2. Applying(i, r) /\ Becomes(i, q) /\ request[i].todo # << >>
    BY <1>1 DEF Skip, Applying
  <1>3. Marked(r) /\ rowOf[r].owner = q.by => rowOf[r].sum = Hash[r][q.by][q.version]
    <2>1. q.by = request[i].by /\ q.version = request[i].version
      BY <1>1, <1>2, NoneTyped, PassedTyped
    <2>2. QED
      BY <2>1 DEF Skip, Skipped, Marked
  <1>4. Sound(q)
    BY <1>1, <1>2, <1>3, NoneTyped, PassedTyped, PassedSound
  <1>5. QED
    BY <1>1, <1>2, <1>4, NoneTyped, PassedTyped, GoesOn DEF Writes

\* There is no row: nothing has a mark.
LEMMA CreateKeeps ==
    ASSUME PackagesInv, NEW i \in Session, NEW r \in Resource, Create(i, r)
    PROVE  PackagesInv'
  <1> DEFINE made == Made(r, request[i].by, request[i].version)
  <1>1. PICK s : s = IF request[i].op = "preview" THEN NoStatement
                     ELSE Statement("insert", r, made, Column)
    OBVIOUS
  <1>2. PICK q : q = Passed(i, s)
    OBVIOUS
  <1>3. Applying(i, r) /\ Becomes(i, q) /\ request[i].todo # << >> /\ rowOf[r] = Missing
    BY <1>1, <1>2 DEF Create, Applying
  <1>4. request[i].op \in {"apply", "preview"} /\ made \in ResourceRow
    BY <1>3, SessionFacts, TextTyped DEF Applying
  <1>5. CASE request[i].op = "preview"
    BY <1>1, <1>2, <1>3, <1>5, NoneTyped, PassedTyped, PassedSound, GoesOn DEF Writes, Marked
  <1>6. CASE request[i].op = "apply"
    <2>1. s \in Statements /\ s.kind = "insert" /\ s.on = r /\ s.new = made
      BY <1>1, <1>4, <1>6 DEF Statement, Statements, Column
    <2>2. Rightful(q, s, r)
      BY <1>2, <1>3, <1>6, <2>1, PassedTyped DEF Rightful
    <2>3. Sound(q)
      BY <1>2, <1>3, <2>1, <2>2, PassedTyped, PassedSound DEF Marked
    <2>4. QED
      BY <1>2, <1>3, <2>1, <2>3, PassedTyped, GoesOn DEF Writes
  <1>7. QED
    BY <1>4, <1>5, <1>6

\* Taking over changes the owner of an inactive row only.
LEMMA ReclaimedOwner ==
    ASSUME NEW old \in ResourceRow, NEW m \in Manager
    PROVE  /\ Reclaimed(old, m) \in ResourceRow
           /\ Reclaimed(old, m).content = old.content /\ Reclaimed(old, m).sum = old.sum
           /\ old.active => Reclaimed(old, m) = old
           /\ ~old.active => Reclaimed(old, m).owner = m
           /\ Reclaimed(old, m).active = old.active
  BY DEF Reclaimed, ResourceRow

\* What an update writes.
LEMMA UpdatedRow ==
    ASSUME NEW old \in ResourceRow, NEW m \in Manager, NEW v \in Version, NEW r \in Resource
    PROVE  /\ Updated(r, old, m, v) \in ResourceRow
           /\ Updated(r, old, m, v).content = Text(m, v)
           /\ Updated(r, old, m, v).sum = Hash[r][m][v] /\ Updated(r, old, m, v).active
           /\ Updated(r, old, m, v).owner =
                  IF r \in Connector THEN m ELSE Reclaimed(old, m).owner
  BY ReclaimedOwner, TextTyped DEF Updated, ResourceRow

\* An unskipped row of another manager is inactive: it is taken over.
LEMMA ChangeKeeps ==
    ASSUME PackagesInv, NEW i \in Session, NEW r \in Resource, Change(i, r)
    PROVE  PackagesInv'
  <1> DEFINE m == request[i].by
             v == request[i].version
  <1>1. PICK new : new = IF request[i].op = "preview" THEN Reclaimed(rowOf[r], m)
                         ELSE Updated(r, rowOf[r], m, v)
    OBVIOUS
  <1>2. PICK s : s = UpdateOf(r, rowOf[r], new)
    OBVIOUS
  <1>3. PICK q : q = Passed(i, s)
    OBVIOUS
  <1>4. /\ Applying(i, r) /\ Becomes(i, q) /\ request[i].todo # << >>
        /\ rowOf[r] # Missing /\ ~Skipped(r, rowOf[r], m, v)
    BY <1>1, <1>2, <1>3 DEF Change, Applying
  <1>5. /\ request[i].op \in {"apply", "preview"} /\ rowOf[r] \in ResourceRow
        /\ m \in Manager /\ v \in Version
    BY <1>4, SessionFacts DEF Applying, PackagesInv, PackagesTyped
  <1>6. /\ new \in ResourceRow /\ (new.owner = Reclaimed(rowOf[r], m).owner \/ new.owner = m)
        /\ new.active \/ new.active = rowOf[r].active
    BY <1>1, <1>5, ReclaimedOwner, UpdatedRow
  <1>7. \/ new.content = rowOf[r].content /\ new.sum = rowOf[r].sum
        \/ request[i].op = "apply" /\ new.content = Text(m, v) /\ new.sum = Hash[r][m][v]
    BY <1>1, <1>5, ReclaimedOwner, UpdatedRow
  <1>8. rowOf[r].owner \in Package /\ rowOf[r].owner # m => new.owner = m
    <2>1. Nobody \notin Package
      BY PackagesAssumption DEF Manager
    <2>2. rowOf[r].owner \in Package /\ rowOf[r].owner # m => ~rowOf[r].active
      BY <1>4, <2>1 DEF Skipped
    <2>3. QED
      BY <1>5, <1>6, <2>2, ReclaimedOwner
  <1>9. \A x \in SessionRecord : x.op = request[i].op /\ x.by = m /\ x.version = v =>
            /\ s \in Statements /\ s.kind \in {"none", "update"}
            /\ s.kind = "update" => s.on = r /\ Rightful(x, s, r)
            /\ \/ rowOf[r].sum = new.sum
               \/ s.on = r /\ Sets(s)
    BY <1>2, <1>4, <1>5, <1>6, <1>7, <1>8, UpdateRightful
  <1>10. s \in Statements
    BY <1>9, SessionFacts
  <1>11. q \in SessionRecord /\ q.op = request[i].op /\ q.by = m /\ q.version = v
         /\ q.pending = s
    BY <1>3, <1>4, <1>10, PassedTyped
  <1>12. q.op = "apply" => new.sum = Hash[r][m][v]
    BY <1>1, <1>5, <1>11, UpdatedRow
  <1>13. Sound(q)
    <2>1. /\ q.known = request[i].known /\ q.todo = Tail(request[i].todo)
          /\ q.writes = request[i].writes /\ request[i].failed \subseteq q.failed
      BY <1>3, <1>4, <1>10, PassedTyped
    <2>2. s.kind \in {"none", "update"} /\ (s.kind = "update" => s.on = r /\ Rightful(q, s, r))
      BY <1>9, <1>11
    <2>3. q.op = "apply" => rowOf[r].sum = Hash[r][q.by][q.version] \/ (s.on = r /\ Sets(s))
      BY <1>9, <1>11, <1>12
    <2>4. QED
      BY <1>4, <1>11, <2>1, <2>2, <2>3, PassedSound
  <1>14. QED
    BY <1>3, <1>4, <1>10, <1>11, <1>13, PassedTyped, GoesOn DEF Writes

\* A resource that fails is reported; its row may have been reclaimed.
LEMMA FailKeeps ==
    ASSUME PackagesInv, NEW i \in Session, NEW r \in Resource, Fail(i, r)
    PROVE  PackagesInv'
  <1> DEFINE old == rowOf[r]
             m == request[i].by
             changes == r \in Agent /\ old # Missing
  <1>1. PICK s : s = IF changes THEN UpdateOf(r, old, Reclaimed(old, m)) ELSE NoStatement
    OBVIOUS
  <1>2. PICK q : q = [Passed(i, s) EXCEPT !.failed = @ \union {r}]
    OBVIOUS
  <1>3. Applying(i, r) /\ Becomes(i, q) /\ request[i].todo # << >>
    BY <1>1, <1>2 DEF Fail, Applying
  <1>4. request[i].op \in {"apply", "preview"} /\ m \in Manager
    BY <1>3, SessionFacts DEF Applying
  <1>5. /\ s \in Statements /\ s.kind \in {"none", "update"}
        /\ s.kind = "update" => old # Missing
        /\ \A x \in SessionRecord :
              /\ x.op = request[i].op /\ x.by = m /\ x.version = request[i].version
              /\ s.kind = "update"
              => s.on = r /\ Rightful(x, s, r)
    <2>1. CASE ~changes
      BY <1>1, <2>1, NoneTyped
    <2>2. CASE changes
      <3>1. old \in ResourceRow
        BY <2>2 DEF PackagesInv, PackagesTyped
      <3>2. PICK new : new = Reclaimed(old, m)
        OBVIOUS
      <3>3. /\ new \in ResourceRow /\ new.content = old.content /\ new.sum = old.sum
            /\ new.active = old.active
            /\ new = old \/ new.owner = m
        BY <1>4, <3>1, <3>2, ReclaimedOwner
      <3>4. \A x \in SessionRecord :
              x.op = request[i].op /\ x.by = m /\ x.version = request[i].version =>
                /\ UpdateOf(r, old, new) \in Statements
                /\ UpdateOf(r, old, new).kind \in {"none", "update"}
                /\ UpdateOf(r, old, new).kind = "update" =>
                      /\ UpdateOf(r, old, new).on = r
                      /\ Rightful(x, UpdateOf(r, old, new), r)
        BY <1>4, <2>2, <3>2, <3>3, UpdateRightful
      <3>5. QED
        BY <1>1, <2>2, <3>2, <3>4, SessionFacts
    <2>3. QED
      BY <2>1, <2>2
  <1>6. /\ q \in SessionRecord /\ q.op = request[i].op /\ q.by = m
        /\ q.version = request[i].version /\ q.known = request[i].known
        /\ q.todo = Tail(request[i].todo) /\ q.pending = s /\ q.writes = request[i].writes
        /\ request[i].failed \subseteq q.failed /\ r \in q.failed
    BY <1>2, <1>3, <1>5, PassedTyped DEF SessionRecord
  <1>7. Sound(q)
    <2>1. s.kind \in {"none", "update"} /\ (s.kind = "update" => s.on = r /\ Rightful(q, s, r))
      BY <1>5, <1>6
    <2>2. QED
      BY <1>3, <1>5, <1>6, <2>1, PassedSound
  <1>8. QED
    BY <1>3, <1>6, <1>7, GoesOn DEF Writes

\* The pending statement is sent; it may replace an earlier one of the same row.
LEMMA FlushKeeps ==
    ASSUME PackagesInv, NEW i \in Session, Flush(i)
    PROVE  PackagesInv'
  <1> DEFINE old == request[i]
  <1>1. PICK s : s = old.pending
    OBVIOUS
  <1>2. PICK q : q = [old EXCEPT !.pending = NoStatement, !.writes[s.on] = s]
    OBVIOUS
  <1>3. /\ s.kind \in {"insert", "update"} /\ ~LockedFor(s.on, i) /\ Becomes(i, q)
        /\ s.kind = "insert" => rowOf[s.on] = Missing
    BY <1>1, <1>2 DEF Flush
  <1>4. /\ Sound(old) /\ old \in SessionRecord /\ s \in Statements
        /\ old.writes \in [Resource -> Statements]
    BY <1>1, SessionFacts DEF SessionRecord
  <1>5. /\ s.on \in Resource /\ Rightful(old, s, s.on)
        /\ s.kind = "update" => rowOf[s.on] # Missing
    BY <1>1, <1>3, <1>4 DEF Sound, PendingSound
  <1>6. /\ q \in SessionRecord /\ q.pending = NoStatement
        /\ q.op = old.op /\ q.by = old.by /\ q.version = old.version /\ q.known = old.known
        /\ q.todo = old.todo /\ q.failed = old.failed
        /\ \A r \in Resource : q.writes[r] = IF r = s.on THEN s ELSE old.writes[r]
    BY <1>2, <1>4, <1>5, NoneTyped DEF SessionRecord
  <1>7. PendingSound(q) /\ NeedNot(q)
    BY <1>6, NoneTyped DEF PendingSound, NeedNot
  <1>8. WritesSound(q)
    <2>1. SUFFICES ASSUME NEW r \in Resource, NEW w, w = q.writes[r]
                   PROVE  /\ w = NoStatement \/ w.kind \in {"insert", "update", "delete"}
                          /\ w.kind = "insert" => rowOf[r] = Missing
                          /\ w.kind \in {"update", "delete"} => rowOf[r] # Missing
                          /\ Rightful(q, w, r)
      BY DEF WritesSound
    <2>2. CASE r = s.on
      BY <1>3, <1>5, <1>6, <2>1, <2>2 DEF Rightful
    <2>3. CASE r # s.on
      <3>1. w = old.writes[r] /\ WritesSound(old)
        BY <1>4, <1>6, <2>1, <2>3 DEF Sound
      <3>2. Rightful(old, w, r) /\ q.op = old.op /\ q.by = old.by /\ q.version = old.version
        BY <1>6, <3>1 DEF WritesSound
      <3>3. Rightful(q, w, r)
        BY <3>2 DEF Rightful
      <3>4. QED
        BY <3>1, <3>3 DEF WritesSound
    <2>4. QED
      BY <2>2, <2>3
  <1>9. Passes(q)
    <2>1. SUFFICES ASSUME Alone(q), NEW r \in Resource, Marked(r), rowOf[r].owner = q.by,
                          ~InList(q.todo, r)
                   PROVE  IF q.op = "remove" THEN q.writes[r].kind = "delete"
                          ELSE Shipped(q.by, q.version, r) /\ r \notin q.failed =>
                                  \/ rowOf[r].sum = Hash[r][q.by][q.version]
                                  \/ q.pending.on = r /\ Sets(q.pending)
                                  \/ Sets(q.writes[r])
      BY DEF Passes
    <2>2. Alone(old) /\ Passes(old) /\ NeedNot(old)
      BY <1>4, <1>6, <2>1 DEF Sound, Alone
    <2>3. CASE q.op = "remove"
      <3>1. old.writes[r].kind = "delete"
        BY <1>6, <2>1, <2>2, <2>3 DEF Passes
      <3>2. r # s.on
        BY <1>3, <1>5, <1>6, <2>1, <2>3 DEF Rightful, Marked
      <3>3. QED
        BY <1>6, <2>3, <3>1, <3>2
    <2>4. CASE q.op # "remove"
      <3>1. q.op = "apply"
        BY <2>1, <2>4 DEF Alone
      <3>2. SUFFICES ASSUME Shipped(q.by, q.version, r), r \notin q.failed,
                            rowOf[r].sum # Hash[r][q.by][q.version]
                     PROVE  Sets(q.writes[r])
        BY <2>4
      <3>3. \/ s.on = r /\ Sets(s)
            \/ Sets(old.writes[r])
        BY <1>1, <1>6, <2>1, <2>2, <2>4, <3>2 DEF Passes
      <3>4. CASE r = s.on
        <4>1. s.kind = "update"
          BY <1>3, <2>1, <3>4 DEF Marked
        <4>2. QED
          BY <1>1, <1>6, <2>1, <2>2, <3>1, <3>2, <3>4, <4>1 DEF NeedNot
      <3>5. CASE r # s.on
        BY <1>6, <3>3, <3>5
      <3>6. QED
        BY <3>4, <3>5
    <2>5. QED
      BY <2>3, <2>4
  <1>10. Sound(q)
    BY <1>4, <1>6, <1>7, <1>8, <1>9 DEF Sound, Alone
  <1>11. QED
    BY <1>3, <1>6, <1>10, GoesOn DEF Writes

\* A row with the mark gets its DELETE as the uninstall passes its table.
LEMMA DeleteOneKeeps ==
    ASSUME PackagesInv, NEW i \in Session, DeleteOne(i)
    PROVE  PackagesInv'
  <1> DEFINE old == request[i]
  <1>1. PICK d : d = Head(old.todo)
    OBVIOUS
  <1>2. PICK found \in BOOLEAN : found = (rowOf[d] # Missing /\ rowOf[d].owner = old.by)
    OBVIOUS
  <1>3. PICK q : q = Deleting(i, d, found)
    OBVIOUS
  <1>4. /\ old.op = "remove" /\ old.todo # << >> /\ ~LockedFor(d, i) /\ Becomes(i, q)
    BY <1>1, <1>2, <1>3 DEF DeleteOne
  <1>5. /\ Sound(old) /\ old \in SessionRecord /\ old.todo \in Seq(Resource)
        /\ old.writes \in [Resource -> Statements]
    BY SessionFacts DEF SessionRecord
  <1>6. d \in Resource /\ Tail(old.todo) \in Seq(Resource)
    BY <1>1, <1>4, <1>5
  <1>7. PICK s : s = IF found THEN Statement("delete", d, Missing, {}) ELSE old.writes[d]
    OBVIOUS
  <1>8. s \in Statements
    BY <1>5, <1>6, <1>7 DEF Statement, Statements
  <1>9. q = [old EXCEPT !.todo = Tail(@), !.writes[d] = s]
    BY <1>3, <1>7 DEF Deleting
  <1>10. /\ q \in SessionRecord /\ q.pending = old.pending
         /\ q.op = old.op /\ q.by = old.by /\ q.version = old.version /\ q.known = old.known
         /\ q.todo = Tail(old.todo) /\ q.failed = old.failed
         /\ \A r \in Resource : q.writes[r] = IF r = d THEN s ELSE old.writes[r]
    BY <1>5, <1>6, <1>8, <1>9 DEF SessionRecord
  <1>11. found => s.kind = "delete" /\ s.new = Missing
    BY <1>7 DEF Statement
  <1>12. PendingSound(q) /\ NeedNot(q)
    BY <1>4, <1>5, <1>10 DEF Sound, PendingSound, Rightful, NeedNot
  <1>13. WritesSound(q)
    <2>1. CASE found
      BY <1>2, <1>4, <1>5, <1>10, <1>11, <2>1 DEF Sound, WritesSound, Rightful
    <2>2. CASE ~found
      <3>1. \A r \in Resource : q.writes[r] = old.writes[r]
        BY <1>7, <1>10, <2>2
      <3>2. WritesSound(old) /\ q.op = old.op /\ q.by = old.by /\ q.version = old.version
        BY <1>5, <1>10 DEF Sound
      <3>3. \A r, w : Rightful(old, w, r) => Rightful(q, w, r)
        BY <3>2 DEF Rightful
      <3>4. QED
        BY <3>1, <3>2, <3>3 DEF WritesSound
    <2>3. QED
      BY <2>1, <2>2
  <1>14. Passes(q)
    <2>1. SUFFICES ASSUME Alone(q), NEW r \in Resource, Marked(r), rowOf[r].owner = q.by,
                          ~InList(q.todo, r)
                   PROVE  q.writes[r].kind = "delete"
      BY <1>4, <1>10 DEF Passes
    <2>2. CASE r = d
      BY <1>2, <1>10, <1>11, <2>1, <2>2 DEF Marked
    <2>3. CASE r # d
      <3>1. ~InList(old.todo, r)
        BY <1>1, <1>4, <1>5, <1>10, <2>1, <2>3, TailList
      <3>2. Alone(old) /\ Passes(old)
        BY <1>5, <1>10, <2>1 DEF Sound, Alone
      <3>3. QED
        BY <1>4, <1>10, <2>1, <2>3, <3>1, <3>2 DEF Passes
    <2>4. QED
      BY <2>2, <2>3
  <1>15. Sound(q)
    BY <1>4, <1>5, <1>10, <1>12, <1>13, <1>14 DEF Sound, Alone
  <1>16. \A r \in Resource : q.writes[r] # NoStatement => Writes(i, r) \/ ~LockedFor(r, i)
    BY <1>4, <1>10 DEF Writes
  <1>17. QED
    BY <1>4, <1>10, <1>15, <1>16, GoesOn

\* Nothing is left of the request.
LEMMA AbortKeeps ==
    ASSUME PackagesInv, NEW i \in Session, Abort(i)
    PROVE  PackagesInv'
  <1>1. overlapped' \subseteq Manager /\ requests' \in Nat /\ edits' \in Nat
    BY DEF PackagesInv, PackagesTyped, Abort
  <1>2. PICK q : q = NoRequest
    OBVIOUS
  <1>3. /\ Sound(q) /\ request' = [request EXCEPT ![i] = q] /\ q.op = "none"
        /\ \A r \in Resource : q.writes[r] = NoStatement
    BY <1>2, NoneSound, NoneTyped DEF Abort
  <1>4. QED
    BY <1>1, <1>3, BecomesKeeps DEF Abort

\* A request begins with nothing written.
LEMMA BeginKeeps ==
    ASSUME PackagesInv, NEW i \in Session, NEW q, Sound(q), Begin(i, q), q.op # "none",
           q.writes = Nothing
    PROVE  PackagesInv'
  <1>1. overlapped' \subseteq Manager /\ requests' \in Nat /\ edits' \in Nat
        /\ overlapped \subseteq overlapped'
    BY DEF PackagesInv, PackagesTyped, Begin, Sound
  <1>2. \A r \in Resource : q.writes[r] = NoStatement
    BY DEF Nothing
  <1>3. \A j \in Session \ {i} :
            /\ q.op \in {"apply", "remove"} /\ request[j].op \in {"apply", "remove"}
            /\ q.by = request[j].by
            => q.by \in overlapped'
    BY DEF Begin
  <1>4. QED
    BY <1>1, <1>2, <1>3, BecomesKeeps DEF Begin

\* What it will apply is all that its version ships.
LEMMA ApplyKeeps ==
    ASSUME PackagesInv, NEW i \in Session, NEW op \in {"apply", "preview"}, NEW m \in Manager,
           NEW v \in Version, Apply(i, op, m, v)
    PROVE  PackagesInv'
  <1>1. PICK q : q = [NoRequest EXCEPT !.op = op, !.by = m, !.version = v,
                                       !.known = KnownVersion(m), !.todo = Ships[m][v]]
    OBVIOUS
  <1>2. Ships[m][v] \in Seq(Resource) /\ KnownVersion(m) \in Version \union {0}
    BY PackagesAssumption DEF PackagesInv, PackagesTyped, KnownVersion
  <1>3. /\ q \in SessionRecord /\ q.op = op /\ q.by = m /\ q.version = v
        /\ q.known = KnownVersion(m) /\ q.todo = Ships[m][v] /\ q.pending = NoStatement
        /\ q.writes = Nothing
    BY <1>1, <1>2, NoneTyped DEF SessionRecord
  <1>4. \A r \in Resource : q.writes[r] = NoStatement
    BY <1>3 DEF Nothing
  <1>5. PendingSound(q) /\ WritesSound(q) /\ NeedNot(q)
    BY <1>3, <1>4, NoneTyped DEF PendingSound, WritesSound, Rightful, NeedNot
  <1>6. Passes(q)
    BY <1>3 DEF Passes, Shipped
  <1>7. Alone(q) => q.known = packages[q.by]
    BY <1>3 DEF Alone, KnownVersion
  <1>8. Sound(q)
    BY <1>3, <1>5, <1>6, <1>7 DEF Sound
  <1>9. QED
    BY <1>1, <1>3, <1>8, BeginKeeps DEF Apply

\* It will look into every table.
LEMMA UninstallKeeps ==
    ASSUME PackagesInv, NEW i \in Session, NEW p \in Package, Uninstall(i, p)
    PROVE  PackagesInv'
  <1>1. PICK q : q = [NoRequest EXCEPT !.op = "remove", !.by = p,
                                       !.known = packages[p], !.todo = DeleteOrder]
    OBVIOUS
  <1>2. DeleteOrder \in Seq(Resource) /\ packages[p] \in Version \union {0} /\ p \in Manager
    BY PackagesAssumption DEF PackagesInv, PackagesTyped, Manager
  <1>3. /\ q \in SessionRecord /\ q.op = "remove" /\ q.by = p
        /\ q.known = packages[p] /\ q.todo = DeleteOrder /\ q.pending = NoStatement
        /\ q.writes = Nothing
    BY <1>1, <1>2, NoneTyped DEF SessionRecord
  <1>4. \A r \in Resource : q.writes[r] = NoStatement
    BY <1>3 DEF Nothing
  <1>5. PendingSound(q) /\ WritesSound(q) /\ NeedNot(q)
    BY <1>3, <1>4, NoneTyped DEF PendingSound, WritesSound, Rightful, NeedNot
  <1>6. Passes(q)
    BY <1>3, PackagesAssumption DEF Passes, InList
  <1>7. Sound(q)
    BY <1>2, <1>3, <1>5, <1>6 DEF Sound, Alone
  <1>8. QED
    BY <1>1, <1>3, <1>7, BeginKeeps DEF Uninstall

\* A user reads a row before editing it.
LEMMA ReadForEditKeeps ==
    ASSUME PackagesInv, NEW r \in Resource, ReadForEdit(r)
    PROVE  PackagesInv'
  <1>1. PackagesTyped'
    BY DEF PackagesInv, PackagesTyped, ReadForEdit, ApiStep
  <1>2. AllSound'
    <2>1. ASSUME NEW j \in Session, NEW p \in {request'[j]} PROVE Sound(p)'
      <3>1. Sound(p)
        BY <2>1 DEF PackagesInv, AllSound, ReadForEdit
      <3>2. QED
        BY <3>1, SoundStays DEF ReadForEdit, ApiStep
    <2>2. QED
      BY <2>1 DEF AllSound
  <1>3. WrittenOnce' /\ OneAlone'
    BY DEF PackagesInv, WrittenOnce, Writes, OneAlone, ReadForEdit, ApiStep
  <1>4. EditsSound'
    BY DEF PackagesInv, PackagesTyped, EditsSound, Marked, ReadForEdit, ApiStep
  <1>5. RowsSound' /\ MarkedAsRecorded'
    <2>1. UNCHANGED <<rowOf, packages, failed, taken, imported, overlapped>>
      BY DEF ReadForEdit, ApiStep
    <2>2. \A x \in Resource : RowSound(x) => RowSound(x)'
      BY <2>1 DEF RowSound, Marked
    <2>3. QED
      BY <2>1, <2>2 DEF PackagesInv, RowsSound, MarkedAsRecorded
  <1>6. QED
    BY <1>1, <1>2, <1>3, <1>4, <1>5 DEF PackagesInv

\* A request stays sound when others commit.
LEMMA ShiftKeeps ==
    ASSUME NEW q, Sound(q), NEW p \in SessionRecord,
           p.op = q.op, p.by = q.by, p.version = q.version, p.known = q.known,
           p.todo = q.todo, p.writes = q.writes, p.failed = q.failed,
           \/ p.pending = q.pending
           \/ /\ p.pending.kind = "lost" /\ q.pending.kind = "update"
              /\ rowOf'[q.pending.on] = Missing,
           p.pending.kind = "update" => rowOf'[p.pending.on] # Missing,
           Alone(q) => packages'[q.by] = packages[q.by],
           overlapped' = overlapped,
           \A r \in Resource :
               /\ q.writes[r] # NoStatement =>
                     rowOf'[r] = rowOf[r] /\ (r \in taken' <=> r \in taken)
               /\ Marked(r)' =>
                     \/ rowOf[r] = Missing /\ (Alone(q) => rowOf'[r].owner # q.by)
                     \/ /\ Marked(r) /\ rowOf'[r].owner = rowOf[r].owner
                        /\ Alone(q) /\ rowOf[r].owner = q.by =>
                              rowOf'[r].sum = rowOf[r].sum
    PROVE  Sound(p)'
  <1>1. Alone(p)' <=> Alone(q)
    BY DEF Alone
  <1>2. PendingSound(p)'
    BY DEF Sound, PendingSound, Rightful
  <1>3. WritesSound(p)'
    <2>1. SUFFICES ASSUME NEW r \in Resource, NEW w, w = q.writes[r]
                   PROVE  /\ w = NoStatement \/ w.kind \in {"insert", "update", "delete"}
                          /\ w.kind = "insert" => rowOf'[r] = Missing
                          /\ w.kind \in {"update", "delete"} => rowOf'[r] # Missing
                          /\ Rightful(p, w, r)'
      BY DEF WritesSound
    <2>2. /\ w = NoStatement \/ w.kind \in {"insert", "update", "delete"}
          /\ w.kind = "insert" => rowOf[r] = Missing
          /\ w.kind \in {"update", "delete"} => rowOf[r] # Missing
          /\ Rightful(q, w, r)
      BY <2>1 DEF Sound, WritesSound
    <2>3. CASE w = NoStatement
      BY <2>3, NoneTyped DEF Rightful
    <2>4. CASE w # NoStatement
      BY <2>1, <2>2, <2>4 DEF Rightful, Marked
    <2>5. QED
      BY <2>3, <2>4
  <1>4. Passes(p)'
    <2>1. SUFFICES ASSUME Alone(q), NEW r \in Resource, Marked(r)', rowOf'[r].owner = q.by,
                          ~InList(q.todo, r)
                   PROVE  IF q.op = "remove" THEN q.writes[r].kind = "delete"
                          ELSE Shipped(q.by, q.version, r) /\ r \notin q.failed =>
                                  \/ rowOf'[r].sum = Hash[r][q.by][q.version]
                                  \/ p.pending.on = r /\ Sets(p.pending)
                                  \/ Sets(q.writes[r])
      BY <1>1 DEF Passes
    <2>2. Marked(r) /\ rowOf[r].owner = q.by /\ rowOf'[r].sum = rowOf[r].sum
      BY <2>1
    <2>3. rowOf'[r] # Missing
      BY <2>1 DEF Marked
    <2>4. IF q.op = "remove" THEN q.writes[r].kind = "delete"
          ELSE Shipped(q.by, q.version, r) /\ r \notin q.failed =>
                  \/ rowOf[r].sum = Hash[r][q.by][q.version]
                  \/ q.pending.on = r /\ Sets(q.pending)
                  \/ Sets(q.writes[r])
      BY <2>1, <2>2 DEF Sound, Passes
    <2>5. QED
      BY <2>2, <2>3, <2>4
  <1>5. NeedNot(p)'
    <2>1. SUFFICES ASSUME Alone(q), q.op = "apply", p.pending.kind = "update",
                          Marked(p.pending.on)', rowOf'[p.pending.on].owner = q.by,
                          p.pending.on \notin q.failed
                   PROVE  \/ Sets(p.pending)
                          \/ rowOf'[p.pending.on].sum = Hash[p.pending.on][q.by][q.version]
      BY <1>1 DEF NeedNot
    <2>2. p.pending = q.pending /\ q.pending.on \in Resource /\ rowOf[q.pending.on] # Missing
      BY <2>1 DEF Sound, PendingSound
    <2>3. QED
      BY <2>1, <2>2 DEF Sound, NeedNot
  <1>6. Alone(p)' => p.known = packages'[p.by]
    BY <1>1 DEF Sound
  <1>7. QED
    BY <1>2, <1>3, <1>4, <1>5, <1>6 DEF Sound

\* What a commit does to a row.
LEMMA SavedRow ==
    ASSUME PackagesInv, NEW i \in Session, SaveWrites(i), NEW r \in Resource,
           NEW q, q = request[i], NEW w, w = q.writes[r]
    PROVE  /\ rowOf'[r] \in ResourceRow \union {Missing}
           /\ w.kind = "delete" <=> rowOf[r] # Missing /\ rowOf'[r] = Missing
           /\ r \in imported' <=> r \in imported /\ w.kind # "delete"
           /\ \/ w = NoStatement /\ rowOf'[r] = rowOf[r] /\ (r \in taken' <=> r \in taken)
              \/ /\ w # NoStatement /\ q.op = "apply"
                 /\ rowOf[r] = Missing /\ rowOf'[r] = Made(r, q.by, q.version)
              \/ w # NoStatement /\ rowOf[r] # Missing /\ r \in taken'
              \/ w # NoStatement /\ rowOf'[r] = Missing
              \/ /\ w # NoStatement /\ q.op # "remove"
                 /\ rowOf[r] # Missing /\ rowOf'[r] # Missing
                 /\ r \in taken' <=> r \in taken
                 /\ rowOf'[r].owner = rowOf[r].owner
                 /\ rowOf[r].active => rowOf'[r].active
                 /\ Marked(r) =>
                       /\ rowOf[r].owner = q.by
                       /\ \/ /\ ~Sets(w) /\ rowOf'[r].content = rowOf[r].content
                             /\ rowOf'[r].sum = rowOf[r].sum
                          \/ /\ q.op = "apply" /\ rowOf'[r].content = Text(q.by, q.version)
                             /\ rowOf'[r].sum = Hash[r][q.by][q.version]
  <1>0. r \in imported' <=> r \in imported /\ w.kind # "delete"
    BY DEF SaveWrites
  <1>1. Sound(q) /\ q \in SessionRecord /\ w \in Statements
    BY SessionFacts DEF SessionRecord
  <1>2. /\ w = NoStatement \/ w.kind \in {"insert", "update", "delete"}
        /\ w.kind = "insert" => rowOf[r] = Missing
        /\ w.kind \in {"update", "delete"} => rowOf[r] # Missing
        /\ Rightful(q, w, r)
    BY <1>1 DEF Sound, WritesSound
  <1>3. rowOf'[r] = IF w.kind = "none" THEN rowOf[r]
                    ELSE IF w.kind = "update" THEN Merged(rowOf[r], w.columns, w.new) ELSE w.new
    BY DEF SaveWrites, Written
  <1>4. r \in taken' <=> /\ w.kind # "delete"
                         /\ r \in taken \/ (w.kind = "update" /\ "owner" \in w.columns)
    BY DEF SaveWrites
  <1>5. rowOf[r] \in ResourceRow \union {Missing} /\ Missing \notin ResourceRow
    BY PackagesAssumption DEF PackagesInv, PackagesTyped
  <1>6. CASE w = NoStatement
    BY <1>0, <1>3, <1>4, <1>5, <1>6, NoneTyped
  <1>7. CASE w.kind = "insert"
    <2>1. q.op = "apply" /\ w.new = Made(r, q.by, q.version)
      BY <1>2, <1>7 DEF Rightful
    <2>2. w.new \in ResourceRow
      BY <1>1, <2>1, TextTyped DEF Sound
    <2>3. QED
      BY <1>0, <1>2, <1>3, <1>5, <1>7, <2>1, <2>2, NoneTyped
  <1>8. CASE w.kind = "delete"
    BY <1>0, <1>2, <1>3, <1>8, NoneTyped DEF Rightful
  <1>9. CASE w.kind = "update"
    <2>1. rowOf[r] \in ResourceRow /\ w.new \in ResourceRow /\ w.columns \in SUBSET Column
      BY <1>1, <1>2, <1>5, <1>9 DEF Rightful, Statements
    <2>2. rowOf'[r] = Merged(rowOf[r], w.columns, w.new)
      BY <1>3, <1>9
    <2>3. /\ rowOf'[r] \in ResourceRow
          /\ rowOf'[r].owner = IF "owner" \in w.columns THEN w.new.owner ELSE rowOf[r].owner
          /\ rowOf'[r].content =
                 IF "content" \in w.columns THEN w.new.content ELSE rowOf[r].content
          /\ rowOf'[r].sum = IF "sum" \in w.columns THEN w.new.sum ELSE rowOf[r].sum
          /\ rowOf'[r].active = IF "active" \in w.columns THEN w.new.active ELSE rowOf[r].active
      BY <2>1, <2>2, MergedRow
    <2>4. w # NoStatement
      BY <1>9, NoneTyped
    <2>5. CASE "owner" \in w.columns
      BY <1>0, <1>2, <1>4, <1>5, <1>9, <2>3, <2>4, <2>5
    <2>6. CASE "owner" \notin w.columns
      BY <1>0, <1>2, <1>4, <1>5, <1>9, <2>3, <2>4, <2>6 DEF Rightful, Sets
    <2>7. QED
      BY <2>5, <2>6
  <1>10. QED
    BY <1>2, <1>6, <1>7, <1>8, <1>9

\* What a commit keeps, whatever it does to the record of the package.
LEMMA SaveWritesKeeps ==
    ASSUME PackagesInv, NEW i \in Session, SaveWrites(i), request[i].op # "none",
           packages' \in [Package -> Version \union {0}],
           \A p \in Package : p # request[i].by => packages'[p] = packages[p],
           request[i].op = "preview" => packages' = packages,
           failed' \in [Package -> SUBSET Resource],
           UNCHANGED <<requests, edits, overlapped>>
    PROVE  /\ PackagesTyped' /\ AllSound' /\ WrittenOnce' /\ OneAlone' /\ EditsSound'
           /\ RowsSound'
  <1> DEFINE me == request[i]
             gone == {r \in Resource : me.writes[r].kind = "delete"}
             lost == Statement("lost", Missing, Missing, {})
  <1>1. Sound(me) /\ me \in SessionRecord /\ me.by \in Manager
    BY SessionFacts DEF Sound
  <1>2. /\ request'[i] = NoRequest
        /\ \A j \in Session \ {i} :
              request'[j] = IF /\ request[j].pending.kind = "update"
                               /\ request[j].pending.on \in gone
                            THEN [request[j] EXCEPT !.pending = lost] ELSE request[j]
        /\ request' = [j \in Session |-> request'[j]]
    BY NoneTyped DEF SaveWrites, Losing, PackagesInv, PackagesTyped
  <1>3. lost \in Statements /\ lost.kind = "lost"
    BY DEF Statement, Statements
  <1>4. \A j \in Session \ {i} :
            /\ request'[j] \in SessionRecord /\ request'[j].op = request[j].op
            /\ request'[j].by = request[j].by /\ request'[j].version = request[j].version
            /\ request'[j].known = request[j].known /\ request'[j].todo = request[j].todo
            /\ request'[j].writes = request[j].writes /\ request'[j].failed = request[j].failed
            /\ \/ request'[j].pending = request[j].pending
               \/ /\ request'[j].pending.kind = "lost" /\ request[j].pending.kind = "update"
                  /\ request[j].pending.on \in gone
            /\ request'[j].pending.kind = "update" => request'[j].pending.on \notin gone
    <2>1. TAKE j \in Session \ {i}
    <2>2. request[j] \in SessionRecord
      BY SessionFacts
    <2>3. QED
      BY <1>2, <1>3, <2>2 DEF SessionRecord
  <1>5. \A r \in Resource : rowOf'[r] \in ResourceRow \union {Missing}
    BY SavedRow
  <1>6. \A r \in Resource : r \in gone <=> rowOf[r] # Missing /\ rowOf'[r] = Missing
    BY SavedRow
  <1>7. PackagesTyped'
    <2>1. rowOf' \in [Resource -> ResourceRow \union {Missing}]
      BY <1>5 DEF SaveWrites, Written
    <2>2. request' \in [Session -> SessionRecord]
      BY <1>2, <1>4, NoneTyped
    <2>3. editing' \in [Resource -> ResourceRow \union {Missing}]
      BY DEF SaveWrites, LosingEdits, PackagesInv, PackagesTyped
    <2>4. taken' \subseteq Resource /\ imported' \subseteq Connector
      BY DEF SaveWrites, PackagesInv, PackagesTyped
    <2>5. QED
      BY <2>1, <2>2, <2>3, <2>4 DEF PackagesInv, PackagesTyped
  <1>8. \A r \in Resource, j \in Session \ {i} :
            request[j].writes[r] # NoStatement => me.writes[r] = NoStatement
    BY DEF PackagesInv, WrittenOnce, Writes
  <1>9. \A j \in Session \ {i} :
            Alone(request[j]) /\ me.op \in {"apply", "remove"} => request[j].by # me.by
    BY DEF PackagesInv, OneAlone, Alone
  <1>10. AllSound'
    <2>1. ASSUME NEW j \in Session, NEW p \in {request'[j]} PROVE Sound(p)'
      <3>1. CASE j = i
        BY <1>2, <2>1, <3>1, NoneSound
      <3>2. CASE j # i
        <4>1. PICK q : q = request[j]
          OBVIOUS
        <4>2. Sound(q) /\ p \in SessionRecord
          BY <1>4, <2>1, <3>2, <4>1, SessionFacts
        <4>3. /\ p.op = q.op /\ p.by = q.by /\ p.version = q.version /\ p.known = q.known
              /\ p.todo = q.todo /\ p.writes = q.writes /\ p.failed = q.failed
          BY <1>4, <2>1, <3>2, <4>1
        <4>4. /\ \/ p.pending = q.pending
                 \/ /\ p.pending.kind = "lost" /\ q.pending.kind = "update"
                    /\ rowOf'[q.pending.on] = Missing
              /\ p.pending.kind = "update" => p.pending.on \notin gone
          BY <1>4, <1>6, <2>1, <3>2, <4>1
        <4>5. p.pending.kind = "update" => rowOf'[p.pending.on] # Missing
          BY <1>3, <1>6, <4>2, <4>4 DEF Sound, PendingSound
        <4>6. Alone(q) => packages'[q.by] = packages[q.by]
          <5>1. ASSUME Alone(q) PROVE packages'[q.by] = packages[q.by]
            <6>1. q.by \in Package
              BY <5>1 DEF Alone
            <6>2. me.op \in {"apply", "preview", "remove"}
              BY <1>1 DEF SessionRecord
            <6>3. QED
              BY <1>9, <3>2, <4>1, <5>1, <6>1, <6>2
          <5>2. QED
            BY <5>1
        <4>7. ASSUME NEW r \in Resource
              PROVE  /\ q.writes[r] # NoStatement =>
                           rowOf'[r] = rowOf[r] /\ (r \in taken' <=> r \in taken)
                     /\ Marked(r)' =>
                           \/ rowOf[r] = Missing /\ (Alone(q) => rowOf'[r].owner # q.by)
                           \/ /\ Marked(r) /\ rowOf'[r].owner = rowOf[r].owner
                              /\ Alone(q) /\ rowOf[r].owner = q.by =>
                                    rowOf'[r].sum = rowOf[r].sum
          <5>1. Alone(q) /\ me.op = "apply" => q.by # me.by
            BY <1>9, <3>2, <4>1
          <5>2. q.writes[r] # NoStatement => me.writes[r] = NoStatement
            BY <1>8, <3>2, <4>1
          <5>3. Made(r, me.by, me.version).owner = me.by
            BY DEF Made
          <5>4. Marked(r)' <=> r \notin taken' /\ rowOf'[r] # Missing /\ rowOf'[r].owner \in Package
            BY DEF Marked
          <5>5. Marked(r) <=> r \notin taken /\ rowOf[r] # Missing /\ rowOf[r].owner \in Package
            BY DEF Marked
          <5>6. QED
            BY <5>1, <5>2, <5>3, <5>4, <5>5, SavedRow
        <4>8. overlapped' = overlapped
          OBVIOUS
        <4>9. QED
          BY <4>2, <4>3, <4>4, <4>5, <4>6, <4>7, <4>8, ShiftKeeps
      <3>3. QED
        BY <3>1, <3>2
    <2>2. QED
      BY <2>1 DEF AllSound
  <1>11. WrittenOnce'
    BY <1>2, <1>4, NoneTyped DEF PackagesInv, WrittenOnce, Writes
  <1>12. OneAlone'
    BY <1>2, <1>4, NoneTyped DEF PackagesInv, OneAlone
  <1>13. EditsSound'
    <2>1. ASSUME NEW r \in Resource, editing'[r] # Missing
          PROVE  rowOf'[r] # Missing /\ (Marked(r)' => editing'[r].owner = rowOf'[r].owner)
      <3>1. r \notin gone /\ editing'[r] = editing[r]
        BY <2>1 DEF SaveWrites, LosingEdits
      <3>2. rowOf[r] # Missing /\ (Marked(r) => editing[r].owner = rowOf[r].owner)
        BY <2>1, <3>1 DEF PackagesInv, EditsSound
      <3>3. rowOf'[r] # Missing
        BY <1>6, <3>1, <3>2
      <3>4. Marked(r)' => Marked(r) /\ rowOf'[r].owner = rowOf[r].owner
        BY <3>2, <3>3, SavedRow DEF Marked
      <3>5. QED
        BY <3>1, <3>2, <3>3, <3>4
    <2>2. QED
      BY <2>1 DEF EditsSound
  <1>14. RowsSound'
    <2>1. ASSUME NEW r \in Resource, Marked(r)' PROVE RowSound(r)'
      <3>1. PICK w : w = me.writes[r]
        OBVIOUS
      <3>2. r \notin taken' /\ rowOf'[r] # Missing
        BY <2>1 DEF Marked
      <3>3. r \in imported' <=> r \in imported
        BY <3>1, <3>2, SavedRow
      <3>4. CASE rowOf[r] = Missing
        <4>1. me.op = "apply" /\ rowOf'[r] = Made(r, me.by, me.version)
          BY <3>1, <3>2, <3>4, SavedRow
        <4>2. me.version \in Version
          BY <4>1, SessionFacts
        <4>3. QED
          BY <4>1, <4>2 DEF RowSound, Made
      <3>5. CASE rowOf[r] # Missing
        <4>1. rowOf'[r].owner = rowOf[r].owner /\ (r \in taken' <=> r \in taken)
              /\ (rowOf[r].active => rowOf'[r].active)
          BY <3>1, <3>2, <3>5, SavedRow
        <4>2. Marked(r)
          BY <2>1, <3>5, <4>1 DEF Marked
        <4>3. RowSound(r)
          BY DEF PackagesInv, RowsSound
        <4>4. \/ rowOf'[r].content = rowOf[r].content /\ rowOf'[r].sum = rowOf[r].sum
              \/ /\ me.op = "apply" /\ rowOf[r].owner = me.by
                 /\ rowOf'[r].content = Text(me.by, me.version)
                 /\ rowOf'[r].sum = Hash[r][me.by][me.version]
          BY <3>1, <3>2, <3>5, <4>2, SavedRow
        <4>5. me.op = "apply" => me.version \in Version
          BY SessionFacts
        <4>6. QED
          BY <3>3, <4>1, <4>2, <4>3, <4>4, <4>5 DEF RowSound
      <3>6. QED
        BY <3>4, <3>5
    <2>2. \A r \in Resource : RowSound(r)'
      BY <2>1 DEF RowSound
    <2>3. QED
      BY <2>2 DEF RowsSound
  <1>15. QED
    BY <1>7, <1>10, <1>11, <1>12, <1>13, <1>14

\* What a commit makes of the rows with a package's mark.
LEMMA CommittedRow ==
    ASSUME PackagesInv, NEW i \in Session, SaveWrites(i), Ready(i), NEW q, q = request[i],
           NEW r \in Resource, r \notin taken', rowOf'[r] # Missing, NEW p \in Package \ overlapped,
           rowOf'[r].owner = p
    PROVE  /\ p # q.by \/ q.op = "preview" =>
                  /\ Marked(r) /\ rowOf[r].owner = p
                  /\ rowOf'[r].sum = rowOf[r].sum
           /\ p = q.by => q.op # "remove"
           /\ p = q.by /\ q.op = "apply" /\ Shipped(p, q.version, r) /\ r \notin q.failed =>
                  rowOf'[r].sum = Hash[r][p][q.version]
  <1>1. PICK w : w = q.writes[r]
    OBVIOUS
  <1>2. Sound(q) /\ q.todo = << >> /\ q.pending = NoStatement
    BY SessionFacts DEF Ready
  <1>3. /\ Made(r, q.by, q.version).owner = q.by
        /\ Made(r, q.by, q.version).sum = Hash[r][q.by][q.version]
    BY DEF Made
  <1>4. rowOf[r] # Missing /\ rowOf'[r].owner = rowOf[r].owner /\ (r \in taken' <=> r \in taken)
            => Marked(r)
    BY DEF Marked
  <1>5. p # q.by \/ q.op = "preview" =>
            Marked(r) /\ rowOf[r].owner = p /\ rowOf'[r].sum = rowOf[r].sum
    BY <1>1, <1>3, <1>4, SavedRow
  <1>6. ~InList(q.todo, r) /\ ~Sets(q.pending) /\ ~Sets(NoStatement)
    BY <1>2, NoneTyped DEF InList, Sets
  <1>7. p = q.by /\ q.op \in {"apply", "remove"} /\ Marked(r) /\ rowOf[r].owner = p =>
            IF q.op = "remove" THEN w.kind = "delete"
            ELSE Shipped(p, q.version, r) /\ r \notin q.failed =>
                    rowOf[r].sum = Hash[r][p][q.version] \/ Sets(w)
    BY <1>1, <1>2, <1>6 DEF Sound, Passes, Alone
  <1>8. w.kind # "delete"
    BY <1>1, SavedRow
  <1>9. p = q.by => q.op # "remove"
    BY <1>1, <1>4, <1>7, <1>8, SavedRow
  <1>10. p = q.by /\ q.op = "apply" /\ Shipped(p, q.version, r) /\ r \notin q.failed =>
             rowOf'[r].sum = Hash[r][p][q.version]
    <2>1. SUFFICES ASSUME p = q.by, q.op = "apply", Shipped(p, q.version, r), r \notin q.failed
                   PROVE  rowOf'[r].sum = Hash[r][p][q.version]
      OBVIOUS
    <2>2. CASE w = NoStatement
      <3>1. rowOf'[r] = rowOf[r] /\ Marked(r) /\ rowOf[r].owner = p
        BY <1>1, <1>4, <2>2, SavedRow
      <3>2. QED
        BY <1>6, <1>7, <2>1, <2>2, <3>1
    <2>3. CASE w # NoStatement /\ rowOf[r] = Missing
      BY <1>1, <1>3, <2>1, <2>3, SavedRow
    <2>4. CASE w # NoStatement /\ rowOf[r] # Missing
      <3>1. rowOf'[r].owner = rowOf[r].owner /\ Marked(r)
        BY <1>1, <1>4, <2>4, SavedRow
      <3>2. \/ ~Sets(w) /\ rowOf'[r].sum = rowOf[r].sum
            \/ rowOf'[r].sum = Hash[r][p][q.version]
        BY <1>1, <2>1, <2>4, <3>1, SavedRow
      <3>3. QED
        BY <1>7, <2>1, <3>1, <3>2
    <2>5. QED
      BY <2>2, <2>3, <2>4
  <1>11. QED
    BY <1>5, <1>9, <1>10

\* What MarkedAsRecorded says of a row.
AsRecorded(r) ==
    (Marked(r) /\ rowOf[r].owner \notin overlapped) =>
        LET p == rowOf[r].owner
            v == packages[p]
        IN  v # 0 /\ (Shipped(p, v, r) /\ r \notin failed[p] => rowOf[r].sum = Hash[r][p][v])

\* Row by row, now ...
LEMMA RecordedRows == MarkedAsRecorded <=> \A r \in Resource : AsRecorded(r)
  BY DEF MarkedAsRecorded, AsRecorded, Marked, Shipped, InList

\* ... and after a step.
LEMMA RecordedRowsNext == MarkedAsRecorded' <=> \A r \in Resource : AsRecorded(r)'
  BY DEF MarkedAsRecorded, AsRecorded, Marked, Shipped, InList

\* The rows become the version that is recorded with them.
LEMMA CommitInstallKeeps ==
    ASSUME PackagesInv, NEW i \in Session, CommitInstall(i)
    PROVE  PackagesInv'
  <1>1. PICK q : q = request[i]
    OBVIOUS
  <1>2. /\ q.op = "apply" /\ q.by \in Package /\ Ready(i) /\ SaveWrites(i)
        /\ packages' = IF q.known = q.version THEN packages
                       ELSE [packages EXCEPT ![q.by] = q.version]
        /\ failed' = [failed EXCEPT ![q.by] = q.failed]
        /\ UNCHANGED <<requests, edits, overlapped>>
    BY <1>1 DEF CommitInstall
  <1>3. Sound(q) /\ q \in SessionRecord /\ q.version \in Version /\ q.version # 0
    BY <1>1, <1>2, SessionFacts, PackagesAssumption
  <1>4. /\ packages' \in [Package -> Version \union {0}]
        /\ \A p \in Package : p # q.by => packages'[p] = packages[p] /\ failed'[p] = failed[p]
        /\ q.known # q.version => packages'[q.by] = q.version
        /\ q.known = q.version => packages' = packages
        /\ failed' \in [Package -> SUBSET Resource] /\ failed'[q.by] = q.failed
    BY <1>2, <1>3 DEF PackagesInv, PackagesTyped, SessionRecord
  <1>5. /\ PackagesTyped' /\ AllSound' /\ WrittenOnce' /\ OneAlone' /\ EditsSound'
        /\ RowsSound'
    BY <1>1, <1>2, <1>4, SaveWritesKeeps
  <1>6. ASSUME NEW r \in Resource PROVE AsRecorded(r)'
    <2>1. SUFFICES ASSUME r \notin taken', rowOf'[r] # Missing,
                          NEW p \in Package \ overlapped, p = rowOf'[r].owner
                   PROVE  /\ packages'[p] # 0
                          /\ Shipped(p, packages'[p], r) /\ r \notin failed'[p] =>
                                 rowOf'[r].sum = Hash[r][p][packages'[p]]
      BY <1>2 DEF AsRecorded, Marked
    <2>2. CASE p # q.by
      <3>1. Marked(r) /\ rowOf[r].owner = p /\ rowOf'[r].sum = rowOf[r].sum
        BY <1>1, <1>2, <2>1, <2>2, CommittedRow
      <3>2. AsRecorded(r)
        BY RecordedRows DEF PackagesInv
      <3>3. QED
        BY <1>4, <2>1, <2>2, <3>1, <3>2 DEF AsRecorded
    <2>3. CASE p = q.by
      <3>1. q.known = packages[p]
        BY <1>2, <1>3, <2>1, <2>3 DEF Sound, Alone
      <3>2. packages'[p] = q.version
        BY <1>4, <2>3, <3>1
      <3>3. failed'[p] = q.failed
        BY <1>4, <2>3
      <3>4. Shipped(p, q.version, r) /\ r \notin q.failed => rowOf'[r].sum = Hash[r][p][q.version]
        BY <1>1, <1>2, <2>1, <2>3, CommittedRow
      <3>5. QED
        BY <1>3, <3>2, <3>3, <3>4
    <2>4. QED
      BY <2>2, <2>3
  <1>7. QED
    BY <1>5, <1>6, RecordedRowsNext DEF PackagesInv

\* The configuration is no package, and a dry run writes no contents.
LEMMA CommitOtherKeeps ==
    ASSUME PackagesInv, NEW i \in Session, CommitOther(i)
    PROVE  PackagesInv'
  <1>1. PICK q : q = request[i]
    OBVIOUS
  <1>2. /\ q.op = "preview" \/ (q.op = "apply" /\ q.by = Config)
        /\ Ready(i) /\ SaveWrites(i)
        /\ UNCHANGED <<packages, requests, edits, failed, overlapped>>
    BY <1>1 DEF CommitOther
  <1>3. packages' \in [Package -> Version \union {0}] /\ failed' \in [Package -> SUBSET Resource]
    BY <1>2 DEF PackagesInv, PackagesTyped
  <1>4. /\ PackagesTyped' /\ AllSound' /\ WrittenOnce' /\ OneAlone' /\ EditsSound'
        /\ RowsSound'
    BY <1>1, <1>2, <1>3, SaveWritesKeeps
  <1>5. ASSUME NEW r \in Resource PROVE AsRecorded(r)'
    <2>1. SUFFICES ASSUME r \notin taken', rowOf'[r] # Missing,
                          NEW p \in Package \ overlapped, p = rowOf'[r].owner
                   PROVE  /\ packages[p] # 0
                          /\ Shipped(p, packages[p], r) /\ r \notin failed[p] =>
                                 rowOf'[r].sum = Hash[r][p][packages[p]]
      BY <1>2 DEF AsRecorded, Marked
    <2>2. p # q.by \/ q.op = "preview"
      BY <1>2, PackagesAssumption
    <2>3. Marked(r) /\ rowOf[r].owner = p /\ rowOf'[r].sum = rowOf[r].sum
      BY <1>1, <1>2, <2>1, <2>2, CommittedRow
    <2>4. AsRecorded(r)
      BY RecordedRows DEF PackagesInv
    <2>5. QED
      BY <2>1, <2>3, <2>4 DEF AsRecorded
  <1>6. QED
    BY <1>4, <1>5, RecordedRowsNext DEF PackagesInv

\* No marked row of the package is left.
LEMMA CommitUninstallKeeps ==
    ASSUME PackagesInv, NEW i \in Session, CommitUninstall(i)
    PROVE  PackagesInv'
  <1>1. PICK q : q = request[i]
    OBVIOUS
  <1>2. /\ q.op = "remove" /\ Ready(i) /\ SaveWrites(i)
        /\ packages' = [packages EXCEPT ![q.by] = 0]
        /\ UNCHANGED <<requests, edits, failed, overlapped>>
    BY <1>1 DEF CommitUninstall
  <1>3. /\ packages' \in [Package -> Version \union {0}]
        /\ failed' \in [Package -> SUBSET Resource]
        /\ \A p \in Package : p # q.by => packages'[p] = packages[p]
    BY <1>2 DEF PackagesInv, PackagesTyped
  <1>4. /\ PackagesTyped' /\ AllSound' /\ WrittenOnce' /\ OneAlone' /\ EditsSound'
        /\ RowsSound'
    BY <1>1, <1>2, <1>3, SaveWritesKeeps
  <1>5. ASSUME NEW r \in Resource PROVE AsRecorded(r)'
    <2>1. SUFFICES ASSUME r \notin taken', rowOf'[r] # Missing,
                          NEW p \in Package \ overlapped, p = rowOf'[r].owner
                   PROVE  /\ packages'[p] # 0
                          /\ Shipped(p, packages'[p], r) /\ r \notin failed[p] =>
                                 rowOf'[r].sum = Hash[r][p][packages'[p]]
      BY <1>2 DEF AsRecorded, Marked
    <2>2. p # q.by
      BY <1>1, <1>2, <2>1, CommittedRow
    <2>3. Marked(r) /\ rowOf[r].owner = p /\ rowOf'[r].sum = rowOf[r].sum
      BY <1>1, <1>2, <2>1, <2>2, CommittedRow
    <2>4. AsRecorded(r)
      BY RecordedRows DEF PackagesInv
    <2>5. QED
      BY <1>3, <2>1, <2>2, <2>3, <2>4 DEF AsRecorded
  <1>6. QED
    BY <1>4, <1>5, RecordedRowsNext DEF PackagesInv

\* A user's step on a row that nobody has written.
LEMMA UserKeeps ==
    ASSUME PackagesInv, NEW r \in Resource, ~Locked(r),
           rowOf' \in [Resource -> ResourceRow \union {Missing}],
           \A x \in Resource \ {r} : rowOf'[x] = rowOf[x] /\ (x \in taken' <=> x \in taken),
           taken' \subseteq Resource, imported' \subseteq Connector,
           \A x \in Resource \ {r} : x \in imported' <=> x \in imported,
           Marked(r)' => /\ Marked(r) /\ rowOf'[r].owner = rowOf[r].owner
                         /\ rowOf'[r].sum = rowOf[r].sum,
           RowSound(r)',
           NEW gone \in SUBSET {r}, r \in gone <=> rowOf[r] # Missing /\ rowOf'[r] = Missing,
           request' = Losing(request, gone),
           editing' \in [Resource -> ResourceRow \union {Missing}],
           \A x \in Resource : editing'[x] # Missing => x \notin gone /\ editing'[x] = editing[x],
           requests' \in Nat, edits' \in Nat, UNCHANGED <<packages, failed, overlapped>>
    PROVE  PackagesInv'
  <1> DEFINE lost == Statement("lost", Missing, Missing, {})
  <1>1. /\ \A j \in Session :
              request'[j] = IF /\ request[j].pending.kind = "update"
                               /\ request[j].pending.on \in gone
                            THEN [request[j] EXCEPT !.pending = lost] ELSE request[j]
        /\ request' = [j \in Session |-> request'[j]]
    BY DEF Losing
  <1>2. lost \in Statements /\ lost.kind = "lost"
    BY DEF Statement, Statements
  <1>3. \A j \in Session :
            /\ request'[j] \in SessionRecord /\ request'[j].op = request[j].op
            /\ request'[j].by = request[j].by /\ request'[j].version = request[j].version
            /\ request'[j].known = request[j].known /\ request'[j].todo = request[j].todo
            /\ request'[j].writes = request[j].writes /\ request'[j].failed = request[j].failed
            /\ \/ request'[j].pending = request[j].pending
               \/ /\ request'[j].pending.kind = "lost" /\ request[j].pending.kind = "update"
                  /\ request[j].pending.on \in gone
            /\ request'[j].pending.kind = "update" => request'[j].pending.on \notin gone
    <2>1. TAKE j \in Session
    <2>2. request[j] \in SessionRecord
      BY SessionFacts
    <2>3. QED
      BY <1>1, <1>2, <2>2 DEF SessionRecord
  <1>4. PackagesTyped'
    BY <1>1, <1>3 DEF PackagesInv, PackagesTyped
  <1>5. \A x \in Resource : x # r => (Marked(x)' <=> Marked(x))
    BY DEF Marked
  <1>6. AllSound'
    <2>1. ASSUME NEW j \in Session, NEW p \in {request'[j]} PROVE Sound(p)'
      <3>1. PICK q : q = request[j]
        OBVIOUS
      <3>2. Sound(q) /\ p \in SessionRecord
        BY <1>3, <2>1, <3>1, SessionFacts
      <3>3. /\ p.op = q.op /\ p.by = q.by /\ p.version = q.version /\ p.known = q.known
            /\ p.todo = q.todo /\ p.writes = q.writes /\ p.failed = q.failed
        BY <1>3, <2>1, <3>1
      <3>4. /\ \/ p.pending = q.pending
               \/ /\ p.pending.kind = "lost" /\ q.pending.kind = "update"
                  /\ rowOf'[q.pending.on] = Missing
            /\ p.pending.kind = "update" => p.pending.on \notin gone
        BY <1>3, <2>1, <3>1
      <3>5. p.pending.kind = "update" => rowOf'[p.pending.on] # Missing
        <4>1. SUFFICES ASSUME p.pending.kind = "update" PROVE rowOf'[p.pending.on] # Missing
          OBVIOUS
        <4>2. p.pending = q.pending /\ p.pending.on \in Resource /\ rowOf[p.pending.on] # Missing
          BY <3>2, <3>4, <4>1 DEF Sound, PendingSound
        <4>3. QED
          BY <3>4, <4>1, <4>2
      <3>6. ASSUME NEW x \in Resource
            PROVE  /\ q.writes[x] # NoStatement =>
                         rowOf'[x] = rowOf[x] /\ (x \in taken' <=> x \in taken)
                   /\ Marked(x)' =>
                         \/ rowOf[x] = Missing /\ (Alone(q) => rowOf'[x].owner # q.by)
                         \/ /\ Marked(x) /\ rowOf'[x].owner = rowOf[x].owner
                            /\ Alone(q) /\ rowOf[x].owner = q.by =>
                                  rowOf'[x].sum = rowOf[x].sum
        <4>1. q.writes[x] # NoStatement => x # r
          BY <3>1 DEF Locked, Writes
        <4>2. QED
          BY <1>5, <4>1
      <3>7. overlapped' = overlapped /\ packages' = packages
        OBVIOUS
      <3>8. QED
        BY <3>2, <3>3, <3>4, <3>5, <3>6, <3>7, ShiftKeeps
    <2>2. QED
      BY <2>1 DEF AllSound
  <1>7. WrittenOnce' /\ OneAlone'
    BY <1>3 DEF PackagesInv, WrittenOnce, Writes, OneAlone
  <1>8. EditsSound'
    <2>1. ASSUME NEW x \in Resource, editing'[x] # Missing
          PROVE  rowOf'[x] # Missing /\ (Marked(x)' => editing'[x].owner = rowOf'[x].owner)
      <3>1. x \notin gone /\ editing'[x] = editing[x]
        BY <2>1
      <3>2. rowOf[x] # Missing /\ (Marked(x) => editing[x].owner = rowOf[x].owner)
        BY <2>1, <3>1 DEF PackagesInv, EditsSound
      <3>3. QED
        BY <1>5, <3>1, <3>2
    <2>2. QED
      BY <2>1 DEF EditsSound
  <1>9. RowsSound'
    <2>1. \A x \in Resource \ {r} : RowSound(x) => RowSound(x)'
      BY <1>5 DEF RowSound
    <2>2. QED
      BY <2>1 DEF PackagesInv, RowsSound
  <1>10. ASSUME NEW x \in Resource PROVE AsRecorded(x)'
    <2>1. AsRecorded(x)
      BY RecordedRows DEF PackagesInv
    <2>2. Marked(x)' => /\ Marked(x) /\ rowOf'[x].owner = rowOf[x].owner
                        /\ rowOf'[x].sum = rowOf[x].sum
      BY <1>5
    <2>3. QED
      BY <2>1, <2>2 DEF AsRecorded
  <1>11. QED
    BY <1>4, <1>6, <1>7, <1>8, <1>9, <1>10, RecordedRowsNext DEF PackagesInv

\* No row is gone: no statement is lost.
LEMMA NothingLost == PackagesTyped => request = Losing(request, {})
  BY DEF PackagesTyped, Losing

\* A user's row has no mark.
LEMMA UserCreateKeeps ==
    ASSUME PackagesInv, NEW r \in Resource, UserCreate(r)
    PROVE  PackagesInv'
  <1>1. PICK new : new = [content |-> UserText, owner |-> Nobody, sum |-> NoSum, active |-> TRUE]
    OBVIOUS
  <1>2. /\ ApiStep /\ rowOf[r] = Missing /\ ~Locked(r) /\ rowOf' = [rowOf EXCEPT ![r] = new]
        /\ UNCHANGED <<request, editing, taken, imported>>
    BY <1>1 DEF UserCreate
  <1>3. new \in ResourceRow /\ new.owner = Nobody /\ Nobody \notin Package
    BY <1>1, PackagesAssumption DEF ResourceRow, UserText, NoSum, Manager
  <1>4. rowOf' \in [Resource -> ResourceRow \union {Missing}] /\ rowOf'[r] = new
        /\ \A x \in Resource \ {r} : rowOf'[x] = rowOf[x]
    BY <1>2, <1>3 DEF PackagesInv, PackagesTyped
  <1>5. ~Marked(r)' /\ RowSound(r)'
    BY <1>3, <1>4 DEF Marked, RowSound
  <1>6. /\ requests' \in Nat /\ edits' \in Nat /\ UNCHANGED <<packages, failed, overlapped>>
        /\ taken' \subseteq Resource /\ imported' \subseteq Connector
        /\ editing' \in [Resource -> ResourceRow \union {Missing}]
    BY <1>2 DEF ApiStep, PackagesInv, PackagesTyped
  <1>7. request' = Losing(request, {})
    BY <1>2, NothingLost DEF PackagesInv
  <1>8. PICK gone \in SUBSET {r} : gone = {}
    OBVIOUS
  <1>9. QED
    BY <1>2, <1>4, <1>5, <1>6, <1>7, <1>8, UserKeeps

\* An edit of a marked row takes the mark off, whatever was committed since it was read.
LEMMA SaveEditKeeps ==
    ASSUME PackagesInv, NEW r \in Resource, SaveEdit(r)
    PROVE  PackagesInv'
  <1>1. PICK e : e = editing[r]
    OBVIOUS
  <1>2. PICK active \in BOOLEAN :
            rowOf' = [rowOf EXCEPT ![r] = Merged(@,
                Changed(e, [Detached(e) EXCEPT !.content = UserText, !.active = active]),
                [Detached(e) EXCEPT !.content = UserText, !.active = active])]
    BY <1>1 DEF SaveEdit
  <1>3. PICK new : new = [Detached(e) EXCEPT !.content = UserText, !.active = active]
    OBVIOUS
  <1>4. /\ e # Missing /\ ~Locked(r)
        /\ editing' = [editing EXCEPT ![r] = Missing]
        /\ UNCHANGED <<packages, request, requests, edits, failed, taken, imported, overlapped>>
    BY <1>1 DEF SaveEdit
  <1>5. /\ e \in ResourceRow /\ rowOf[r] \in ResourceRow /\ rowOf[r] # Missing
        /\ Marked(r) => e.owner = rowOf[r].owner
    BY <1>1, <1>4 DEF PackagesInv, PackagesTyped, EditsSound
  <1>6. /\ Detached(e) \in ResourceRow
        /\ e.owner \in Package => Detached(e).owner = Nobody
        /\ e.owner \notin Package => Detached(e) = e
    BY <1>5 DEF Detached, ResourceRow, NoSum
  <1>7. new \in ResourceRow /\ new.owner = Detached(e).owner
    BY <1>3, <1>6 DEF ResourceRow, UserText
  <1>8. PICK saved : saved = Merged(rowOf[r], Changed(e, new), new)
    OBVIOUS
  <1>9. /\ saved \in ResourceRow
        /\ saved.owner = IF new.owner # e.owner THEN new.owner ELSE rowOf[r].owner
    BY <1>5, <1>7, <1>8, ChangedColumns, MergedRow
  <1>10. /\ rowOf' \in [Resource -> ResourceRow \union {Missing}] /\ rowOf'[r] = saved
         /\ \A x \in Resource \ {r} : rowOf'[x] = rowOf[x]
    BY <1>2, <1>3, <1>8, <1>9 DEF PackagesInv, PackagesTyped
  <1>11. rowOf'[r] # Missing
    BY <1>9, <1>10, PackagesAssumption
  <1>12. ~Marked(r)'
    <2>1. SUFFICES ASSUME r \notin taken, saved.owner \in Package PROVE FALSE
      BY <1>4, <1>10 DEF Marked
    <2>2. Nobody \notin Package
      BY PackagesAssumption DEF Manager
    <2>3. saved.owner = rowOf[r].owner /\ new.owner = e.owner
      BY <1>6, <1>7, <1>9, <2>1, <2>2
    <2>4. Marked(r)
      BY <1>5, <2>1, <2>3 DEF Marked
    <2>5. QED
      BY <1>5, <1>6, <1>7, <2>1, <2>2, <2>3, <2>4
  <1>13. /\ requests' \in Nat /\ edits' \in Nat /\ taken' \subseteq Resource
         /\ imported' \subseteq Connector /\ RowSound(r)'
         /\ editing' \in [Resource -> ResourceRow \union {Missing}]
         /\ \A x \in Resource : editing'[x] # Missing => editing'[x] = editing[x]
    BY <1>4, <1>12 DEF PackagesInv, PackagesTyped, RowSound
  <1>14. request' = Losing(request, {})
    BY <1>4, NothingLost DEF PackagesInv
  <1>15. PICK gone \in SUBSET {r} : gone = {}
    OBVIOUS
  <1>16. QED
    BY <1>4, <1>10, <1>11, <1>12, <1>13, <1>14, <1>15, UserKeeps

\* An import leaves mark and checksum; the row is among the imported.
LEMMA SaveImportKeeps ==
    ASSUME PackagesInv, NEW r \in Resource, SaveImport(r)
    PROVE  PackagesInv'
  <1>1. PICK saved : saved = [rowOf[r] EXCEPT !.content = UserText]
    OBVIOUS
  <1>2. /\ r \in Connector /\ editing[r] # Missing /\ ~Locked(r)
        /\ rowOf' = [rowOf EXCEPT ![r] = saved]
        /\ editing' = [editing EXCEPT ![r] = Missing]
        /\ imported' = IF rowOf[r].owner \in Package THEN imported \union {r} ELSE imported
        /\ UNCHANGED <<packages, request, requests, edits, failed, taken, overlapped>>
    BY <1>1 DEF SaveImport
  <1>3. rowOf[r] \in ResourceRow /\ rowOf[r] # Missing
    BY <1>2 DEF PackagesInv, PackagesTyped, EditsSound
  <1>4. /\ saved \in ResourceRow /\ saved.content = UserText /\ saved.owner = rowOf[r].owner
        /\ saved.sum = rowOf[r].sum /\ saved.active = rowOf[r].active
    BY <1>1, <1>3 DEF ResourceRow, UserText
  <1>5. /\ rowOf' \in [Resource -> ResourceRow \union {Missing}] /\ rowOf'[r] = saved
        /\ \A x \in Resource \ {r} : rowOf'[x] = rowOf[x]
        /\ imported' \subseteq Connector /\ taken' \subseteq Resource
        /\ requests' \in Nat /\ edits' \in Nat
        /\ editing' \in [Resource -> ResourceRow \union {Missing}]
        /\ \A x \in Resource : editing'[x] # Missing => editing'[x] = editing[x]
    BY <1>2, <1>4 DEF PackagesInv, PackagesTyped
  <1>6. rowOf'[r] # Missing
    BY <1>4, <1>5, PackagesAssumption
  <1>7. Marked(r)' => Marked(r) /\ r \in imported'
    BY <1>2, <1>3, <1>4, <1>5 DEF Marked
  <1>8. RowSound(r)'
    BY <1>4, <1>5, <1>7 DEF PackagesInv, RowsSound, RowSound
  <1>9. \A x \in Resource \ {r} : x \in imported' <=> x \in imported
    BY <1>2
  <1>10. request' = Losing(request, {})
    BY <1>2, NothingLost DEF PackagesInv
  <1>11. PICK gone \in SUBSET {r} : gone = {}
    OBVIOUS
  <1>12. QED
    BY <1>2, <1>3, <1>4, <1>5, <1>6, <1>7, <1>8, <1>9, <1>10, <1>11, UserKeeps

\* A deleted agent keeps its row, contents and mark; another row is gone.
LEMMA UserDeleteKeeps ==
    ASSUME PackagesInv, NEW r \in Resource, UserDelete(r)
    PROVE  PackagesInv'
  <1>1. ApiStep /\ rowOf[r] # Missing /\ ~Locked(r) /\ rowOf[r] \in ResourceRow
    BY DEF UserDelete, PackagesInv, PackagesTyped
  <1>2. requests' \in Nat /\ edits' \in Nat /\ UNCHANGED <<packages, failed, overlapped>>
    BY <1>1 DEF ApiStep, PackagesInv, PackagesTyped
  <1>3. CASE r \in Agent
    <2>1. PICK saved : saved = [rowOf[r] EXCEPT !.active = FALSE]
      OBVIOUS
    <2>2. /\ saved \in ResourceRow /\ saved.owner = rowOf[r].owner
          /\ saved.content = rowOf[r].content /\ saved.sum = rowOf[r].sum
      BY <1>1, <2>1 DEF ResourceRow
    <2>3. rowOf' = [rowOf EXCEPT ![r] = saved] /\ UNCHANGED <<request, editing, taken, imported>>
      BY <1>3, <2>1 DEF UserDelete
    <2>4. /\ rowOf' \in [Resource -> ResourceRow \union {Missing}] /\ rowOf'[r] = saved
          /\ \A x \in Resource \ {r} : rowOf'[x] = rowOf[x]
          /\ taken' \subseteq Resource /\ imported' \subseteq Connector
          /\ editing' \in [Resource -> ResourceRow \union {Missing}]
      BY <2>2, <2>3 DEF PackagesInv, PackagesTyped
    <2>5. rowOf'[r] # Missing /\ (Marked(r)' => Marked(r))
      BY <1>1, <2>2, <2>3, <2>4, PackagesAssumption DEF Marked
    <2>6. request' = Losing(request, {})
      BY <2>3, NothingLost DEF PackagesInv
    <2>7. PICK gone \in SUBSET {r} : gone = {}
      OBVIOUS
    <2>8. RowSound(r) /\ r \notin Connector
      BY <1>3, PackagesAssumption DEF PackagesInv, RowsSound
    <2>9. RowSound(r)'
      BY <2>2, <2>3, <2>4, <2>5, <2>8 DEF RowSound
    <2>10. QED
      BY <1>1, <1>2, <2>2, <2>3, <2>4, <2>5, <2>6, <2>7, <2>9, UserKeeps
  <1>4. CASE r \notin Agent
    <2>1. PICK gone \in SUBSET {r} : gone = {r}
      OBVIOUS
    <2>2. /\ rowOf' = [rowOf EXCEPT ![r] = Missing] /\ request' = Losing(request, gone)
          /\ editing' = LosingEdits(gone) /\ taken' = taken \ {r} /\ imported' = imported \ {r}
      BY <1>4, <2>1 DEF UserDelete
    <2>3. /\ rowOf' \in [Resource -> ResourceRow \union {Missing}] /\ rowOf'[r] = Missing
          /\ \A x \in Resource \ {r} : rowOf'[x] = rowOf[x] /\ (x \in taken' <=> x \in taken)
          /\ taken' \subseteq Resource /\ imported' \subseteq Connector
          /\ \A x \in Resource \ {r} : x \in imported' <=> x \in imported
      BY <2>2 DEF PackagesInv, PackagesTyped
    <2>4. /\ editing' \in [Resource -> ResourceRow \union {Missing}]
          /\ \A x \in Resource :
                editing'[x] # Missing => x \notin gone /\ editing'[x] = editing[x]
      BY <2>2 DEF LosingEdits, PackagesInv, PackagesTyped
    <2>5. ~Marked(r)' /\ RowSound(r)'
      BY <2>3 DEF Marked, RowSound
    <2>6. QED
      BY <1>1, <1>2, <2>1, <2>2, <2>3, <2>4, <2>5, UserKeeps
  <1>5. QED
    BY <1>3, <1>4

\* What marked rows, requests and records agree on: an invariant of every instance.
THEOREM PackagesInductive == PackagesSpec => []PackagesInv
  <1>1. PackagesInit => PackagesInv
    <2>1. SUFFICES ASSUME PackagesInit PROVE PackagesInv
      OBVIOUS
    <2>2. PackagesTyped
      BY <2>1, NoneTyped DEF PackagesInit, PackagesTyped
    <2>3. AllSound
      BY <2>1, NoneSound DEF PackagesInit, AllSound
    <2>4. WrittenOnce /\ OneAlone /\ EditsSound
      BY <2>1, NoneTyped DEF PackagesInit, WrittenOnce, Writes, OneAlone, EditsSound
    <2>5. RowsSound /\ MarkedAsRecorded
      BY <2>1 DEF PackagesInit, RowsSound, RowSound, Marked, MarkedAsRecorded
    <2>6. QED
      BY <2>2, <2>3, <2>4, <2>5 DEF PackagesInv
  <1>2. PackagesInv /\ [PackagesNext]_packagesVars => PackagesInv'
    <2>1. SUFFICES ASSUME PackagesInv, [PackagesNext]_packagesVars PROVE PackagesInv'
      OBVIOUS
    <2>2. ASSUME NEW i \in Session, Start(i) PROVE PackagesInv'
      BY <2>1, <2>2, ApplyKeeps, UninstallKeeps DEF Start
    <2>3. ASSUME NEW i \in Session, Work(i) PROVE PackagesInv'
      <3>1. ASSUME NEW r \in Resource, Skip(i, r) \/ Create(i, r) \/ Change(i, r) \/ Fail(i, r)
            PROVE  PackagesInv'
        BY <2>1, <3>1, SkipKeeps, CreateKeeps, ChangeKeeps, FailKeeps
      <3>2. CASE Flush(i) \/ DeleteOne(i) \/ Abort(i)
        BY <2>1, <3>2, FlushKeeps, DeleteOneKeeps, AbortKeeps
      <3>3. CASE CommitInstall(i) \/ CommitOther(i) \/ CommitUninstall(i)
        BY <2>1, <3>3, CommitInstallKeeps, CommitOtherKeeps, CommitUninstallKeeps
      <3>4. QED
        BY <2>3, <3>1, <3>2, <3>3 DEF Work
    <2>4. CASE UserWork
      BY <2>1, <2>4, UserCreateKeeps, ReadForEditKeeps, SaveEditKeeps,
         SaveImportKeeps, UserDeleteKeeps DEF UserWork
    <2>5. CASE UNCHANGED packagesVars
      <3>1. UNCHANGED <<rowOf, packages, request, editing, requests, edits, failed, taken, imported,
                        overlapped>>
        BY <2>5 DEF packagesVars
      <3>2. AllSound'
        <4>1. ASSUME NEW j \in Session, NEW p \in {request'[j]} PROVE Sound(p)'
          <5>1. Sound(p)
            BY <2>1, <3>1, <4>1 DEF PackagesInv, AllSound
          <5>2. QED
            BY <3>1, <5>1, SoundStays
        <4>2. QED
          BY <4>1 DEF AllSound
      <3>3. PackagesTyped' /\ WrittenOnce' /\ OneAlone' /\ EditsSound'
        BY <2>1, <3>1 DEF PackagesInv, PackagesTyped, WrittenOnce, Writes, OneAlone, EditsSound,
           Marked
      <3>4. RowsSound' /\ MarkedAsRecorded'
        <4>1. \A r \in Resource : RowSound(r) => RowSound(r)'
          BY <3>1 DEF RowSound, Marked
        <4>2. QED
          BY <2>1, <3>1, <4>1 DEF PackagesInv, RowsSound, MarkedAsRecorded
      <3>5. QED
        BY <3>2, <3>3, <3>4 DEF PackagesInv
    <2>6. QED
      BY <2>1, <2>2, <2>3, <2>4, <2>5 DEF PackagesNext
  <1>3. QED
    BY <1>1, <1>2, PTL DEF PackagesSpec

\* ManagedAsShipped for any number of managers, versions, resources and
\* requests: a row with a package's mark that nobody took over or imported into
\* holds what that package shipped, in a version with the row's checksum.
THEOREM MarkedRowsAsShipped == PackagesSpec => []ManagedAsShipped
  <1>1. PackagesInv => ManagedAsShipped
    <2>1. SUFFICES ASSUME PackagesInv, NEW r \in Resource \ (taken \union imported), rowOf[r] # Missing,
                          rowOf[r].owner \in Package \ overlapped
                   PROVE  \E v \in Version : /\ rowOf[r].content = Text(rowOf[r].owner, v)
                                             /\ rowOf[r].sum = Hash[r][rowOf[r].owner][v]
      BY DEF ManagedAsShipped
    <2>2. Marked(r) /\ RowSound(r)
      BY <2>1 DEF PackagesInv, RowsSound, Marked
    <2>3. QED
      BY <2>1, <2>2 DEF RowSound
  <1>2. QED
    BY <1>1, PackagesInductive, PTL

\* MarkedAsRecorded likewise: unless requests about the package overlapped, its
\* marked rows are those of an installed package, with the checksums of the
\* recorded version.
THEOREM MarkedRowsAsRecorded == PackagesSpec => []MarkedAsRecorded
  <1>1. PackagesInv => MarkedAsRecorded
    BY DEF PackagesInv
  <1>2. QED
    BY <1>1, PackagesInductive, PTL
=============================================================================
