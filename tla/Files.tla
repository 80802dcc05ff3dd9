------------------------------- MODULE Files -------------------------------
(***************************************************************************)
(* The files of one collection that go by one name: uploads through the    *)
(* API, agents' tools that write, edit and delete, deletions through the   *)
(* API, and readers.  A file is a row in PostgreSQL with a record for each *)
(* version, and the contents are in a storage that takes part in no        *)
(* transaction.  Each request is one transaction; its steps are what       *)
(* other requests can come in between.  A request that creates a file      *)
(* gives it its own name here, and the content it brings is known by it.   *)
(***************************************************************************)
EXTENDS Integers, FiniteSets, Sequences

CONSTANTS
    Upload, Tool, Delete, Reader, \* the requests
    Private,      \* the uploads that ask for a private file
    Updating,     \* the uploads with update_existing
    Edit,         \* the tool calls that edit
    DeleteTool,   \* the deletions by an agent's tool
    Signed,       \* the readers with a signed URL
    AllFiles,     \* the requests whose user may touch everybody's files
    UserOf,       \* the user of a request
    HasFilter,    \* the collection has a content filter
    MaxTotal,     \* its quota, every version counting one
    NoFile,
    MaxFaults

Request == Upload \cup Tool \cup Delete \cup Reader
Writer == Upload \cup Tool

Row == [owner : {UserOf[r] : r \in Writer}, shared : BOOLEAN, named : BOOLEAN, current : Nat]

ASSUME FilesAssumption ==
    /\ Upload \cap Tool = {} /\ Writer \cap Delete = {} /\ Reader \cap (Writer \cup Delete) = {}
    /\ NoFile \notin Row
    /\ Private \subseteq Upload /\ Updating \subseteq Upload
    /\ Edit \subseteq Tool /\ DeleteTool \subseteq Delete
    /\ Signed \subseteq Reader /\ AllFiles \subseteq Delete \cup Reader
    /\ NoFile \notin Request
    /\ MaxTotal \in Nat /\ MaxFaults \in Nat

VARIABLES
    rows,      \* files: the committed row of each file a request created
    recorded,  \* file_versions: <<file, number, whose content>>
    stored,    \* the storage, path by path: <<file, number, whose content>>
    pc, target, number, \* a request, the file and the version it is about
    unique,    \* requests that took a unique name
    locks,     \* the rows a request's transaction has locked
    todo,      \* what a deletion is yet to remove from the storage
    seen,      \* the content a reader was told of, and what it got
    faults,
    \* History.
    raced,     \* files a tool took for older than they were, or a commit failed for
    listed,    \* <<file, number>> that a deletion has listed
    unremoved  \* those of them that a deletion could not remove

vars == <<rows, recorded, stored, pc, target, number, unique, locks, todo, seen,
          faults, raced, listed, unremoved>>
files == <<rows, recorded, stored>>
history == <<raced, listed, unremoved>>

Path(r) == <<target[r], number[r]>>
Entry(r) == <<target[r], number[r], r>>
PathOf(t) == <<t[1], t[2]>>

Init ==
    /\ rows = [r \in Writer |-> NoFile] /\ recorded = {} /\ stored = {}
    /\ pc = [r \in Request |-> "new"]
    /\ target = [r \in Request |-> NoFile] /\ number = [r \in Request |-> 0]
    /\ unique = {} /\ locks = [r \in Request |-> {}] /\ todo = [r \in Request |-> {}]
    /\ seen = [r \in Request |-> {}]
    /\ faults = 0 /\ raced = {} /\ listed = {} /\ unremoved = {}

-----------------------------------------------------------------------------
(* Who sees which file, and who waits for whom.                            *)

Named == {f \in Writer : rows[f] # NoFile /\ rows[f].named}

Visible(r) ==
    {f \in Named : r \in AllFiles \/ rows[f].owner = UserOf[r] \/ rows[f].shared}

\* The user's own file comes first.
Preferred(r) ==
    LET own == {f \in Visible(r) : rows[f].owner = UserOf[r]}
    IN IF own # {} THEN own ELSE Visible(r)

\* What an upload compares its name with.
Existing(r) == IF r \in Private THEN Visible(r) ELSE {f \in Named : rows[f].shared}

Free(r, F) == \A q \in Request \ {r} : locks[q] \cap F = {}

\* The row a request creates, and the unique indexes on names.
NewRow(r) ==
    [owner |-> UserOf[r], shared |-> r \notin Private, named |-> r \notin unique,
     current |-> number[r]]

SameKey(a, b) ==
    /\ a.named /\ b.named /\ a.shared = b.shared
    /\ a.shared \/ a.owner = b.owner

Inserting(r) ==
    {q \in Writer \ {r} : /\ pc[q] \in {"flushed", "saved"} /\ target[q] = q
                          /\ SameKey(NewRow(q), NewRow(r))}

NameTaken(r) == \E f \in Writer : rows[f] # NoFile /\ SameKey(rows[f], NewRow(r))

Goto(r, place) == pc' = [pc EXCEPT ![r] = place]
About(r, f, n) == target' = [target EXCEPT ![r] = f] /\ number' = [number EXCEPT ![r] = n]
Unlock(r) == locks' = [locks EXCEPT ![r] = {}]
Fault == faults < MaxFaults /\ faults' = faults + 1

-----------------------------------------------------------------------------
(* Uploads.                                                                *)

\* The quota is read before the filter runs and before anything is locked.
Check(r) ==
    /\ r \in Upload /\ pc[r] = "new"
    /\ Goto(r, IF Cardinality(recorded) + 1 > MaxTotal THEN "over"
               ELSE IF HasFilter THEN "filtering" ELSE "checked")
    /\ UNCHANGED <<files, target, number, unique, locks, todo, seen, faults, history>>

\* The filter function approves, or it rejects or fails.
Filtered(r) ==
    /\ pc[r] = "filtering"
    /\ \E place \in {"checked", "over"} : Goto(r, place)
    /\ UNCHANGED <<files, target, number, unique, locks, todo, seen, faults, history>>

\* Wrong: the upload finds its file without FOR UPDATE.
FindUnlocked(r) ==
    /\ pc[r] = "checked" /\ locks' = locks
    /\ IF Existing(r) # {} /\ r \in Updating
       THEN \E f \in Existing(r) : About(r, f, rows[f].current + 1) /\ Goto(r, "updating")
       ELSE About(r, r, 1) /\ Goto(r, "inserting")
    /\ unique' = IF Existing(r) # {} /\ r \notin Updating THEN unique \cup {r} ELSE unique
    /\ UNCHANGED <<files, todo, seen, faults, history>>

\* SELECT ... FOR UPDATE waits for every row it returns.
FindForUpdate(r) ==
    /\ pc[r] = "checked" /\ Free(r, Existing(r))
    /\ locks' = [locks EXCEPT ![r] = Existing(r)]
    /\ IF Existing(r) # {} /\ r \in Updating
       THEN \E f \in Existing(r) : About(r, f, rows[f].current + 1) /\ Goto(r, "flushed")
       ELSE About(r, r, 1) /\ Goto(r, "inserting")
    /\ unique' = IF Existing(r) # {} /\ r \notin Updating THEN unique \cup {r} ELSE unique
    /\ UNCHANGED <<files, todo, seen, faults, history>>

\* The row of a new file waits for others with its name; if one of them is
\* committed an upload takes a unique name, which may fail, and a tool fails.
Insert(r) ==
    /\ pc[r] = "inserting" /\ Inserting(r) = {}
    /\ IF ~NameTaken(r) THEN Goto(r, "flushed") /\ UNCHANGED <<unique, locks>>
       ELSE /\ \/ r \in Upload /\ unique' = unique \cup {r} /\ pc' = pc
               \/ unique' = unique /\ Goto(r, "over")
            /\ Unlock(r)
    /\ UNCHANGED <<files, target, number, todo, seen, faults, history>>

-----------------------------------------------------------------------------
(* Tools.                                                                  *)

\* An edit reads the file by its name, whoever owns it: more than one is an
\* error, and so are another's private file and a content that is missing.
\* (What the text must contain is left out: without it the edit just ends.)
EditRead(r) ==
    /\ r \in Edit /\ pc[r] = "new"
    /\ Goto(r, IF /\ Cardinality(Named) = 1 /\ Named = Visible(r)
                  /\ \E f \in Named, t \in stored : PathOf(t) = <<f, rows[f].current>>
               THEN "edited" ELSE "over")
    /\ UNCHANGED <<files, target, number, unique, locks, todo, seen, faults, history>>

\* A write locks nothing when it reads the row.
FindFile(r) ==
    /\ r \in Tool /\ pc[r] = (IF r \in Edit THEN "edited" ELSE "new")
    /\ IF Preferred(r) = {} THEN About(r, r, 1) /\ Goto(r, "inserting")
       ELSE \E f \in Preferred(r) : About(r, f, rows[f].current + 1) /\ Goto(r, "updating")
    /\ UNCHANGED <<files, unique, locks, todo, seen, faults, history>>

\* The UPDATE waits for the row and sets the number counted from what was
\* read; it raises when the row is gone.
Update(r) ==
    LET f == target[r] IN
    /\ pc[r] = "updating" /\ Free(r, {f})
    /\ IF rows[f] = NoFile THEN Goto(r, "over") /\ UNCHANGED <<locks, raced>>
       ELSE /\ Goto(r, "flushed") /\ locks' = [locks EXCEPT ![r] = {f}]
            /\ raced' = IF r \in Tool /\ rows[f].current + 1 # number[r]
                        THEN raced \cup {f} ELSE raced
    /\ UNCHANGED <<files, target, number, unique, todo, seen, faults, listed, unremoved>>

-----------------------------------------------------------------------------
(* The end of uploads and writes: the storage first, then the database.    *)

Save(r) ==
    /\ pc[r] = "flushed"
    /\ stored' = {t \in stored : PathOf(t) # Path(r)} \cup {Entry(r)}
    /\ Goto(r, "saved")
    /\ UNCHANGED <<rows, recorded, target, number, unique, locks, todo, seen, faults, history>>

SaveFails(r) ==
    /\ pc[r] = "flushed" /\ Fault
    /\ Goto(r, "over") /\ Unlock(r)
    /\ UNCHANGED <<files, target, number, unique, todo, seen, history>>

\* Wrong: nothing keeps a version from being recorded twice.
VersionUnchecked(r) == FALSE

\* uq_file_version.
VersionTaken(r) == \E t \in recorded : PathOf(t) = Path(r)

\* Reading the row again after the commit may fail: that is taken for a
\* failed commit.
Commit(r) ==
    /\ pc[r] = "saved" /\ ~VersionTaken(r)
    /\ rows' = [rows EXCEPT ![target[r]] = IF target[r] = r THEN NewRow(r)
                                           ELSE [@ EXCEPT !.current = number[r]]]
    /\ recorded' = recorded \cup {Entry(r)}
    /\ \/ Goto(r, "over") /\ UNCHANGED <<faults, raced>>
       \/ Goto(r, "cleaning") /\ Fault /\ raced' = raced \cup {target[r]}
    /\ Unlock(r)
    /\ UNCHANGED <<stored, target, number, unique, todo, seen, listed, unremoved>>

\* The insert of the version is refused, or the database fails; the
\* transaction is rolled back before the content is taken away again.
CommitFails(r) ==
    /\ pc[r] = "saved"
    /\ \/ VersionTaken(r) /\ UNCHANGED <<faults, raced>>
       \/ Fault /\ raced' = raced \cup {target[r]}
    /\ Goto(r, "cleaning") /\ Unlock(r)
    /\ UNCHANGED <<files, target, number, unique, todo, seen, listed, unremoved>>

\* Wrong: the content of a failed write is left behind.
CleanNothing(r) ==
    /\ pc[r] = "cleaning" /\ Goto(r, "over")
    /\ UNCHANGED <<files, target, number, unique, locks, todo, seen, faults, history>>

Clean(r) ==
    /\ pc[r] = "cleaning"
    /\ \/ /\ stored' = {t \in stored : PathOf(t) # Path(r)} /\ Goto(r, "over")
          /\ UNCHANGED faults
       \/ Fault /\ stored' = stored /\ Goto(r, "stopped")
    /\ UNCHANGED <<rows, recorded, target, number, unique, locks, todo, seen, history>>

-----------------------------------------------------------------------------
(* Deletions: the storage first here too.                                  *)

\* The file and its versions; an agent's tool takes any of its candidates.
Choose(r) ==
    /\ r \in Delete /\ pc[r] = "new"
    /\ LET found == IF r \in DeleteTool THEN Visible(r) ELSE Preferred(r) IN
       IF found = {}
       THEN Goto(r, "over") /\ UNCHANGED <<target, todo, listed>>
       ELSE \E f \in found :
              /\ target' = [target EXCEPT ![r] = f]
              /\ todo' = [todo EXCEPT ![r] = {t[2] : t \in {v \in recorded : v[1] = f}}]
              /\ listed' = listed \cup {PathOf(t) : t \in {v \in recorded : v[1] = f}}
              /\ Goto(r, "removing")
    /\ UNCHANGED <<files, number, unique, locks, seen, faults, raced, unremoved>>

\* One content after the other; one that cannot be removed stays.
Remove(r) ==
    /\ pc[r] = "removing"
    /\ \E n \in todo[r] :
         /\ todo' = [todo EXCEPT ![r] = @ \ {n}]
         /\ \/ stored' = {t \in stored : PathOf(t) # <<target[r], n>>}
               /\ UNCHANGED <<faults, unremoved>>
            \/ Fault /\ stored' = stored /\ unremoved' = unremoved \cup {<<target[r], n>>}
    /\ UNCHANGED <<rows, recorded, pc, target, number, unique, locks, seen, raced, listed>>

\* The DELETE waits for the row, which may be gone by then.
DeleteRow(r) ==
    LET f == target[r] IN
    /\ pc[r] = "removing" /\ todo[r] = {} /\ Free(r, {f})
    /\ IF rows[f] = NoFile THEN Goto(r, "over") /\ UNCHANGED locks
       ELSE Goto(r, "deleted") /\ locks' = [locks EXCEPT ![r] = {f}]
    /\ UNCHANGED <<files, target, number, unique, todo, seen, faults, history>>

\* The records of all versions go with the row.
DeleteCommits(r) ==
    /\ pc[r] = "deleted"
    /\ \/ /\ rows' = [rows EXCEPT ![target[r]] = NoFile]
          /\ recorded' = {t \in recorded : t[1] # target[r]}
          /\ UNCHANGED faults
       \/ Fault /\ UNCHANGED <<rows, recorded>>
    /\ Goto(r, "over") /\ Unlock(r)
    /\ UNCHANGED <<stored, target, number, unique, todo, seen, history>>

-----------------------------------------------------------------------------
(* Readers, and requests that are stopped.                                 *)

\* The current version or the one asked for; a signed URL names any file.
Look(r) ==
    /\ r \in Reader /\ pc[r] = "new"
    /\ \E t \in recorded :
         /\ t[1] \in Preferred(r) \/ r \in Signed
         /\ About(r, t[1], t[2]) /\ seen' = [seen EXCEPT ![r] = {t[3]}]
    /\ Goto(r, "looked")
    /\ UNCHANGED <<files, unique, locks, todo, faults, history>>

ReadContent(r) ==
    /\ pc[r] = "looked"
    /\ IF \E t \in stored : PathOf(t) = Path(r)
       THEN /\ seen' = [seen EXCEPT ![r] = @ \cup {t[3] : t \in {v \in stored : PathOf(v) = Path(r)}}]
            /\ Goto(r, "served")
       ELSE Goto(r, "missing") /\ UNCHANGED seen
    /\ UNCHANGED <<files, target, number, unique, locks, todo, faults, history>>

\* The process dies, or the request is cancelled: the database rolls back.
Stop(r) ==
    /\ r \notin Reader /\ pc[r] \notin {"new", "over", "stopped"} /\ Fault
    /\ Goto(r, "stopped") /\ Unlock(r)
    /\ UNCHANGED <<files, target, number, unique, todo, seen, history>>

Step(r) ==
    \/ Check(r) \/ Filtered(r) \/ FindForUpdate(r) \/ Insert(r)
    \/ EditRead(r) \/ FindFile(r) \/ Update(r)
    \/ Save(r) \/ SaveFails(r) \/ Commit(r) \/ CommitFails(r) \/ Clean(r)
    \/ Choose(r) \/ Remove(r) \/ DeleteRow(r) \/ DeleteCommits(r)
    \/ Look(r) \/ ReadContent(r) \/ Stop(r)

Next == \E r \in Request : Step(r)

Spec == Init /\ [][Next]_vars

-----------------------------------------------------------------------------
(* Properties.                                                             *)

\* docs-mint/storage/collections.mdx: "Previous versions are preserved."  What
\* a reader gets is what the version it was told of was recorded with, and it
\* is there until a deletion lists it; the exceptions are files a tool wrote
\* to from a number that was no longer the latest, and failed commits: both
\* leave another's content at the path, or none.
ServedAsRecorded ==
    \A r \in Reader :
        /\ pc[r] = "served" => Cardinality(seen[r]) = 1 \/ target[r] \in raced
        /\ pc[r] = "missing" => Path(r) \in listed \/ target[r] \in raced

\* Whoever writes at once, with or without a lock, a file's versions are
\* numbered without a gap up to the current one, and none outlives its file.
CurrentIsLatest ==
    \A f \in Writer :
        /\ {t[2] : t \in {v \in recorded : v[1] = f}} =
              IF rows[f] = NoFile THEN {} ELSE 1 .. rows[f].current
        /\ \A t, u \in recorded : PathOf(t) = PathOf(u) => t = u

\* A content without a record belongs to a request that is under way or was
\* stopped, or was written to a file while a deletion, which had already
\* listed what to remove, took it away, or was one that a deletion could not
\* remove.
ContentAccountedFor ==
    \A t \in stored :
        \/ t \in recorded
        \/ pc[t[3]] \in {"saved", "cleaning", "stopped"}
        \/ \E d \in Delete : target[d] = t[1] /\ t[2] \in todo[d]
        \/ rows[t[1]] = NoFile /\ PathOf(t) \notin listed \ unremoved

=============================================================================
