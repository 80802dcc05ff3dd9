------------------------------ MODULE Packages ------------------------------
(***************************************************************************)
(* Declarative configuration and installable packages                      *)
(* (services/config_apply, services/package_service.py).                   *)
(*                                                                         *)
(* A configuration ("config") or a package ("pkg:<name>") ships resources: *)
(* connectors, functions, agents and so on, each a row of its own table    *)
(* with the columns managed_by, config_checksum and is_active.  Applying   *)
(* it walks over the resources in dependency order in one transaction,     *)
(* creating the rows that are missing and updating those whose checksum    *)
(* differs; uninstalling a package deletes every row it manages.  Users    *)
(* create, edit and delete the same rows through the API.                  *)
(*                                                                         *)
(* Every request has a session of its own: it reads what others committed, *)
(* sends the columns it changed when it next reads (or commits), holds a   *)
(* lock on the rows it wrote, and is rolled back as a whole when one       *)
(* statement fails.                                                        *)
(***************************************************************************)
EXTENDS Naturals, Sequences

CONSTANTS
    Resource,      \* the resources in question
    Connector,     \* those whose update also takes ownership
    Soft,          \* those with an is_active column (all but collections and stores)
    Agent,         \* those deleted by clearing is_active, and that name an LLM provider
    Query,         \* those that name a database connection
    Package,       \* the packages
    Config,        \* the manager of the declarative configuration
    Nobody,        \* no manager
    User,          \* the author of what is written through the API
    Missing,       \* there is no such row
    Version,       \* the versions of what a manager ships
    Ships,         \* Ships[m][v]: what version v of m ships, in the order applied
    Hash,          \* Hash[r][m][v]: the checksum of r in version v of m
    DeleteOrder,   \* the resources in the order an uninstall deletes them
    Session,       \* requests that may be under way at once
    MaxRequests,   \* bound: requests to apply, preview or uninstall
    MaxEdits       \* bound: steps of users through the API

Manager == Package \union {Config}

\* A row: what it holds, who manages it, the checksum, is_active.
ResourceRow == [content : (Manager \union {User}) \X Nat, owner : Manager \union {Nobody},
                sum : Nat, active : BOOLEAN]
Column == {"content", "owner", "sum", "active"}

\* A connector's checksum leaves out its description, the others nothing.
ASSUME PackagesAssumption ==
    /\ Connector \subseteq Soft /\ Agent \subseteq Soft /\ Query \subseteq Soft
    /\ Soft \subseteq Resource /\ Agent \intersect Connector = {}
    /\ Config \notin Package
    /\ {Nobody, User} \intersect Manager = {}
    /\ Version \subseteq Nat \ {0}
    /\ \A m \in Manager, v \in Version : Ships[m][v] \in Seq(Resource)
    /\ \A r \in Resource, m \in Manager, v \in Version : Hash[r][m][v] \in Nat \ {0}
    /\ \A r \in Resource \ Connector, m \in Manager, v, w \in Version :
           Hash[r][m][v] = Hash[r][m][w] => v = w
    /\ DeleteOrder \in Seq(Resource)
    /\ \A r \in Resource : \E k \in DOMAIN DeleteOrder : DeleteOrder[k] = r
    /\ Missing \notin ResourceRow
    /\ MaxRequests \in Nat /\ MaxEdits \in Nat

VARIABLES
    rowOf,         \* the committed rows
    packages,      \* the recorded version of each package, 0 when not installed
    request,       \* the requests under way
    editing,       \* the row a user's edit has read, Missing when there is none
    requests,      \* requests begun
    edits,         \* steps of users
    failed,        \* the resources the last install of each package reported errors for
    taken,         \* history: rows whose manager was changed after their creation
    imported,      \* history: marked rows whose operations a user has imported
    overlapped     \* history: packages of which two requests were under way at once

packagesVars == <<rowOf, packages, request, editing, requests, edits, failed, taken, imported, overlapped>>

NoSum == 0
Text(m, v) == <<m, v>>
UserText == <<User, 0>>

Made(r, m, v) == [content |-> Text(m, v), owner |-> m, sum |-> Hash[r][m][v], active |-> TRUE]

\* The columns an update writes: the session compares with the row it loaded.
Changed(old, new) == {c \in Column : new[c] # old[c]}

\* A row with some columns of another one.
Merged(old, columns, new) == [c \in Column |-> IF c \in columns THEN new[c] ELSE old[c]]

\* A statement about a row: what it inserts or sets, and which columns it sets.
Statement(kind, r, new, columns) == [kind |-> kind, on |-> r, new |-> new, columns |-> columns]
NoStatement == Statement("none", Missing, Missing, {})
Nothing == [r \in Resource |-> NoStatement]

NoRequest == [op |-> "none", by |-> Nobody, version |-> 0, known |-> 0,
              todo |-> << >>, pending |-> NoStatement, writes |-> Nothing, failed |-> {}]

Writes(i, r) == request[i].writes[r] # NoStatement
Locked(r) == \E i \in Session : Writes(i, r)
LockedFor(r, i) == \E j \in Session \ {i} : Writes(j, r)

-----------------------------------------------------------------------------
(* should_skip_existing: an active row of another manager is left alone,   *)
(* and so is an active row with the checksum of what would be written.     *)
Skipped(r, old, m, v) ==
    /\ old.active
    /\ \/ old.owner \notin {Nobody, m}
       \/ old.sum = Hash[r][m][v]

\* It also takes over an inactive row, in a dry run too.
Reclaimed(old, m) == IF old.active THEN old ELSE [old EXCEPT !.owner = m]

Updated(r, old, m, v) ==
    [Reclaimed(old, m) EXCEPT !.content = Text(m, v),
                              !.sum = Hash[r][m][v],
                              !.active = TRUE,
                              !.owner = IF r \in Connector THEN m ELSE @]

UpdateOf(r, old, new) ==
    IF new = old THEN NoStatement
    ELSE Statement("update", r, new, Changed(old, new))

PackagesInit ==
    /\ rowOf = [r \in Resource |-> Missing]
    /\ packages = [p \in Package |-> 0]
    /\ request = [i \in Session |-> NoRequest]
    /\ editing = [r \in Resource |-> Missing]
    /\ requests = 0
    /\ edits = 0
    /\ failed = [p \in Package |-> {}]
    /\ taken = {}
    /\ imported = {}
    /\ overlapped = {}

-----------------------------------------------------------------------------
Begin(i, new) ==
    /\ request[i].op = "none"
    /\ requests < MaxRequests
    /\ requests' = requests + 1
    /\ request' = [request EXCEPT ![i] = new]
    /\ overlapped' =
           IF /\ new.op # "preview"
              /\ \E j \in Session : request[j].op \in {"apply", "remove"} /\ request[j].by = new.by
           THEN overlapped \union {new.by} ELSE overlapped
    /\ UNCHANGED <<rowOf, packages, editing, edits, failed, taken, imported>>

KnownVersion(m) == IF m \in Package THEN packages[m] ELSE 0

Apply(i, op, m, v) ==
    Begin(i, [NoRequest EXCEPT !.op = op, !.by = m, !.version = v,
                               !.known = KnownVersion(m), !.todo = Ships[m][v]])

\* PackageService.uninstall refuses a package that is not installed.
Uninstall(i, p) ==
    /\ packages[p] # 0
    /\ Begin(i, [NoRequest EXCEPT !.op = "remove", !.by = p,
                                  !.known = packages[p], !.todo = DeleteOrder])

Becomes(i, new) ==
    /\ request' = [request EXCEPT ![i] = new]
    /\ UNCHANGED <<rowOf, packages, editing, requests, edits, failed, taken, imported, overlapped>>

Applying(i, r) ==
    /\ request[i].op \in {"apply", "preview"}
    /\ request[i].todo # << >>
    /\ r = Head(request[i].todo)
    /\ request[i].pending = NoStatement

\* The request turns to the next resource, with a statement about this one.
Passed(i, statement) == [request[i] EXCEPT !.todo = Tail(@), !.pending = statement]

Skip(i, r) ==
    /\ Applying(i, r)
    /\ rowOf[r] # Missing /\ Skipped(r, rowOf[r], request[i].by, request[i].version)
    /\ Becomes(i, Passed(i, NoStatement))

Create(i, r) ==
    /\ Applying(i, r)
    /\ rowOf[r] = Missing
    /\ LET made == Made(r, request[i].by, request[i].version)
       IN  Becomes(i, Passed(i, IF request[i].op = "preview" THEN NoStatement
                                ELSE Statement("insert", r, made, Column)))

Change(i, r) ==
    LET m == request[i].by
        v == request[i].version
        new == IF request[i].op = "preview" THEN Reclaimed(rowOf[r], m)
               ELSE Updated(r, rowOf[r], m, v)
    IN  /\ Applying(i, r)
        /\ rowOf[r] # Missing /\ ~Skipped(r, rowOf[r], m, v)
        /\ Becomes(i, Passed(i, UpdateOf(r, rowOf[r], new)))

(* A reference that cannot be resolved: an error of this resource, and the *)
(* next one is applied.  A query looks its connection up before it looks   *)
(* at its row; an agent looks its provider up after its row was reclaimed, *)
(* and never in a dry run.                                                 *)
Fail(i, r) ==
    LET old == rowOf[r]
        m == request[i].by
    IN  /\ Applying(i, r)
        /\ \/ r \in Query
           \/ /\ r \in Agent /\ request[i].op = "apply"
              /\ old # Missing => ~Skipped(r, old, m, request[i].version)
        /\ LET statement == IF r \in Agent /\ old # Missing
                            THEN UpdateOf(r, old, Reclaimed(old, m)) ELSE NoStatement
           IN  Becomes(i, [Passed(i, statement) EXCEPT !.failed = @ \union {r}])

\* The statement is sent before the next read; it waits for the lock, and
\* fails when the row is there already or no longer.
Flush(i) ==
    LET s == request[i].pending
    IN  /\ s.kind \in {"insert", "update"}
        /\ ~LockedFor(s.on, i)
        /\ s.kind = "insert" => rowOf[s.on] = Missing
        /\ Becomes(i, [request[i] EXCEPT !.pending = NoStatement, !.writes[s.on] = s])

Deleting(i, r, found) ==
    [request[i] EXCEPT !.todo = Tail(@),
                       !.writes[r] = IF found THEN Statement("delete", r, Missing, {}) ELSE @]

\* Wrong: the statement about the last table is missing.
DeleteLess(i) ==
    LET r == Head(request[i].todo)
        found == rowOf[r] # Missing /\ rowOf[r].owner = request[i].by /\ Len(request[i].todo) > 1
    IN  /\ request[i].op = "remove" /\ request[i].todo # << >>
        /\ ~LockedFor(r, i)
        /\ Becomes(i, Deleting(i, r, found))

\* One DELETE of the uninstall: the rows committed by now.
DeleteOne(i) ==
    LET r == Head(request[i].todo)
        found == rowOf[r] # Missing /\ rowOf[r].owner = request[i].by
    IN  /\ request[i].op = "remove" /\ request[i].todo # << >>
        /\ ~LockedFor(r, i)
        /\ Becomes(i, Deleting(i, r, found))

-----------------------------------------------------------------------------
Written(i) ==
    LET w == request[i].writes
    IN  [r \in Resource |->
            IF w[r].kind = "none" THEN rowOf[r]
            ELSE IF w[r].kind = "update" THEN Merged(rowOf[r], w[r].columns, w[r].new) ELSE w[r].new]

\* The statements and edits whose row is gone: they match no row and fail.
Losing(req, gone) ==
    [j \in Session |->
        IF req[j].pending.kind = "update" /\ req[j].pending.on \in gone
        THEN [req[j] EXCEPT !.pending = Statement("lost", Missing, Missing, {})] ELSE req[j]]

LosingEdits(gone) == [r \in Resource |-> IF r \in gone THEN Missing ELSE editing[r]]

Ready(i) == request[i].todo = << >> /\ request[i].pending = NoStatement

SaveWrites(i) ==
    LET w == request[i].writes
        gone == {r \in Resource : w[r].kind = "delete"}
        claimed == {r \in Resource : w[r].kind = "update" /\ "owner" \in w[r].columns}
    IN  /\ rowOf' = Written(i)
        /\ request' = Losing([request EXCEPT ![i] = NoRequest], gone)
        /\ editing' = LosingEdits(gone)
        /\ taken' = (taken \union claimed) \ gone
        /\ imported' = imported \ gone

(* PackageService.install commits the rows with the package's record.  The *)
(* record was looked up at the start: it is inserted, or updated if the    *)
(* version differs, and either fails when that is no longer so.            *)
CommitInstall(i) ==
    LET p == request[i].by
        v == request[i].version
        known == request[i].known
    IN  /\ request[i].op = "apply" /\ p \in Package /\ Ready(i)
        /\ known = 0 => packages[p] = 0
        /\ known \notin {0, v} => packages[p] # 0
        /\ SaveWrites(i)
        /\ packages' = IF known = v THEN packages ELSE [packages EXCEPT ![p] = v]
        /\ failed' = [failed EXCEPT ![p] = request[i].failed]
        /\ UNCHANGED <<requests, edits, overlapped>>

\* ConfigApplyService commits for itself; after a dry run the request's
\* session commits too, with what was reclaimed.
CommitOther(i) ==
    /\ \/ request[i].op = "preview"
       \/ request[i].op = "apply" /\ request[i].by = Config
    /\ Ready(i)
    /\ SaveWrites(i)
    /\ UNCHANGED <<packages, requests, edits, failed, overlapped>>

CommitUninstall(i) ==
    /\ request[i].op = "remove" /\ Ready(i)
    /\ SaveWrites(i)
    /\ packages' = [packages EXCEPT ![request[i].by] = 0]
    /\ UNCHANGED <<requests, edits, failed, overlapped>>

\* A statement failed, a deadlock was broken, or the backend stopped: the
\* transaction is rolled back.
Abort(i) ==
    /\ request[i].op # "none"
    /\ request' = [request EXCEPT ![i] = NoRequest]
    /\ UNCHANGED <<rowOf, packages, editing, requests, edits, failed, taken, imported, overlapped>>

-----------------------------------------------------------------------------
(* The resources' own endpoints.                                           *)
ApiStep ==
    /\ edits < MaxEdits
    /\ edits' = edits + 1
    /\ UNCHANGED <<packages, requests, failed, overlapped>>

UserCreate(r) ==
    /\ ApiStep
    /\ rowOf[r] = Missing /\ ~Locked(r)
    /\ rowOf' = [rowOf EXCEPT ![r] = [content |-> UserText, owner |-> Nobody,
                                      sum |-> NoSum, active |-> TRUE]]
    /\ UNCHANGED <<request, editing, taken, imported>>

\* Agents are found by name only while active.
ReadForEdit(r) ==
    /\ ApiStep
    /\ rowOf[r] # Missing /\ editing[r] = Missing
    /\ r \in Agent => rowOf[r].active
    /\ editing' = [editing EXCEPT ![r] = rowOf[r]]
    /\ UNCHANGED <<rowOf, request, taken, imported>>

\* Wrong: the resource stays the package's.
StillAttached(old) == old

\* detach_if_package_managed
Detached(old) ==
    IF old.owner \in Package THEN [old EXCEPT !.owner = Nobody, !.sum = NoSum] ELSE old

SaveEdit(r) ==
    /\ editing[r] # Missing /\ ~Locked(r)
    /\ \E active \in IF r \in Soft THEN BOOLEAN ELSE {TRUE} :
          LET new == [Detached(editing[r]) EXCEPT !.content = UserText, !.active = active]
          IN  rowOf' = [rowOf EXCEPT ![r] = Merged(@, Changed(editing[r], new), new)]
    /\ editing' = [editing EXCEPT ![r] = Missing]
    /\ UNCHANGED <<packages, request, requests, edits, failed, taken, imported, overlapped>>

\* import_openapi rewrites the operations and does not detach.
SaveImport(r) ==
    /\ r \in Connector
    /\ editing[r] # Missing /\ ~Locked(r)
    /\ rowOf' = [rowOf EXCEPT ![r].content = UserText]
    /\ editing' = [editing EXCEPT ![r] = Missing]
    /\ imported' = IF rowOf[r].owner \in Package THEN imported \union {r} ELSE imported
    /\ UNCHANGED <<packages, request, requests, edits, failed, taken, overlapped>>

UserDelete(r) ==
    /\ ApiStep
    /\ rowOf[r] # Missing /\ ~Locked(r)
    /\ IF r \in Agent
       THEN /\ rowOf[r].active
            /\ rowOf' = [rowOf EXCEPT ![r].active = FALSE]
            /\ UNCHANGED <<request, editing, taken, imported>>
       ELSE /\ rowOf' = [rowOf EXCEPT ![r] = Missing]
            /\ request' = Losing(request, {r})
            /\ editing' = LosingEdits({r})
            /\ taken' = taken \ {r}
            /\ imported' = imported \ {r}

-----------------------------------------------------------------------------
Start(i) ==
    \/ \E m \in Manager, v \in Version, op \in {"apply", "preview"} : Apply(i, op, m, v)
    \/ \E p \in Package : Uninstall(i, p)

Work(i) ==
    \/ \E r \in Resource : Skip(i, r) \/ Create(i, r) \/ Change(i, r) \/ Fail(i, r)
    \/ Flush(i)
    \/ DeleteOne(i)
    \/ CommitInstall(i)
    \/ CommitOther(i)
    \/ CommitUninstall(i)
    \/ Abort(i)

UserWork ==
    \E r \in Resource :
        UserCreate(r) \/ ReadForEdit(r) \/ SaveEdit(r) \/ SaveImport(r) \/ UserDelete(r)

PackagesNext == (\E i \in Session : Start(i) \/ Work(i)) \/ UserWork

PackagesSpec == PackagesInit /\ [][PackagesNext]_packagesVars

-----------------------------------------------------------------------------
(* A row that carries a package's mark and was not taken over from anybody *)
(* holds what that package shipped, in a version with the checksum of the  *)
(* row: no edit of a user and no other manager's apply is hidden under the *)
(* mark, so that an uninstall deletes nobody's work and an apply leaves no *)
(* foreign row alone (should_skip_existing, detach_if_package_managed,     *)
(* PackageService.uninstall).  The exceptions: a connector into which a    *)
(* user has imported operations, and packages of which two requests were   *)
(* under way at once, whose versions may mix.                              *)
ManagedAsShipped ==
    \A r \in Resource \ (taken \union imported) :
        LET row == rowOf[r] IN
        (row # Missing /\ row.owner \in Package \ overlapped)
            => \E v \in Version : row.content = Text(row.owner, v) /\ row.sum = Hash[r][row.owner][v]

(* As long as the requests about one package come one after the other, a   *)
(* row with its mark belongs to an installed package, and what the         *)
(* recorded version ships is there with that version's checksum unless the *)
(* install reported an error for it: no uninstall leaves a marked row      *)
(* behind, no rolled back install leaves one, and no upgrade passes over   *)
(* one whose checksum is another.                                          *)
MarkedAsRecorded ==
    \A r \in Resource \ taken :
        LET p == rowOf[r].owner
            v == packages[p]
        IN  (rowOf[r] # Missing /\ p \in Package \ overlapped)
                => /\ v # 0
                   /\ (\E k \in DOMAIN Ships[p][v] : Ships[p][v][k] = r) /\ r \notin failed[p]
                          => rowOf[r].sum = Hash[r][p][v]
=============================================================================
