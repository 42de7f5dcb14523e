----------------------------- MODULE Databases ------------------------------
(***************************************************************************)
(* The databases of one tenant: provisioning, snapshots, restores from a   *)
(* snapshot, branches and merges, as requests of the API run them, while   *)
(* query workers write to the same directories.                            *)
(*                                                                         *)
(* A database is named by the request that provisioned it; its content is  *)
(* the set of the writes it holds.  The API is one process: what a handler *)
(* does between two awaits on Redis or MinIO is one step for the other     *)
(* requests, but not for the workers and not for a crash.                  *)
(*                                                                         *)
(* Definitions no action uses are faulty variants of the one they precede. *)
(***************************************************************************)
EXTENDS Sequences, ApiRequests

CONSTANTS
    Origin,      \* the database that was there before
    Bases,       \* names a client gives to a database
    Labels,      \* names a client gives to a branch
    OriginName,  \* name of Origin
    Writes,      \* mutating queries, each sent once
    MaxParts,    \* parts of a name that fit into the 40 characters
    NoOne,       \* a lock without a holder
    NoSnap       \* no snapshot chosen

Databases == Requests \cup {Origin}

\* "main--branch--dev" is <<"main", "dev">>; the empty name is no row.
Names == {<<b>> : b \in Bases} \cup {<<b, l>> : b \in Bases, l \in Labels}
            \cup {<<b, l, m>> : b \in Bases, l \in Labels, m \in Labels}
NoName == <<>>

Snapshot == [db : Databases, by : Requests, content : SUBSET Writes]

ASSUME DatabasesAssumption ==
    /\ Origin \notin Requests
    /\ NoOne \notin Databases
    /\ OriginName \in Bases
    /\ MaxParts \in {1, 2}
    /\ NoSnap \notin Snapshot

\* "branch" is from_snapshot = "latest", "branchFrom" a snapshot by its id.
Ops == {"none", "provision", "snapshot", "restore", "branch", "branchFrom", "merge"}
Final == {"ok", "refused", "failed", "dead"}
DbPC == {"new", "snapLock", "snapCopy", "snapSave", "snapRelease",
         "snapAbort", "provFind", "provCreate", "duplicate", "restFind",
         "restLock", "restRemove", "restCopy", "restRelease", "restAbort"}
            \cup Final

VARIABLES
    name,     \* kuzu_databases: the name of each row
    present,  \* databases whose data.kuzu is on the disk
    content,  \* what it holds
    conn,     \* the worker's cached connection: "closed", "open", "stale"
    snaps,    \* kuzu_db_snapshots with the content of their object
    snapLock, \* holder of db:<id>:snapshot
    restLock, \* holder of db:<id>:restore
    dpc,      \* next call of a request, or its answer
    op,       \* what it was asked to do
    src,      \* the database it snapshots
    dst,      \* the database it restores
    want,     \* the name it provisions
    taken,    \* the snapshot it has copied
    snap,     \* the snapshot it restores, or makes a branch of
    sentTo,   \* history: the database each write was sent to
    cut,      \* history: what a branch was made of
    seen      \* history: contents src had since the request started

files   == <<name, present, content, conn, snaps>>
locks   == <<snapLock, restLock>>
args    == <<op, src, dst, want, taken, snap>>
history == <<sentTo, cut, seen>>
dbVars  == <<files, locks, dpc, args, history>>

DbTypeOK ==
    /\ name \in [Databases -> Names \cup {NoName}]
    /\ present \subseteq Databases
    /\ content \in [Databases -> SUBSET Writes]
    /\ conn \in [Databases -> {"closed", "open", "stale"}]
    /\ snaps \subseteq Snapshot
    /\ snapLock \in [Databases -> Requests \cup {NoOne}]
    /\ restLock \in [Databases -> Requests \cup {NoOne}]
    /\ dpc \in [Requests -> DbPC]
    /\ op \in [Requests -> Ops]
    /\ src \in [Requests -> Databases]
    /\ dst \in [Requests -> Databases]
    /\ want \in [Requests -> Names \cup {NoName}]
    /\ taken \in [Requests -> Snapshot \cup {NoSnap}]
    /\ snap \in [Requests -> Snapshot \cup {NoSnap}]
    /\ sentTo \in [Writes -> Databases \cup {NoOne}]
    /\ cut \in [Databases -> SUBSET Writes]
    /\ seen \in [Requests -> SUBSET SUBSET Writes]

DbInit ==
    /\ name = [d \in Databases |-> IF d = Origin THEN <<OriginName>> ELSE NoName]
    /\ present = {Origin}
    /\ content = [d \in Databases |-> {}]
    /\ conn = [d \in Databases |-> "closed"]
    /\ snaps = {}
    /\ snapLock = [d \in Databases |-> NoOne]
    /\ restLock = [d \in Databases |-> NoOne]
    /\ dpc = [r \in Requests |-> "new"]
    /\ op = [r \in Requests |-> "none"]
    /\ src = [r \in Requests |-> Origin]
    /\ dst = [r \in Requests |-> Origin]
    /\ want = [r \in Requests |-> NoName]
    /\ taken = [r \in Requests |-> NoSnap]
    /\ snap = [r \in Requests |-> NoSnap]
    /\ sentTo = [w \in Writes |-> NoOne]
    /\ cut = [d \in Databases |-> {}]
    /\ seen = [r \in Requests |-> {}]

Rows == {d \in Databases : name[d] # NoName}

\* What the requests that copy d have seen of it, with its new content c.  The
\* source of a branch is no longer watched once the branch has its own row.
Seen(d, c) ==
    [r \in Requests |-> IF src[r] = d /\ d # r /\ dpc[r] \notin Final \cup {"new"}
                        THEN seen[r] \cup {c} ELSE seen[r]]

DbGoto(r, pc) == dpc' = [dpc EXCEPT ![r] = pc]

\* No other handler is inside the replacement of a directory, which has no await.
LoopFree(r) == \A q \in Requests \ {r} : dpc[q] # "restCopy"

-----------------------------------------------------------------------------
(* The routes: what a request is asked to do                               *)

Ask(r, o, s, d, n, p, pc) ==
    /\ dpc[r] = "new"
    /\ op' = [op EXCEPT ![r] = o]
    /\ src' = [src EXCEPT ![r] = s]
    /\ dst' = [dst EXCEPT ![r] = d]
    /\ want' = [want EXCEPT ![r] = n]
    /\ snap' = [snap EXCEPT ![r] = p]
    /\ seen' = [seen EXCEPT ![r] = {content[s]}]
    /\ DbGoto(r, pc)
    /\ UNCHANGED <<files, locks, taken, sentTo, cut, faults>>

AskProvision(r, n)  == Ask(r, "provision", Origin, Origin, n, NoSnap, "provFind")
AskSnapshot(r, s)   == s \in Rows /\ Ask(r, "snapshot", s, s, NoName, NoSnap, "snapLock")
AskRestore(r, d, p) == d \in Rows /\ Ask(r, "restore", d, d, NoName, p, "restFind")
AskMerge(r, b, d)   == {b, d} \subseteq Rows /\ Ask(r, "merge", b, d, NoName, NoSnap, "snapLock")

AskBranch(r, s, l) ==
    s \in Rows /\ Ask(r, "branch", s, s, Append(name[s], l), NoSnap, "snapLock")

\* Any snapshot will do: its database is not compared with the source.
AskBranchFrom(r, s, l, p) ==
    s \in Rows /\ Ask(r, "branchFrom", s, s, Append(name[s], l), p, "provFind")

-----------------------------------------------------------------------------
(* CreateDatabaseSnapshotUseCase.execute                                   *)

\* What comes after a snapshot of the source, or after the first one of a new
\* database, which is best effort.
AfterSnapshot(r, good) ==
    IF src[r] = r THEN (IF op[r] = "provision" THEN "ok" ELSE "duplicate")
    ELSE IF ~ good THEN "failed"
    ELSE CASE op[r] = "snapshot" -> "ok"
           [] op[r] = "branch"   -> "provFind"
           [] OTHER              -> "restFind"

LockSnapshot(r) ==
    /\ dpc[r] = "snapLock"
    /\ IF snapLock[src[r]] = NoOne
       THEN /\ snapLock' = [snapLock EXCEPT ![src[r]] = r]
            /\ DbGoto(r, "snapCopy")
       ELSE /\ DbGoto(r, AfterSnapshot(r, FALSE))
            /\ UNCHANGED snapLock
    /\ UNCHANGED <<files, restLock, args, history, faults>>

\* The copy goes into an archive; a database that is not there is created first.
CopyDirectory(r) ==
    /\ dpc[r] = "snapCopy"
    /\ LoopFree(r)
    /\ present' = present \cup {src[r]}
    /\ taken' = [taken EXCEPT ![r] =
                    [db |-> src[r], by |-> r, content |-> content[src[r]]]]
    /\ DbGoto(r, "snapSave")
    /\ UNCHANGED <<name, content, conn, snaps, locks, op, src, dst, want, snap,
                   history, faults>>

\* Uploaded; the row is saved.
SaveSnapshot(r) ==
    /\ dpc[r] = "snapSave"
    /\ snaps' = snaps \cup {taken[r]}
    /\ snap' = IF src[r] # r THEN [snap EXCEPT ![r] = taken[r]] ELSE snap
    /\ DbGoto(r, "snapRelease")
    /\ UNCHANGED <<name, present, content, conn, locks, op, src, dst, want,
                   taken, history, faults>>

ReleaseSnapshot(r) ==
    /\ dpc[r] \in {"snapRelease", "snapAbort"}
    /\ snapLock' = IF snapLock[src[r]] = r THEN [snapLock EXCEPT ![src[r]] = NoOne]
                                           ELSE snapLock
    /\ DbGoto(r, AfterSnapshot(r, dpc[r] = "snapRelease"))
    /\ UNCHANGED <<files, restLock, args, history, faults>>

-----------------------------------------------------------------------------
(* ProvisionTenantResourcesUseCase.execute                                 *)

\* DatabaseName refuses a name that is too long, find_by_name one that exists.
CheckName(r) ==
    /\ dpc[r] = "provFind"
    /\ DbGoto(r, IF Len(want[r]) > MaxParts \/ \E d \in Rows : name[d] = want[r]
                 THEN "refused" ELSE "provCreate")
    /\ UNCHANGED <<files, locks, args, history, faults>>

\* The bucket was awaited in between: the unique constraint catches the second
\* of two requests with a name, whose directory stays behind.
CreateDatabase(r) ==
    /\ dpc[r] = "provCreate"
    /\ present' = present \cup {r}
    /\ IF \E d \in Rows : name[d] = want[r]
       THEN DbGoto(r, "failed") /\ UNCHANGED <<name, src>>
       ELSE /\ name' = [name EXCEPT ![r] = want[r]]
            /\ src' = [src EXCEPT ![r] = r]
            /\ DbGoto(r, "snapLock")
    /\ UNCHANGED <<content, conn, snaps, locks, op, dst, want, taken, snap,
                   history, faults>>

-----------------------------------------------------------------------------
(* RestoreDatabaseFromSnapshotUseCase.execute                              *)

FindRestoreUnchecked(r) ==
    /\ dpc[r] = "restFind"
    /\ DbGoto(r, "restLock")
    /\ UNCHANGED <<files, locks, args, history, faults>>

\* Only a snapshot of the very database: a merge into another one, with the
\* snapshot of the branch it has just taken, gets no further.
FindRestore(r) ==
    /\ dpc[r] = "restFind"
    /\ DbGoto(r, IF snap[r].db = dst[r] THEN "restLock" ELSE "refused")
    /\ UNCHANGED <<files, locks, args, history, faults>>

LockRestore(r) ==
    /\ dpc[r] = "restLock"
    /\ IF restLock[dst[r]] = NoOne
       THEN restLock' = [restLock EXCEPT ![dst[r]] = r] /\ DbGoto(r, "restRemove")
       ELSE UNCHANGED restLock /\ DbGoto(r, "failed")
    /\ UNCHANGED <<files, snapLock, args, history, faults>>

\* rmtree: an open connection of the worker stays on the deleted files.
RemoveDirectory(r) ==
    /\ dpc[r] = "restRemove"
    /\ LoopFree(r)
    /\ present' = present \ {dst[r]}
    /\ content' = [content EXCEPT ![dst[r]] = {}]
    /\ conn' = [conn EXCEPT ![dst[r]] = IF @ = "open" THEN "stale" ELSE @]
    /\ seen' = Seen(dst[r], {})
    /\ DbGoto(r, "restCopy")
    /\ UNCHANGED <<name, snaps, locks, args, sentTo, cut, faults>>

\* copytree refuses a directory that a worker has created in the meantime.
RestoreCopy(r) ==
    /\ dpc[r] = "restCopy"
    /\ IF dst[r] \in present
       THEN DbGoto(r, "restAbort") /\ UNCHANGED <<present, content, seen>>
       ELSE /\ present' = present \cup {dst[r]}
            /\ content' = [content EXCEPT ![dst[r]] = snap[r].content]
            /\ seen' = Seen(dst[r], snap[r].content)
            /\ DbGoto(r, "restRelease")
    /\ UNCHANGED <<name, conn, snaps, locks, args, sentTo, cut, faults>>

ReleaseRestore(r) ==
    /\ dpc[r] \in {"restRelease", "restAbort"}
    /\ restLock' = IF restLock[dst[r]] = r THEN [restLock EXCEPT ![dst[r]] = NoOne]
                                           ELSE restLock
    /\ DbGoto(r, IF dpc[r] = "restRelease" THEN "ok" ELSE "failed")
    /\ UNCHANGED <<files, snapLock, args, history, faults>>

-----------------------------------------------------------------------------
(* CreateBranchUseCase.execute: between provisioning and restore           *)

\* A plausible slip: any snapshot of the source instead of the one just taken.
DuplicateAnyOfSource(r) ==
    /\ dpc[r] = "duplicate"
    /\ \E p \in snaps :
          /\ p.db = snap[r].db
          /\ LET q == [db |-> r, by |-> r, content |-> p.content]
             IN  snaps' = snaps \cup {q} /\ snap' = [snap EXCEPT ![r] = q]
          /\ cut' = [cut EXCEPT ![r] = p.content]
    /\ dst' = [dst EXCEPT ![r] = r]
    /\ DbGoto(r, "restFind")
    /\ UNCHANGED <<name, present, content, conn, locks, op, src, want, taken,
                   sentTo, seen, faults>>

\* The row of the snapshot is saved once more, as one of the branch.
Duplicate(r) ==
    /\ dpc[r] = "duplicate"
    /\ LET p == [db |-> r, by |-> r, content |-> snap[r].content]
       IN  snaps' = snaps \cup {p} /\ snap' = [snap EXCEPT ![r] = p]
    /\ cut' = [cut EXCEPT ![r] = snap[r].content]
    /\ dst' = [dst EXCEPT ![r] = r]
    /\ DbGoto(r, "restFind")
    /\ UNCHANGED <<name, present, content, conn, locks, op, src, want, taken,
                   sentTo, seen, faults>>

-----------------------------------------------------------------------------
(* Workers, faults, restarts                                               *)

\* The worker executes a mutating query.  On a stale connection it reports
\* success, and a missing directory is no reason for a checkout, since its
\* parent is there: Kuzu creates an empty database.
WorkerWrites(w, d) ==
    /\ d \in Rows
    /\ sentTo[w] = NoOne
    /\ sentTo' = [sentTo EXCEPT ![w] = d]
    /\ \/ /\ conn[d] = "stale"
          /\ UNCHANGED <<present, content, conn, seen>>
       \/ /\ conn[d] # "stale"
          /\ present' = present \cup {d}
          /\ content' = [content EXCEPT ![d] = @ \cup {w}]
          /\ conn' = [conn EXCEPT ![d] = "open"]
          /\ seen' = Seen(d, content[d] \cup {w})
    /\ UNCHANGED <<name, snaps, locks, dpc, args, cut, faults>>

WorkerRestarts ==
    /\ conn' = [d \in Databases |-> "closed"]
    /\ UNCHANGED <<name, present, content, snaps, locks, dpc, args, history, faults>>

\* MinIO, Redis or SQL raises.
DbCallFails(r) ==
    /\ faults < MaxFaults
    /\ faults' = faults + 1
    /\ \/ dpc[r] = "snapSave" /\ DbGoto(r, "snapAbort")
       \/ dpc[r] = "restRemove" /\ DbGoto(r, "restAbort")
       \/ dpc[r] \in {"provFind", "provCreate", "duplicate"} /\ DbGoto(r, "failed")
    /\ UNCHANGED <<files, locks, args, history>>

\* The key of a holder that is gone expires.
LeaseEnds(d) ==
    /\ \/ /\ snapLock[d] \in Requests /\ dpc[snapLock[d]] = "dead"
          /\ snapLock' = [snapLock EXCEPT ![d] = NoOne]
          /\ UNCHANGED restLock
       \/ /\ restLock[d] \in Requests /\ dpc[restLock[d]] = "dead"
          /\ restLock' = [restLock EXCEPT ![d] = NoOne]
          /\ UNCHANGED snapLock
    /\ UNCHANGED <<files, dpc, args, history, faults>>

\* The API process ends with every request that is under way.
AbandonRequests ==
    /\ dpc' = [r \in Requests |-> IF dpc[r] \in Final \cup {"new"} THEN dpc[r] ELSE "dead"]
    /\ UNCHANGED <<files, locks, args, history, faults>>

AskSomething(r) ==
    \/ \E n \in Names : AskProvision(r, n)
    \/ \E d \in Databases : AskSnapshot(r, d)
    \/ \E d \in Databases, p \in snaps : AskRestore(r, d, p)
    \/ \E d \in Databases, l \in Labels : AskBranch(r, d, l)
    \/ \E d \in Databases, l \in Labels, p \in snaps : AskBranchFrom(r, d, l, p)
    \/ \E b, d \in Databases : AskMerge(r, b, d)

DbStep(r) ==
    \/ LockSnapshot(r) \/ CopyDirectory(r) \/ SaveSnapshot(r) \/ ReleaseSnapshot(r)
    \/ CheckName(r) \/ CreateDatabase(r) \/ Duplicate(r)
    \/ FindRestore(r) \/ LockRestore(r) \/ RemoveDirectory(r) \/ RestoreCopy(r)
    \/ ReleaseRestore(r) \/ DbCallFails(r)

WorkerStep == WorkerRestarts \/ \E w \in Writes, d \in Databases : WorkerWrites(w, d)

-----------------------------------------------------------------------------
\* Own writes of a database.
Own(d) == {w \in Writes : sentTo[w] = d}

\* A branch is isolated from the database it was made of, in both directions:
\* apart from writes sent to it, a database holds all of the cut it was made of
\* or nothing of it, whatever restores, merges, failures and restarts happen.
BranchIsolated == \A d \in present : content[d] \ Own(d) \in {{}, cut[d]}

\* A branch made of "latest" is a consistent cut: the snapshot it was made of
\* is what its source held at some moment of the request.
BranchIsCut ==
    \A r \in Requests : op[r] = "branch" /\ dst[r] = r => cut[r] \in seen[r]

\* As the route has it ("Swap atomique"), a restore replaces the directory or
\* leaves it: one that is over, however it ended, has not lost the database.
SwapIsAtomic ==
    \A d \in Rows : d \in present \/ \E r \in Requests : dst[r] = d /\ dpc[r] = "restCopy"
=============================================================================
