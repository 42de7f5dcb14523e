-------------------------------- MODULE Pitr --------------------------------
(***************************************************************************)
(* Point-in-time recovery of one Kuzu database.                            *)
(*                                                                         *)
(* Workers execute mutating queries and append them to WAL objects, one    *)
(* object per second, in the object store.  A snapshot request copies the  *)
(* database directory and saves the copy with its creation time.  A        *)
(* restore request replaces the directory by the nearest snapshot, replays *)
(* the WAL up to the target, archives the result as a new snapshot and     *)
(* deletes the WAL objects it has listed.                                  *)
(*                                                                         *)
(* The content of a database is the sequence of the mutations applied to   *)
(* it.  Time is counted in ticks, Res of them in a second; any number of   *)
(* steps may fall into one tick.  Redis locks are leases: LeaseExpires may *)
(* strike while the holder is not done.  The three operations take locks   *)
(* of different names and so never wait for each other.                    *)
(*                                                                         *)
(* As in QueryPipeline, a definition no action of Next uses is a faulty    *)
(* variant of the one it precedes.                                         *)
(***************************************************************************)
EXTENDS Naturals, Sequences, FiniteSets

CONSTANTS
    Queries,       \* mutating queries, each submitted once
    Detected,      \* those that start with a verb _is_mutating knows
    Refused,       \* those whose text Kuzu refuses, as one that has parameters
    Workers,       \* query worker processes
    Snapshotters,  \* requests for a snapshot
    Restorers,     \* requests for a restore
    Res,           \* ticks in a second
    MaxTime,       \* bound: last tick
    MaxMishaps,    \* bound: failing calls, killed processes and leases that
                   \* expire under their holder, together
    Nobody, None   \* no holder, no query

ASSUME PitrAssumption ==
    /\ {Detected, Refused} \subseteq SUBSET Queries
    /\ Res \in Nat \ {0}
    /\ {MaxTime, MaxMishaps} \subseteq Nat
    /\ Nobody \notin Workers \cup Snapshotters \cup Restorers
    /\ None \notin Queries
    /\ Snapshotters \cap Restorers = {}

Time    == 0..MaxTime
Seconds == {t \in Time : t % Res = 0}
Floor(t) == t - (t % Res)

Locks    == {"wal_append", "snapshot", "pitr_restore"}
SnapReqs == Snapshotters \cup Restorers
Procs    == Workers \cup SnapReqs
Content  == Seq(Queries)
Entry    == [q : Queries, ts : Time]
Snapshot == [at : Time, copied : Time, content : Content]

Values(s) == {s[i] : i \in DOMAIN s}

VARIABLES
    now,        \* the clock every process reads
    db,         \* content of the directory at the path of the database
    wal,        \* WAL object of each second; empty: there is none
    snaps,      \* rows of kuzu_db_snapshots with the content of their object
    lock,       \* holder of each Redis lock
    worker,     \* control and locals of each worker, and its Kuzu connection
    snapper,    \* control and locals of each snapshot in the making
    restorer,   \* control and locals of each restore request
    \* history
    past,       \* content of db at the end of each tick
    execAt, stampAt,  \* tick of the execution and of the WAL time stamp
    logged,     \* queries whose WAL entry was uploaded
    purged,     \* queries whose WAL entry was deleted
    spent,      \* those of them that the deleting restore had replayed
    misread,    \* an append went on without the entries before it
    overran,    \* locks whose lease expired under a live holder
    swaps,      \* how often the directory was replaced
    faults, slow

storage == <<db, wal, snaps>>
procs   == <<worker, snapper, restorer>>
times   == <<execAt, stampAt>>
walHist == <<logged, purged, spent, misread>>
bounds  == <<faults, slow>>
vars == <<now, storage, lock, procs, past, times, walHist, overran, swaps,
          bounds>>

WorkerState ==
    [pc : {"idle", "stamp", "acquire", "read", "upload", "release"},
     conn : {"none", "path", "moved"}, q : Queries \cup {None}, ts : Time,
     prior : Seq(Entry)]
SnapperState ==
    [pc : {"idle", "copy", "save", "release", "done"},
     content : Content, copied : Time, ok : BOOLEAN]
RestorerState ==
    [pc : {"idle", "acquire", "swap", "list", "file", "entry", "archive",
           "delete", "release", "done"},
     target : Time, snap : Snapshot, files : SUBSET Seconds,
     todo : SUBSET Seconds, entries : Seq(Entry), got : Content,
     ok : BOOLEAN, quiet : BOOLEAN]

TypeOK ==
    /\ now \in Time
    /\ db \in Content
    /\ wal \in [Seconds -> Seq(Entry)]
    /\ snaps \subseteq Snapshot
    /\ lock \in [Locks -> Procs \cup {Nobody}]
    /\ worker \in [Workers -> WorkerState]
    /\ snapper \in [SnapReqs -> SnapperState]
    /\ restorer \in [Restorers -> RestorerState]
    /\ past \in [Time -> Content]
    /\ execAt \in [Queries -> Time \cup {MaxTime + 1}]
    /\ stampAt \in [Queries -> Time \cup {MaxTime + 1}]
    /\ {logged, purged, spent} \subseteq SUBSET Queries
    /\ misread \in BOOLEAN
    /\ overran \subseteq Locks
    /\ swaps \in Nat
    /\ faults \in 0..MaxMishaps
    /\ slow \in 0..MaxMishaps

FirstSnapshot == [at |-> 0, copied |-> 0, content |-> <<>>]

Resting(conn) == [pc |-> "idle", conn |-> conn, q |-> None, ts |-> 0,
                  prior |-> <<>>]

\* Provisioning has created the empty database and its first snapshot.
Init ==
    /\ now = 0
    /\ db = <<>>
    /\ wal = [s \in Seconds |-> <<>>]
    /\ snaps = {FirstSnapshot}
    /\ lock = [n \in Locks |-> Nobody]
    /\ worker = [w \in Workers |-> Resting("none")]
    /\ snapper = [p \in SnapReqs |-> [pc |-> "idle", content |-> <<>>,
                                      copied |-> 0, ok |-> FALSE]]
    /\ restorer = [r \in Restorers |->
            [pc |-> "idle", target |-> 0, snap |-> FirstSnapshot,
             files |-> {}, todo |-> {}, entries |-> <<>>, got |-> <<>>,
             ok |-> FALSE, quiet |-> FALSE]]
    /\ past = [t \in Time |-> <<>>]
    /\ execAt = [q \in Queries |-> MaxTime + 1]
    /\ stampAt = [q \in Queries |-> MaxTime + 1]
    /\ logged = {} /\ purged = {} /\ spent = {} /\ misread = FALSE
    /\ overran = {}
    /\ swaps = 0
    /\ faults = 0 /\ slow = 0

Fault == faults + slow < MaxMishaps /\ faults' = faults + 1 /\ UNCHANGED slow

\* The path of the database gets a new content.
SetDb(c) == db' = c /\ past' = [past EXCEPT ![now] = c]

\* SET NX EX, and the Lua script that deletes the caller's own token only.
Acquire(n, p) == lock[n] = Nobody /\ lock' = [lock EXCEPT ![n] = p]
Release(n, p) == lock' = [lock EXCEPT ![n] = IF @ = p THEN Nobody ELSE @]

Tick ==
    /\ now < MaxTime
    /\ now' = now + 1
    /\ past' = [past EXCEPT ![now + 1] = db]
    /\ UNCHANGED <<storage, lock, procs, times, walHist, overran, swaps, bounds>>

-----------------------------------------------------------------------------
(* QueryWorker.run_once, from the execution to the WAL                      *)

\* KuzuQueryExecutionAdapter opens the database once and keeps the connection:
\* after a restore it still writes to the directory that was moved away.  It
\* hands the text to Kuzu without the parameters.  A text that Kuzu refuses, or
\* a call that fails, is an error payload: the worker goes on and logs the
\* query like one that was applied.
Execute(w, q) ==
    /\ worker[w].pc = "idle"
    /\ execAt[q] > MaxTime
    /\ execAt' = [execAt EXCEPT ![q] = now]
    /\ LET conn == IF worker[w].conn = "none" THEN "path" ELSE worker[w].conn
       IN  worker' = [worker EXCEPT ![w] =
              IF q \in Detected
              THEN [Resting(conn) EXCEPT !.pc = "stamp", !.q = q]
              ELSE Resting(conn)]
    /\ \/ /\ IF worker[w].conn = "moved" \/ q \in Refused
             THEN UNCHANGED <<db, past>> ELSE SetDb(Append(db, q))
          /\ UNCHANGED bounds
       \/ Fault /\ UNCHANGED <<db, past>>
    /\ UNCHANGED <<now, wal, snaps, lock, snapper, restorer, stampAt, walHist,
                   overran, swaps>>

Stamp(w) ==
    /\ worker[w].pc = "stamp"
    /\ worker' = [worker EXCEPT ![w].pc = "acquire", ![w].ts = now]
    /\ stampAt' = [stampAt EXCEPT ![worker[w].q] = now]
    /\ UNCHANGED <<now, storage, lock, snapper, restorer, past, execAt, walHist,
                   overran, swaps, bounds>>

AcquireWalUnlocked(w) ==
    /\ worker[w].pc = "acquire"
    /\ worker' = [worker EXCEPT ![w].pc = "read"]
    /\ UNCHANGED <<now, storage, lock, snapper, restorer, past, times, walHist,
                   overran, swaps, bounds>>

\* A busy lock skips the entry.
AcquireWal(w) ==
    /\ worker[w].pc = "acquire"
    /\ \/ /\ Acquire("wal_append", w)
          /\ worker' = [worker EXCEPT ![w].pc = "read"]
       \/ /\ lock["wal_append"] # Nobody
          /\ worker' = [worker EXCEPT ![w] = Resting(@.conn)]
          /\ UNCHANGED lock
    /\ UNCHANGED <<now, storage, snapper, restorer, past, times, walHist,
                   overran, swaps, bounds>>

\* A failing read goes on with an empty prior.
ReadPrior(w) ==
    /\ worker[w].pc = "read"
    /\ \/ /\ worker' = [worker EXCEPT ![w].pc = "upload",
                                      ![w].prior = wal[Floor(worker[w].ts)]]
          /\ UNCHANGED <<misread, bounds>>
       \/ /\ Fault
          /\ worker' = [worker EXCEPT ![w].pc = "upload", ![w].prior = <<>>]
          /\ misread' = TRUE
    /\ UNCHANGED <<now, storage, lock, snapper, restorer, past, times, logged,
                   purged, spent, overran, swaps>>

\* put_object replaces the whole object; an error is logged and ignored.
Upload(w) ==
    /\ worker[w].pc = "upload"
    /\ worker' = [worker EXCEPT ![w].pc = "release"]
    /\ \/ /\ wal' = [wal EXCEPT ![Floor(worker[w].ts)] =
                        Append(worker[w].prior,
                               [q |-> worker[w].q, ts |-> worker[w].ts])]
          /\ logged' = logged \cup {worker[w].q}
          /\ UNCHANGED bounds
       \/ Fault /\ UNCHANGED <<wal, logged>>
    /\ UNCHANGED <<now, db, snaps, lock, snapper, restorer, past, times, purged,
                   spent, misread, overran, swaps>>

ReleaseWal(w) ==
    /\ worker[w].pc = "release"
    /\ Release("wal_append", w)
    /\ worker' = [worker EXCEPT ![w] = Resting(@.conn)]
    /\ UNCHANGED <<now, storage, snapper, restorer, past, times, walHist,
                   overran, swaps, bounds>>

\* The process is killed and started again, without its connection.
WorkerDies(w) ==
    /\ Fault
    /\ worker' = [worker EXCEPT ![w] = Resting("none")]
    /\ UNCHANGED <<now, storage, lock, snapper, restorer, past, times, walHist,
                   overran, swaps>>

-----------------------------------------------------------------------------
(* CreateDatabaseSnapshotUseCase.execute, for a request of its own or for a *)
(* restore that archives its result                                         *)

SnapStart(p) ==
    /\ snapper[p].pc = "idle"
    /\ p \in Restorers => restorer[p].pc = "archive"
    /\ \/ /\ Acquire("snapshot", p)
          /\ snapper' = [snapper EXCEPT ![p].pc = "copy"]
       \/ /\ lock["snapshot"] # Nobody      \* TimeoutError
          /\ snapper' = [snapper EXCEPT ![p].pc = "done"]
          /\ UNCHANGED lock
    /\ UNCHANGED <<now, storage, worker, restorer, past, times, walHist,
                   overran, swaps, bounds>>

SnapCopy(p) ==
    /\ snapper[p].pc = "copy"
    /\ snapper' = [snapper EXCEPT ![p].pc = "save", ![p].content = db,
                                  ![p].copied = now]
    /\ UNCHANGED <<now, storage, lock, worker, restorer, past, times, walHist,
                   overran, swaps, bounds>>

SnapSaveDatedByName(p) ==
    /\ snapper[p].pc = "save"
    /\ snaps' = snaps \cup {[at |-> Floor(snapper[p].copied),
                             copied |-> snapper[p].copied,
                             content |-> snapper[p].content]}
    /\ snapper' = [snapper EXCEPT ![p].pc = "release", ![p].ok = TRUE]
    /\ UNCHANGED <<now, db, wal, lock, worker, restorer, past, times, walHist,
                   overran, swaps, bounds>>

\* created_at is read when the upload is over.
SnapSave(p) ==
    /\ snapper[p].pc = "save"
    /\ snaps' = snaps \cup {[at |-> now, copied |-> snapper[p].copied,
                             content |-> snapper[p].content]}
    /\ snapper' = [snapper EXCEPT ![p].pc = "release", ![p].ok = TRUE]
    /\ UNCHANGED <<now, db, wal, lock, worker, restorer, past, times, walHist,
                   overran, swaps, bounds>>

\* The copy, the upload or the insertion raises; or the process dies.
SnapFails(p) ==
    /\ snapper[p].pc \in {"copy", "save"}
    /\ Fault
    /\ \E pc \in {"release", "done"} : snapper' = [snapper EXCEPT ![p].pc = pc]
    /\ UNCHANGED <<now, storage, lock, worker, restorer, past, times, walHist,
                   overran, swaps>>

SnapRelease(p) ==
    /\ snapper[p].pc = "release"
    /\ Release("snapshot", p)
    /\ snapper' = [snapper EXCEPT ![p].pc = "done", ![p].content = <<>>,
                                  ![p].copied = 0]
    /\ UNCHANGED <<now, storage, worker, restorer, past, times, walHist,
                   overran, swaps, bounds>>

-----------------------------------------------------------------------------
(* RestoreDatabasePITRUseCase.execute                                       *)

Nearest(target) ==
    {s \in snaps : /\ s.at <= target
                   /\ \A u \in snaps : u.at <= target => u.at <= s.at}

Quiet == /\ \A w \in Workers : worker[w].pc = "idle"
         /\ \A p \in Snapshotters : snapper[p].pc \in {"idle", "done"}

\* The snapshot is chosen before the lock is asked for.
FindSnapshot(r, target) ==
    /\ restorer[r].pc = "idle"
    /\ target <= now
    /\ \E s \in Nearest(target) :
          restorer' = [restorer EXCEPT ![r].pc = "acquire", ![r].snap = s,
                ![r].target = target, ![r].quiet = Quiet /\ target < now]
    /\ UNCHANGED <<now, storage, lock, worker, snapper, past, times, walHist,
                   overran, swaps, bounds>>

AcquireRestore(r) ==
    /\ restorer[r].pc = "acquire"
    /\ \/ /\ Acquire("pitr_restore", r)
          /\ restorer' = [restorer EXCEPT ![r].pc = "swap"]
       \/ /\ lock["pitr_restore"] # Nobody  \* TimeoutError
          /\ restorer' = [restorer EXCEPT ![r].pc = "done"]
          /\ UNCHANGED lock
    /\ UNCHANGED <<now, storage, worker, snapper, past, times, walHist,
                   overran, swaps, bounds>>

\* _restore_snapshot: the directory is renamed and the staged one takes its
\* place.  Open connections follow the renamed directory.
Swap(r) ==
    /\ restorer[r].pc = "swap"
    /\ SetDb(restorer[r].snap.content)
    /\ worker' = [w \in Workers |-> [worker[w] EXCEPT
                        !.conn = IF @ = "path" THEN "moved" ELSE @]]
    /\ restorer' = [restorer EXCEPT ![r].pc = "list",
                                    ![r].got = restorer[r].snap.content]
    /\ swaps' = swaps + 1
    /\ UNCHANGED <<now, wal, snaps, lock, snapper, times, walHist, overran,
                   bounds>>

ListWalExclusive(r) ==
    LET inRange == {s \in Seconds : /\ wal[s] # <<>>
                                    /\ restorer[r].snap.at < s
                                    /\ s <= restorer[r].target}
    IN  /\ restorer[r].pc = "list"
        /\ restorer' = [restorer EXCEPT ![r].pc = "file",
                                ![r].files = inRange, ![r].todo = inRange]
        /\ UNCHANGED <<now, storage, lock, worker, snapper, past, times,
                       walHist, overran, swaps, bounds>>

\* _find_wal_files_in_range compares the start of a WAL object's second with
\* created_at and the target.  A listing that fails is an empty one.
ListWal(r) ==
    LET inRange == {s \in Seconds : /\ wal[s] # <<>>
                                    /\ restorer[r].snap.at <= s
                                    /\ s <= restorer[r].target}
    IN  /\ restorer[r].pc = "list"
        /\ \/ /\ restorer' = [restorer EXCEPT ![r].pc = "file",
                                    ![r].files = inRange, ![r].todo = inRange]
              /\ UNCHANGED bounds
           \/ Fault /\ restorer' = [restorer EXCEPT ![r].pc = "file"]
        /\ UNCHANGED <<now, storage, lock, worker, snapper, past, times,
                       walHist, overran, swaps>>

\* The objects are read in the order of their names; one that cannot be
\* downloaded is passed over.
ReadFile(r) ==
    /\ restorer[r].pc = "file"
    /\ IF restorer[r].todo = {}
       THEN /\ restorer' = [restorer EXCEPT ![r].pc = "archive"]
            /\ UNCHANGED bounds
       ELSE \E s \in restorer[r].todo :
              /\ \A u \in restorer[r].todo : s <= u
              /\ \/ /\ restorer' = [restorer EXCEPT ![r].pc = "entry",
                            ![r].todo = @ \ {s}, ![r].entries = wal[s]]
                    /\ UNCHANGED bounds
                 \/ Fault /\ restorer' = [restorer EXCEPT ![r].todo = @ \ {s}]
    /\ UNCHANGED <<now, storage, lock, worker, snapper, past, times, walHist,
                   overran, swaps>>

ReplayEntryUnbounded(r) ==
    /\ restorer[r].pc = "entry"
    /\ UNCHANGED bounds
    /\ IF restorer[r].entries = <<>>
       THEN restorer' = [restorer EXCEPT ![r].pc = "file"] /\ UNCHANGED <<db, past>>
       ELSE LET e == Head(restorer[r].entries) IN
            /\ SetDb(Append(db, e.q))
            /\ restorer' = [restorer EXCEPT ![r].entries = Tail(@),
                                            ![r].got = Append(@, e.q)]
    /\ UNCHANGED <<now, wal, snaps, lock, worker, snapper, times, walHist,
                   overran, swaps>>

\* _replay_wal_files stops at the first entry after the target and ignores an
\* entry whose execution fails.  Like the worker it executes the text without
\* the parameters of the entry, so Kuzu refuses what it has refused before.
ReplayEntry(r) ==
    LET rest == restorer[r].entries
        next(pc) == [restorer EXCEPT ![r].pc = pc, ![r].entries = <<>>]
    IN  /\ restorer[r].pc = "entry"
        /\ \/ /\ rest = <<>>
              /\ restorer' = next("file")
              /\ UNCHANGED <<db, past, bounds>>
           \/ /\ rest # <<>> /\ Head(rest).ts > restorer[r].target
              /\ restorer' = next("archive")
              /\ UNCHANGED <<db, past, bounds>>
           \/ /\ rest # <<>> /\ Head(rest).ts <= restorer[r].target
              /\ \/ /\ Head(rest).q \notin Refused
                    /\ SetDb(Append(db, Head(rest).q))
                    /\ restorer' = [restorer EXCEPT ![r].entries = Tail(rest),
                                        ![r].got = Append(@, Head(rest).q)]
                    /\ UNCHANGED bounds
                 \/ /\ \/ Head(rest).q \in Refused /\ UNCHANGED bounds
                       \/ Fault
                    /\ restorer' = [restorer EXCEPT ![r].entries = Tail(rest)]
                    /\ UNCHANGED <<db, past>>
        /\ UNCHANGED <<now, wal, snaps, lock, worker, snapper, times, walHist,
                       overran, swaps>>

DeleteUnarchived(r) ==
    /\ restorer[r].pc = "archive"
    /\ snapper[r].pc = "done"
    /\ restorer' = [restorer EXCEPT ![r].pc = "delete", ![r].ok = TRUE]
    /\ UNCHANGED <<now, storage, lock, worker, snapper, past, times, walHist,
                   overran, swaps, bounds>>

\* The archive of the restored state is saved, or its failure was swallowed.
Archived(r) ==
    /\ restorer[r].pc = "archive"
    /\ snapper[r].pc = "done"
    /\ restorer' = [restorer EXCEPT
            ![r].pc = IF snapper[r].ok THEN "delete" ELSE "release",
            ![r].ok = TRUE]
    /\ UNCHANGED <<now, storage, lock, worker, snapper, past, times, walHist,
                   overran, swaps, bounds>>

\* Every listed object is deleted, whatever part of it was replayed; one that
\* cannot be deleted stays.
DeleteWal(r) ==
    /\ restorer[r].pc = "delete"
    /\ IF restorer[r].files = {}
       THEN /\ restorer' = [restorer EXCEPT ![r].pc = "release"]
            /\ UNCHANGED <<wal, purged, spent, bounds>>
       ELSE \E s \in restorer[r].files :
              LET dropped == {e.q : e \in Values(wal[s])}
              IN /\ \A u \in restorer[r].files : s <= u
                 /\ restorer' = [restorer EXCEPT ![r].files = @ \ {s}]
                 /\ \/ /\ wal' = [wal EXCEPT ![s] = <<>>]
                       /\ purged' = purged \cup dropped
                       /\ spent' = spent \cup (dropped \cap Values(restorer[r].got))
                       /\ UNCHANGED bounds
                    \/ Fault /\ UNCHANGED <<wal, purged, spent>>
    /\ UNCHANGED <<now, db, snaps, lock, worker, snapper, past, times, logged,
                   misread, overran, swaps>>

ReleaseRestore(r) ==
    /\ restorer[r].pc = "release"
    /\ Release("pitr_restore", r)
    /\ restorer' = [restorer EXCEPT ![r].pc = "done"]
    /\ UNCHANGED <<now, storage, worker, snapper, past, times, walHist,
                   overran, swaps, bounds>>

\* The download or the extraction raises and the finally releases; or the
\* process dies at any point and keeps the lock until it expires.
RestoreFails(r) ==
    /\ Fault
    /\ \/ /\ restorer[r].pc = "swap"
          /\ restorer' = [restorer EXCEPT ![r].pc = "release"]
          /\ UNCHANGED snapper
       \/ /\ restorer[r].pc \notin {"idle", "done"}
          /\ restorer' = [restorer EXCEPT ![r].pc = "done"]
          /\ snapper' = [snapper EXCEPT ![r].pc = "done"]
    /\ UNCHANGED <<now, storage, lock, worker, past, times, walHist, overran,
                   swaps>>

-----------------------------------------------------------------------------
Holds(n, p) ==
    \/ n = "wal_append" /\ p \in Workers
          /\ worker[p].pc \in {"read", "upload", "release"}
    \/ n = "snapshot" /\ p \in SnapReqs
          /\ snapper[p].pc \in {"copy", "save", "release"}
    \/ n = "pitr_restore" /\ p \in Restorers
          /\ restorer[p].pc \notin {"idle", "acquire", "done"}

\* A lease is over: that of a dead process sooner or later, that of a live one
\* when it takes longer than 10 or 60 seconds.
LeaseExpires(n) ==
    /\ lock[n] # Nobody
    /\ lock' = [lock EXCEPT ![n] = Nobody]
    /\ IF Holds(n, lock[n])
       THEN /\ faults + slow < MaxMishaps
            /\ slow' = slow + 1
            /\ overran' = overran \cup {n}
       ELSE UNCHANGED <<overran, slow>>
    /\ UNCHANGED <<now, storage, procs, past, times, walHist, swaps, faults>>

WorkerStep(w) ==
    \/ \E q \in Queries : Execute(w, q)
    \/ Stamp(w) \/ AcquireWal(w) \/ ReadPrior(w) \/ Upload(w) \/ ReleaseWal(w)
    \/ WorkerDies(w)

SnapStep(p) ==
    SnapStart(p) \/ SnapCopy(p) \/ SnapSave(p) \/ SnapFails(p) \/ SnapRelease(p)

RestoreStep(r) ==
    \/ \E t \in Time : FindSnapshot(r, t)
    \/ AcquireRestore(r) \/ Swap(r) \/ ListWal(r) \/ ReadFile(r)
    \/ ReplayEntry(r) \/ Archived(r) \/ DeleteWal(r) \/ ReleaseRestore(r)
    \/ RestoreFails(r)

Next ==
    \/ Tick
    \/ \E w \in Workers : WorkerStep(w)
    \/ \E p \in SnapReqs : SnapStep(p)
    \/ \E r \in Restorers : RestoreStep(r)
    \/ \E n \in Locks : LeaseExpires(n)

Spec == Init /\ [][Next]_vars

-----------------------------------------------------------------------------
(***************************************************************************)
(* Properties                                                              *)
(***************************************************************************)

\* Whatever races with it, a restore brings back nothing that was executed
\* after its target: neither in the snapshot, which create_database_snapshot
\* dates after its copy, nor in the entries _replay_wal_files executes.
NothingAfterTarget ==
    \A r \in Restorers : \A q \in Values(restorer[r].got) :
        execAt[q] <= restorer[r].target

\* The entries that concurrent workers append to a WAL object all stay in it:
\* one is missing only if a restore deleted it, if the object could not be
\* read, or if the lease of wal_append ran out.
AppendsSurvive ==
    \A q \in logged :
        \/ \E s \in Seconds : \E e \in Values(wal[s]) : e.q = q
        \/ q \in purged \/ misread \/ "wal_append" \in overran

\* A restore deletes the WAL of what it has replayed only when an archive that
\* holds it is saved, so what it brought back can be brought back again.
DeletedIsArchived ==
    "pitr_restore" \in overran
    \/ \A q \in spent : \E s \in snaps : q \in Values(s.content)

Replayed(r) == restorer[r].ok /\ restorer[r].quiet /\ faults = 0

\* The mutation was over before the snapshot copied the database, or began
\* after the second in which the snapshot was saved.
ApartFrom(q, s) ==
    \/ stampAt[q] < s.copied
    \/ execAt[q] > s.at /\ Floor(execAt[q]) >= s.at

\* A restore brings back the past of its target to the letter when the
\* mutations that changed the database keep away from its snapshot and from its
\* target and all reached the WAL, one worker executes them and no restore has
\* been made before.  The WAL may hold mutations that Kuzu refused, for the
\* worker logs them too: the replay must not apply them.
CleanRestoreIsExact ==
    \A r \in Restorers :
        /\ Replayed(r) /\ swaps = 1 /\ overran = {}
        /\ \A q \in Queries \ Refused : execAt[q] <= restorer[r].target =>
              /\ q \in logged
              /\ stampAt[q] <= restorer[r].target
              /\ ApartFrom(q, restorer[r].snap)
        => restorer[r].got = past[restorer[r].target]

\* A mutation that began after the snapshot was created and was logged before
\* the target is replayed.
LoggedIsReplayed ==
    \A r \in Restorers : Replayed(r) =>
        \A q \in logged :
            execAt[q] > restorer[r].snap.at /\ stampAt[q] <= restorer[r].target
                => q \in Values(restorer[r].got)

=============================================================================
