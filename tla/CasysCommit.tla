----------------------------- MODULE CasysCommit -----------------------------
(***************************************************************************)
(* The commit path of the casys engine on one branch of a database, over   *)
(* the file system adapter casys_storage_fs.                               *)
(*                                                                         *)
(* A commit opens a new WAL segment, writes its records there (rotating to *)
(* further segments), fsyncs, and publishes a manifest named by the time   *)
(* in milliseconds.  Commits of an engine take the writer lock of the      *)
(* branch; snapshots, which publish a manifest too, take none.  The whole  *)
(* process may crash at any step.                                          *)
(*                                                                         *)
(* FsBackend and CompositeBackend differ in what the manifest says of the  *)
(* WAL and in the order of two reads; `composite' is which one is in use.  *)
(*                                                                         *)
(* Of the file system: what a file held at its last fsync survives a       *)
(* crash, what was written since may survive up to any point, the last     *)
(* record torn; a rename survives once its directory is synced.            *)
(*                                                                         *)
(* Definitions no action of Next uses are faulty variants of the one they  *)
(* precede.                                                                *)
(***************************************************************************)
EXTENDS Naturals, Sequences, FiniteSets

CONSTANTS
    Old,        \* commits made before, each in a segment of its own
    New,        \* commits still to be made
    Size,       \* records of a commit
    Cap,        \* records that fit into a segment
    Writers,    \* threads that commit
    Snappers,   \* threads that take a snapshot
    MaxSeq,     \* bound: highest segment number
    MaxTime,    \* bound: milliseconds
    MaxFaults,  \* bound: I/O errors
    MaxCrashes, \* bound: crashes of the process
    Absent, Nobody

ASSUME CasysAssumption ==
    /\ {Old, New, MaxTime, MaxFaults, MaxCrashes} \subseteq Nat
    /\ {Size, Cap} \subseteq Nat \ {0}
    /\ MaxSeq \in 0..99 /\ Old <= MaxSeq
    /\ Writers \cap Snappers = {} /\ Nobody \notin Writers
    /\ Absent \notin Nat \cup Seq(Nat)

Txs     == 1..(Old + New)
Segs    == 0..MaxSeq
Time    == 0..MaxTime
Threads == Writers \cup Snappers
WalTail == Segs \cup {Absent}

\* A record is its transaction; 0 is one that a crash has torn.
Record == Txs \cup {0}

VARIABLES
    composite,  \* which backend the engine was opened with
    now,        \* milliseconds
    data,       \* content of each segment file, Absent if there is none
    safe,       \* what of it is on the disk
    man,        \* wal_tail of each manifest-<ts>.json, <<>> if there is none
    manSafe,    \* what of it is on the disk
    writer,     \* holder of the branch's writer lock
    thread,     \* control and locals of each thread
    begun,      \* history: commits that were started
    order,      \* history: acknowledged commits, in order
    version,    \* history: the timestamp returned for a commit
    overlap,    \* history: a snapshot and a commit have overlapped
    faults, crashes

files   == <<data, safe>>
mans    == <<man, manSafe>>
history == <<begun, order, version, overlap>>
bounds  == <<faults, crashes>>
vars == <<composite, now, files, mans, writer, thread, history, bounds>>

\* A manifest as the sequence of its wal_tail, so that <<>> is "no file".
Manifest == {<<>>} \cup {<<t>> : t \in WalTail}

PC == {"idle", "write", "flush", "tail", "clock", "base", "publish", "sync"}
ThreadState == [pc : PC, tx : Txs \cup {0}, seq : Segs, left : 0..Size,
                tail : WalTail, base : Manifest, ts : Time]
Idle == [pc |-> "idle", tx |-> 0, seq |-> 0, left |-> 0, tail |-> Absent,
         base |-> <<>>, ts |-> 0]

Acked == {order[i] : i \in DOMAIN order}

TypeOK ==
    /\ composite \in BOOLEAN
    /\ now \in Time
    /\ data \in [Segs -> Seq(Record) \cup {Absent}]
    /\ safe \in [Segs -> Seq(Record) \cup {Absent}]
    /\ man \in [Time -> Manifest] /\ manSafe \in [Time -> Manifest]
    /\ writer \in Writers \cup {Nobody}
    /\ \A w \in Writers : writer = w <=> thread[w].pc # "idle"
    /\ thread \in [Threads -> ThreadState]
    /\ begun \subseteq Txs
    /\ order \in Seq(Txs)
    /\ Acked \subseteq begun
    /\ version \in [Txs -> Time]
    /\ overlap \in BOOLEAN
    /\ faults \in 0..MaxFaults /\ crashes \in 0..MaxCrashes

\* The state after Old commits, of which the last is published at time 0.
Init ==
    /\ composite \in BOOLEAN
    /\ now = 0
    /\ data = [n \in Segs |-> IF n < Old THEN <<n + 1>> ELSE Absent]
    /\ safe = data
    /\ man = [t \in Time |-> IF t > 0 \/ Old = 0 THEN <<>>
                             ELSE <<IF composite THEN Old - 1 ELSE Absent>>]
    /\ manSafe = man
    /\ writer = Nobody
    /\ thread = [x \in Threads |-> Idle]
    /\ begun = 1..Old
    /\ order = [i \in 1..Old |-> i]
    /\ version = [t \in Txs |-> 0]
    /\ overlap = FALSE
    /\ faults = 0 /\ crashes = 0

-----------------------------------------------------------------------------
(* The file names.  list_wal_paths sorts them as strings: "wal-0-10.wal"    *)
(* comes after "wal-0-1.wal" and before "wal-0-2.wal".                      *)

Rank(n) == IF n < 10 THEN n * 11 ELSE (n \div 10) * 11 + 1 + (n % 10)

Existing == {n \in Segs : data[n] # Absent}
IsLast(n) == n \in Existing /\ \A m \in Existing : Rank(m) <= Rank(n)

\* WalWriter::open goes on after the last name.
NextSeq == IF Existing = {} THEN 0 ELSE (CHOOSE n \in Existing : IsLast(n)) + 1

\* latest_manifest: the highest timestamp, <<>> when there is no manifest.
Latest == LET dated == {t \in Time : man[t] # <<>>}
          IN  IF dated = {} THEN <<>>
              ELSE man[CHOOSE t \in dated : \A u \in dated : u <= t]
TailOf(m) == IF m = <<>> THEN Absent ELSE m[1]

Goto(x, pc) == thread' = [thread EXCEPT ![x].pc = pc]
Busy(S) == \E x \in S : thread[x].pc # "idle"

Tick ==
    /\ now < MaxTime
    /\ now' = now + 1
    /\ UNCHANGED <<composite, files, mans, writer, thread, history, bounds>>

-----------------------------------------------------------------------------
(* Engine::commit_tx and commit_tx of the backend                           *)

BeginUnlocked(w, t) ==
    /\ thread[w].pc = "idle"
    /\ t \notin begun
    /\ \A u \in Txs : u < t => u \in begun
    /\ NextSeq \in Segs
    /\ writer' = w
    /\ begun' = begun \cup {t}
    /\ data' = [data EXCEPT ![NextSeq] = <<>>]
    /\ thread' = [thread EXCEPT ![w] = [Idle EXCEPT !.pc = "write", !.tx = t,
                                            !.seq = NextSeq, !.left = Size]]
    /\ overlap' = (overlap \/ Busy(Snappers))
    /\ UNCHANGED <<composite, now, safe, mans, order, version, bounds>>

\* The writer lock, then WalWriter::open: File::create truncates the file.
Begin(w, t) ==
    /\ thread[w].pc = "idle" /\ writer = Nobody
    /\ t \notin begun
    /\ \A u \in Txs : u < t => u \in begun
    /\ NextSeq \in Segs
    /\ writer' = w
    /\ begun' = begun \cup {t}
    /\ data' = [data EXCEPT ![NextSeq] = <<>>]
    /\ thread' = [thread EXCEPT ![w] = [Idle EXCEPT !.pc = "write", !.tx = t,
                                            !.seq = NextSeq, !.left = Size]]
    /\ overlap' = (overlap \/ Busy(Snappers))
    /\ UNCHANGED <<composite, now, safe, mans, order, version, bounds>>

RotateWithoutFsync(w) ==
    LET n == thread[w].seq IN
    /\ thread[w].pc = "write" /\ thread[w].left > 0
    /\ IF Len(data[n]) < Cap
       THEN /\ data' = [data EXCEPT ![n] = Append(@, thread[w].tx)]
            /\ thread' = [thread EXCEPT ![w].left = @ - 1]
       ELSE /\ n + 1 \in Segs
            /\ data' = [data EXCEPT ![n + 1] = <<>>]
            /\ thread' = [thread EXCEPT ![w].seq = n + 1]
    /\ UNCHANGED <<composite, now, safe, mans, writer, history, bounds>>

\* write_record: a full segment is fsynced and the next one created.
WriteRecord(w) ==
    LET n == thread[w].seq IN
    /\ thread[w].pc = "write" /\ thread[w].left > 0
    /\ IF Len(data[n]) < Cap
       THEN /\ data' = [data EXCEPT ![n] = Append(@, thread[w].tx)]
            /\ thread' = [thread EXCEPT ![w].left = @ - 1]
            /\ UNCHANGED safe
       ELSE /\ n + 1 \in Segs
            /\ safe' = [safe EXCEPT ![n] = data[n]]
            /\ data' = [data EXCEPT ![n + 1] = <<>>]
            /\ thread' = [thread EXCEPT ![w].seq = n + 1]
    /\ UNCHANGED <<composite, now, mans, writer, history, bounds>>

\* w.flush(); FsBackend then takes a snapshot, CompositeBackend looks for the
\* tail of the WAL first.
Flush(w) ==
    /\ thread[w].pc = "write" /\ thread[w].left = 0
    /\ safe' = [safe EXCEPT ![thread[w].seq] = data[thread[w].seq]]
    /\ Goto(w, IF composite THEN "tail" ELSE "base")
    /\ UNCHANGED <<composite, now, data, mans, writer, history, bounds>>

TailFromManifest(w) ==
    /\ thread[w].pc = "tail"
    /\ thread' = [thread EXCEPT ![w].pc = "clock", ![w].tail = TailOf(Latest)]
    /\ UNCHANGED <<composite, now, files, mans, writer, history, bounds>>

\* append_records returns the last segment by name.
ReadTail(w) ==
    /\ thread[w].pc = "tail"
    /\ \E n \in Segs : IsLast(n) /\ thread' =
            [thread EXCEPT ![w].pc = "clock", ![w].tail = n]
    /\ UNCHANGED <<composite, now, files, mans, writer, history, bounds>>

-----------------------------------------------------------------------------
(* A new manifest: the last step of a commit, or a snapshot of its own      *)

BeginSnapshot(x) ==
    /\ thread[x].pc = "idle"
    /\ thread' = [thread EXCEPT ![x] =
            [Idle EXCEPT !.pc = IF composite THEN "clock" ELSE "base"]]
    /\ overlap' = (overlap \/ Busy(Writers))
    /\ UNCHANGED <<composite, now, files, mans, writer, begun, order, version,
                   bounds>>

\* FsBackend reads the latest manifest and then the clock, CompositeBackend
\* the clock and then the manifest.
ReadBase(x) ==
    /\ thread[x].pc = "base"
    /\ thread' = [thread EXCEPT ![x].pc = IF composite THEN "publish" ELSE "clock",
                                ![x].base = Latest]
    /\ UNCHANGED <<composite, now, files, mans, writer, history, bounds>>

ReadClock(x) ==
    /\ thread[x].pc = "clock"
    /\ thread' = [thread EXCEPT ![x].pc = IF composite THEN "base" ELSE "publish",
                                ![x].ts = now]
    /\ UNCHANGED <<composite, now, files, mans, writer, history, bounds>>

\* The wal_tail of a commit over a composite backend is the new one, any other
\* manifest repeats that of its base.
NewTail(x) == IF thread[x].tail # Absent THEN thread[x].tail
              ELSE TailOf(thread[x].base)

\* atomic_write_file: the synced temporary file is renamed; a manifest of the
\* same millisecond is replaced.
Publish(x) ==
    /\ thread[x].pc = "publish"
    /\ man' = [man EXCEPT ![thread[x].ts] = <<NewTail(x)>>]
    /\ Goto(x, "sync")
    /\ UNCHANGED <<composite, now, files, manSafe, writer, history, bounds>>

Done(x) ==
    /\ thread' = [thread EXCEPT ![x] = Idle]
    /\ writer' = IF writer = x THEN Nobody ELSE writer
    /\ IF x \in Writers
       THEN /\ order' = Append(order, thread[x].tx)
            /\ version' = [version EXCEPT ![thread[x].tx] = thread[x].ts]
       ELSE UNCHANGED <<order, version>>

AckBeforeSync(x) ==
    /\ thread[x].pc = "sync"
    /\ Done(x)
    /\ UNCHANGED <<composite, now, files, mans, begun, overlap, bounds>>

\* fsync of the directory; then the timestamp is returned to the caller.
SyncDir(x) ==
    /\ thread[x].pc = "sync"
    /\ manSafe' = man
    /\ Done(x)
    /\ UNCHANGED <<composite, now, files, man, begun, overlap, bounds>>

\* Any call returns an error: the commit or the snapshot stops where it is.
Fails(x) ==
    /\ thread[x].pc # "idle"
    /\ faults < MaxFaults
    /\ faults' = faults + 1
    /\ thread' = [thread EXCEPT ![x] = Idle]
    /\ writer' = IF writer = x THEN Nobody ELSE writer
    /\ UNCHANGED <<composite, now, files, mans, history, crashes>>

-----------------------------------------------------------------------------
Prefixes(s) == {SubSeq(s, 1, i) : i \in 0..Len(s)}

\* What a crash leaves of a file that was written to since its last fsync.
Survivors(s, written) ==
    IF written = s THEN {s}
    ELSE {s} \cup Prefixes(written)
             \cup {Append(p, 0) : p \in Prefixes(written) \ {written}}

Crash ==
    /\ crashes < MaxCrashes
    /\ crashes' = crashes + 1
    /\ LET unsynced == {n \in Segs : data[n] # safe[n]}
           Left(n)  == Survivors(safe[n], data[n])
       IN  \E left \in [unsynced -> UNION {Left(n) : n \in unsynced}] :
              /\ \A n \in unsynced : left[n] \in Left(n)
              /\ data' = [n \in Segs |-> IF n \in unsynced THEN left[n] ELSE data[n]]
              /\ safe' = data'
    /\ \E kept \in SUBSET {t \in Time : man[t] # manSafe[t]} :
          /\ man' = [t \in Time |-> IF t \in kept THEN man[t] ELSE manSafe[t]]
          /\ manSafe' = man'
    /\ writer' = Nobody
    /\ thread' = [x \in Threads |-> Idle]
    /\ UNCHANGED <<composite, now, history, faults>>

CommitStep(w) ==
    \/ \E t \in Txs : Begin(w, t)
    \/ WriteRecord(w) \/ Flush(w) \/ ReadTail(w)

PublishStep(x) == ReadBase(x) \/ ReadClock(x) \/ Publish(x) \/ SyncDir(x) \/ Fails(x)

Next ==
    \/ Tick
    \/ \E w \in Writers : CommitStep(w)
    \/ \E x \in Snappers : BeginSnapshot(x)
    \/ \E x \in Threads : PublishStep(x)
    \/ Crash

Spec == Init /\ [][Next]_vars

-----------------------------------------------------------------------------
(***************************************************************************)
(* Properties                                                              *)
(***************************************************************************)

\* read_wal_segment gives the records of a segment, or an error if it is torn.
Readable(n) == data[n] # Absent /\ \A i \in DOMAIN data[n] : data[n][i] # 0

Holds(n, t) == data[n] # Absent /\ \E i \in DOMAIN data[n] : data[n][i] = t

\* The places of its records, segment and position, that can be read.
RecordsOf(t) ==
    {p \in Segs \X (1..Cap) : /\ Readable(p[1]) /\ p[2] \in DOMAIN data[p[1]]
                              /\ data[p[1]][p[2]] = t}

\* No record of an acknowledged commit is ever lost: commits are fsynced before
\* they are published, and no later commit opens their segments again.
AckedSurvives ==
    \A t \in Acked : Cardinality(RecordsOf(t)) = IF t <= Old THEN 1 ELSE Size

\* The listing of the WAL, which recovery reads in order, has the segments of
\* acknowledged commits in the order of the commits.
ListedInOrder ==
    \A i, j \in DOMAIN order : i < j =>
        \A n, m \in Segs : Holds(n, order[i]) /\ Holds(m, order[j])
                              => Rank(n) < Rank(m)

\* The manifest whose timestamp a commit returns exists, even after a crash.
AckedIsPublished == \A t \in Acked : man[version[t]] # <<>>

\* Over a composite backend the wal_tail of the latest manifest covers every
\* acknowledged commit, as long as no snapshot overlaps one and the clock, by
\* which manifests are named, does not go back (here it never does).
TailCovers ==
    composite /\ ~overlap =>
        \A t \in Acked : \A n \in Segs :
            Holds(n, t) => Rank(n) <= Rank(TailOf(Latest))

=============================================================================
