------------------------------ MODULE PitrProofs ------------------------------
(***************************************************************************)
(* Proofs about point-in-time recovery, for any queries, processes, clock  *)
(* resolution, faults and expired leases.                                  *)
(*                                                                         *)
(* DatedInv says of every place in which a mutation may lie - the          *)
(* database, the WAL, copies, snapshots, the locals of the processes - by  *)
(* when it was executed at the latest.  AppendInv says what the holder of  *)
(* wal_append may rely on, ArchiveInv where the mutations of a restore are *)
(* until its WAL is deleted.                                               *)
(***************************************************************************)
EXTENDS Pitr, TLAPS

-----------------------------------------------------------------------------
(* Sequences and seconds                                                    *)

LEMMA ValuesAppend ==
    ASSUME NEW S, NEW s \in Seq(S), NEW x \in S
    PROVE  /\ Append(s, x) \in Seq(S)
           /\ \A y \in Values(Append(s, x)) : y = x \/ y \in Values(s)
  BY DEF Values

LEMMA ValuesAppended ==
    ASSUME NEW S, NEW s \in Seq(S), NEW x \in S
    PROVE  x \in Values(Append(s, x)) /\ Values(s) \subseteq Values(Append(s, x))
  <1> DEFINE t == Append(s, x)
  <1>1. /\ Len(s) \in Nat /\ DOMAIN s = 1..Len(s)
        /\ DOMAIN t = 1..(Len(s) + 1)
        /\ t[Len(s) + 1] = x
        /\ \A i \in 1..Len(s) : t[i] = s[i]
    OBVIOUS
  <1> HIDE DEF t
  <1>2. x \in Values(t)
    BY <1>1 DEF Values
  <1>3. ASSUME NEW i \in DOMAIN s
        PROVE  s[i] \in Values(t)
    BY <1>1 DEF Values
  <1> QED
    BY <1>2, <1>3 DEF Values, t

LEMMA ValuesTail ==
    ASSUME NEW S, NEW s \in Seq(S), s # <<>>
    PROVE  /\ Head(s) \in S /\ Tail(s) \in Seq(S)
           /\ Head(s) \in Values(s)
           /\ \A y \in Values(Tail(s)) : y \in Values(s)
  BY DEF Values

LEMMA ValuesTyped ==
    ASSUME NEW S, NEW s \in Seq(S), NEW x \in Values(s)
    PROVE  x \in S
  BY DEF Values

LEMMA ValuesEmpty == Values(<<>>) = {}
  BY DEF Values

LEMMA MultipleOfRes ==
    ASSUME NEW d \in Nat
    PROVE  (Res * d) % Res = 0
  <1>1. Res \in Nat \ {0}
    BY PitrAssumption
  <1> QED
    BY <1>1, SMTT(20)

\* The WAL object of a tick exists for every tick of the clock.
LEMMA FloorIsSecond ==
    ASSUME NEW t \in Time
    PROVE  Floor(t) \in Seconds
  <1>1. t \in Nat /\ MaxTime \in Nat /\ Res \in Nat \ {0} /\ t <= MaxTime
    BY PitrAssumption DEF Time
  <1>2. t % Res \in Nat /\ t % Res <= t
    BY <1>1
  <1>3. t = Res * (t \div Res) + (t % Res) /\ t \div Res \in Nat
    BY <1>1
  <1>4. (Res * (t \div Res)) % Res = 0
    BY <1>3, MultipleOfRes
  <1>5. t - (t % Res) = Res * (t \div Res)
    BY <1>1, <1>2, <1>3
  <1>6. (t - (t % Res)) % Res = 0
    BY <1>4, <1>5
  <1> QED
    BY <1>1, <1>2, <1>6 DEF Floor, Seconds, Time

-----------------------------------------------------------------------------
(* Types                                                                    *)

StoreTyped ==
    /\ now \in Time /\ db \in Content /\ past \in [Time -> Content]
    /\ wal \in [Seconds -> Seq(Entry)] /\ snaps \subseteq Snapshot

LockTyped == lock \in [Locks -> Procs \cup {Nobody}] /\ overran \subseteq Locks

\* A worker past the execution of a mutation still knows it.
WorkersTyped ==
    /\ worker \in [Workers -> WorkerState]
    /\ \A w \in Workers : worker[w].pc # "idle" => worker[w].q \in Queries

SnappersTyped == snapper \in [SnapReqs -> SnapperState]

RestorersTyped == restorer \in [Restorers -> RestorerState]

LogTyped ==
    logged \subseteq Queries /\ purged \subseteq Queries /\ spent \subseteq Queries

TimesTyped ==
    /\ execAt \in [Queries -> Time \cup {MaxTime + 1}]
    /\ stampAt \in [Queries -> Time \cup {MaxTime + 1}]

CountsTyped ==
    /\ misread \in BOOLEAN /\ swaps \in Nat
    /\ faults \in 0..MaxMishaps /\ slow \in 0..MaxMishaps

TypeInv == /\ StoreTyped /\ LockTyped /\ WorkersTyped /\ SnappersTyped
           /\ RestorersTyped /\ LogTyped /\ TimesTyped /\ CountsTyped

LEMMA TypeInvIsTypeOK == TypeInv => TypeOK
  BY DEF TypeInv, StoreTyped, LockTyped, WorkersTyped, SnappersTyped,
         RestorersTyped, LogTyped, TimesTyped, CountsTyped, TypeOK

LEMMA TypeInvInit == Init => TypeInv
  <1> SUFFICES ASSUME Init PROVE TypeInv
    OBVIOUS
  <1>1. 0 \in Time /\ MaxTime \in Nat /\ MaxMishaps \in Nat
    BY PitrAssumption DEF Time
  <1>2. <<>> \in Content /\ <<>> \in Seq(Entry)
    BY DEF Content
  <1>3. FirstSnapshot \in Snapshot
    BY <1>1, <1>2 DEF FirstSnapshot, Snapshot
  <1>4. RestorersTyped
    BY <1>1, <1>2, <1>3 DEF Init, RestorersTyped, RestorerState
  <1>5. SnappersTyped
    BY <1>1, <1>2 DEF Init, SnappersTyped, SnapperState
  <1>6. WorkersTyped
    BY <1>1, <1>2 DEF Init, WorkersTyped, WorkerState, Resting
  <1>7. StoreTyped
    BY <1>1, <1>2, <1>3 DEF Init, StoreTyped
  <1>8. LockTyped /\ LogTyped
    BY DEF Init, LockTyped, LogTyped
  <1>9. TimesTyped
    BY DEF Init, TimesTyped
  <1>10. misread \in BOOLEAN
    BY DEF Init
  <1>11. CountsTyped
    <2>1. swaps = 0 /\ faults = 0 /\ slow = 0
      BY DEF Init
    <2> QED
      BY <1>1, <1>10, <2>1 DEF CountsTyped
  <1> QED
    BY <1>4, <1>5, <1>6, <1>7, <1>8, <1>9, <1>11
    DEF TypeInv

LEMMA FaultTyped ==
    ASSUME CountsTyped, misread' \in BOOLEAN, swaps' \in Nat,
           Fault \/ UNCHANGED bounds
    PROVE  CountsTyped'
  BY PitrAssumption DEF CountsTyped, Fault, bounds

LEMMA AcquireTyped ==
    ASSUME LockTyped, NEW n \in Locks, NEW p \in Procs, UNCHANGED overran,
           Acquire(n, p) \/ Release(n, p) \/ UNCHANGED lock
    PROVE  LockTyped'
  BY DEF LockTyped, Acquire, Release

LEMMA SetDbTyped ==
    ASSUME StoreTyped, NEW c \in Content, SetDb(c), UNCHANGED <<now, wal, snaps>>
    PROVE  StoreTyped'
  BY DEF StoreTyped, SetDb

LEMMA WorkerTyped ==
    ASSUME WorkersTyped, NEW w \in Workers, NEW x \in WorkerState,
           x.pc # "idle" => x.q \in Queries,
           worker' = [worker EXCEPT ![w] = x]
    PROVE  WorkersTyped'
  BY DEF WorkersTyped

LEMMA RestTyped ==
    ASSUME WorkersTyped, NEW w \in Workers,
           NEW c \in {"none", "path", "moved"},
           worker' = [worker EXCEPT ![w] = Resting(c)]
    PROVE  WorkersTyped'
  <1>1. 0 \in Time /\ <<>> \in Seq(Entry)
    BY PitrAssumption DEF Time
  <1>2. Resting(c) \in WorkerState /\ Resting(c).pc = "idle"
    BY <1>1 DEF Resting, WorkerState
  <1> QED
    BY <1>2, WorkerTyped

LEMMA TypeInvWorker ==
    ASSUME TypeInv, NEW w \in Workers, WorkerStep(w)
    PROVE  TypeInv'
  <1> USE DEF TypeInv
  <1>0. /\ worker[w] \in WorkerState
        /\ worker[w].conn \in {"none", "path", "moved"}
        /\ "wal_append" \in Locks /\ w \in Procs
        /\ now \in Time /\ misread \in BOOLEAN /\ swaps \in Nat
    BY DEF WorkersTyped, WorkerState, Locks, Procs, StoreTyped, CountsTyped
  <1>1. ASSUME NEW q \in Queries, Execute(w, q)
        PROVE  TypeInv'
    <2>1. WorkersTyped'
      <3> DEFINE conn == IF worker[w].conn = "none" THEN "path"
                         ELSE worker[w].conn
                 x == IF q \in Detected
                      THEN [Resting(conn) EXCEPT !.pc = "stamp", !.q = q]
                      ELSE Resting(conn)
      <3>1. conn \in {"none", "path", "moved"}
        BY <1>0
      <3>2. worker' = [worker EXCEPT ![w] = x]
        BY <1>1 DEF Execute
      <3> HIDE DEF conn
      <3>3. x = [pc |-> IF q \in Detected THEN "stamp" ELSE "idle",
                 conn |-> conn, q |-> IF q \in Detected THEN q ELSE None,
                 ts |-> 0, prior |-> <<>>]
        BY DEF Resting
      <3>4. x.pc # "idle" => x.q \in Queries
        BY <3>3
      <3> HIDE DEF x
      <3>5. 0 \in Time /\ <<>> \in Seq(Entry)
        BY PitrAssumption DEF Time
      <3>6. x \in WorkerState
        BY <3>1, <3>3, <3>5 DEF WorkerState
      <3> QED
        BY <3>2, <3>4, <3>6, WorkerTyped
    <2>2. StoreTyped'
      <3>1. Append(db, q) \in Content
        BY DEF StoreTyped, Content
      <3>2. UNCHANGED <<now, wal, snaps>>
            /\ (UNCHANGED <<db, past>> \/ SetDb(Append(db, q)))
        BY <1>1 DEF Execute
      <3> QED
        BY <3>1, <3>2, SetDbTyped DEF StoreTyped
    <2>3. TimesTyped'
      BY <1>0, <1>1 DEF Execute, TimesTyped
    <2>4. CountsTyped'
      BY <1>0, <1>1, FaultTyped DEF Execute, walHist
    <2>5. LockTyped' /\ SnappersTyped' /\ RestorersTyped' /\ LogTyped'
      BY <1>1 DEF Execute, walHist, LockTyped, SnappersTyped, RestorersTyped,
         LogTyped
    <2> QED
      BY <2>1, <2>2, <2>3, <2>4, <2>5
  <1>2. CASE Stamp(w)
    <2>1. WorkersTyped' /\ TimesTyped'
      BY <1>0, <1>2 DEF Stamp, WorkersTyped, TimesTyped, WorkerState
    <2> QED
      BY <1>2, <2>1 DEF Stamp, StoreTyped, LockTyped, SnappersTyped,
         RestorersTyped, LogTyped, CountsTyped, storage, walHist, bounds
  <1>3. CASE AcquireWal(w)
    <2>1. WorkersTyped'
      <3>1. CASE worker' = [worker EXCEPT ![w].pc = "read"]
        BY <1>3, <3>1 DEF AcquireWal, WorkersTyped, WorkerState
      <3>2. CASE worker' = [worker EXCEPT ![w] = Resting(worker[w].conn)]
        BY <1>0, <3>2, RestTyped
      <3> QED
        BY <1>3, <3>1, <3>2 DEF AcquireWal
    <2>2. LockTyped'
      BY <1>0, <1>3, AcquireTyped DEF AcquireWal
    <2> QED
      BY <1>3, <2>1, <2>2 DEF AcquireWal, StoreTyped, SnappersTyped,
         RestorersTyped, LogTyped, TimesTyped, CountsTyped, storage, times,
         walHist, bounds
  <1>4. CASE ReadPrior(w)
    <2>1. Floor(worker[w].ts) \in Seconds
      BY <1>0, FloorIsSecond DEF WorkerState
    <2>2. wal[Floor(worker[w].ts)] \in Seq(Entry) /\ <<>> \in Seq(Entry)
      BY <2>1 DEF StoreTyped
    <2>3. PICK s \in Seq(Entry) :
            worker' = [worker EXCEPT ![w].pc = "upload", ![w].prior = s]
      BY <1>4, <2>2 DEF ReadPrior
    <2>4. worker[w].q \in Queries
      BY <1>4 DEF ReadPrior, WorkersTyped
    <2>5. WorkersTyped'
      BY ZenonT(40), <2>3, <2>4 DEF WorkersTyped, WorkerState
    <2>6. CountsTyped'
      BY <1>0, <1>4, FaultTyped DEF ReadPrior
    <2> QED
      BY <1>4, <2>5, <2>6 DEF ReadPrior, StoreTyped, LockTyped, SnappersTyped,
         RestorersTyped, LogTyped, TimesTyped, storage, times
  <1>5. CASE Upload(w)
    <2>1. worker[w].q \in Queries /\ worker[w].ts \in Time
          /\ worker[w].prior \in Seq(Entry)
      BY <1>0, <1>5 DEF Upload, WorkersTyped, WorkerState
    <2> DEFINE e == [q |-> worker[w].q, ts |-> worker[w].ts]
    <2>2. Append(worker[w].prior, e) \in Seq(Entry)
      BY <2>1 DEF Entry
    <2>3. StoreTyped'
      <3> HIDE DEF e
      <3>1. \/ wal' = wal
            \/ wal' = [wal EXCEPT ![Floor(worker[w].ts)] =
                            Append(worker[w].prior, e)]
        BY <1>5 DEF Upload, e
      <3> QED
        BY <1>5, <2>2, <3>1 DEF Upload, StoreTyped, Content
    <2>4. LogTyped'
      BY <1>5, <2>1 DEF Upload, LogTyped
    <2>5. WorkersTyped'
      BY <1>5 DEF Upload, WorkersTyped, WorkerState
    <2>6. CountsTyped'
      BY <1>0, <1>5, FaultTyped DEF Upload
    <2> QED
      BY <1>5, <2>3, <2>4, <2>5, <2>6 DEF Upload, LockTyped, SnappersTyped,
         RestorersTyped, TimesTyped, times
  <1>6. CASE ReleaseWal(w)
    <2>1. WorkersTyped'
      BY <1>0, <1>6, RestTyped DEF ReleaseWal
    <2>2. LockTyped'
      BY <1>0, <1>6, AcquireTyped DEF ReleaseWal
    <2> QED
      BY <1>6, <2>1, <2>2 DEF ReleaseWal, StoreTyped, SnappersTyped,
         RestorersTyped, LogTyped, TimesTyped, CountsTyped, storage, times,
         walHist, bounds
  <1>7. CASE WorkerDies(w)
    <2>1. WorkersTyped'
      BY <1>7, RestTyped DEF WorkerDies
    <2>2. CountsTyped'
      BY <1>0, <1>7, FaultTyped DEF WorkerDies, walHist
    <2> QED
      BY <1>7, <2>1, <2>2 DEF WorkerDies, StoreTyped, LockTyped, SnappersTyped,
         RestorersTyped, LogTyped, TimesTyped, storage, times, walHist
  <1> QED
    BY <1>1, <1>2, <1>3, <1>4, <1>5, <1>6, <1>7 DEF WorkerStep

LEMMA TypeInvSnap ==
    ASSUME TypeInv, NEW p \in SnapReqs, SnapStep(p)
    PROVE  TypeInv'
  <1> USE DEF TypeInv
  <1>0. /\ "snapshot" \in Locks /\ p \in Procs
        /\ now \in Time /\ db \in Content /\ <<>> \in Content /\ 0 \in Time
        /\ misread \in BOOLEAN /\ swaps \in Nat
        /\ snapper[p].copied \in Time /\ snapper[p].content \in Content
    BY PitrAssumption
    DEF Locks, Procs, StoreTyped, CountsTyped, Content, Time, SnappersTyped,
        SnapperState
  <1>1. CASE SnapStart(p)
    <2>1. LockTyped'
      BY <1>0, <1>1, AcquireTyped DEF SnapStart
    <2>2. SnappersTyped'
      BY <1>1 DEF SnapStart, SnappersTyped, SnapperState
    <2> QED
      BY <1>1, <2>1, <2>2 DEF SnapStart, StoreTyped, WorkersTyped,
         RestorersTyped, LogTyped, TimesTyped, CountsTyped, storage, times,
         walHist, bounds
  <1>2. CASE SnapCopy(p)
    <2>1. SnappersTyped'
      BY ZenonT(40), <1>0, <1>2 DEF SnapCopy, SnappersTyped, SnapperState
    <2> QED
      BY <1>2, <2>1 DEF SnapCopy, StoreTyped, LockTyped, WorkersTyped,
         RestorersTyped, LogTyped, TimesTyped, CountsTyped, storage, times,
         walHist, bounds
  <1>3. CASE SnapSave(p)
    <2>1. SnappersTyped'
      BY <1>3 DEF SnapSave, SnappersTyped, SnapperState
    <2>2. [at |-> now, copied |-> snapper[p].copied,
           content |-> snapper[p].content] \in Snapshot
      BY <1>0 DEF Snapshot
    <2>3. StoreTyped'
      BY <1>3, <2>2 DEF SnapSave, StoreTyped
    <2> QED
      BY <1>3, <2>1, <2>3 DEF SnapSave, LockTyped, WorkersTyped,
         RestorersTyped, LogTyped, TimesTyped, CountsTyped, times, walHist,
         bounds
  <1>4. CASE SnapFails(p)
    <2>1. SnappersTyped'
      BY <1>4 DEF SnapFails, SnappersTyped, SnapperState
    <2>2. CountsTyped'
      BY <1>0, <1>4, FaultTyped DEF SnapFails, walHist
    <2> QED
      BY <1>4, <2>1, <2>2 DEF SnapFails, StoreTyped, LockTyped, WorkersTyped,
         RestorersTyped, LogTyped, TimesTyped, storage, times, walHist
  <1>5. CASE SnapRelease(p)
    <2>1. LockTyped'
      BY <1>0, <1>5, AcquireTyped DEF SnapRelease
    <2>2. SnappersTyped'
      BY <1>0, <1>5 DEF SnapRelease, SnappersTyped, SnapperState
    <2> QED
      BY <1>5, <2>1, <2>2 DEF SnapRelease, StoreTyped, WorkersTyped,
         RestorersTyped, LogTyped, TimesTyped, CountsTyped, storage, times,
         walHist, bounds
  <1> QED
    BY <1>1, <1>2, <1>3, <1>4, <1>5 DEF SnapStep

LEMMA RestorerTyped ==
    ASSUME RestorersTyped, NEW r \in Restorers, NEW x \in RestorerState,
           restorer' = [restorer EXCEPT ![r] = x]
    PROVE  RestorersTyped'
  BY DEF RestorersTyped

\* Steps of a restore that only move on.
LEMMA RestorerMoves ==
    ASSUME RestorersTyped, NEW r \in Restorers,
           NEW c \in {"acquire", "swap", "list", "file", "entry", "archive",
                      "delete", "release", "done"},
           restorer' = [restorer EXCEPT ![r].pc = c]
    PROVE  RestorersTyped'
  BY ZenonT(40) DEF RestorersTyped, RestorerState

LEMMA TypeInvRestore ==
    ASSUME TypeInv, NEW r \in Restorers, RestoreStep(r)
    PROVE  TypeInv'
  <1> USE DEF TypeInv
  <1>0. /\ "pitr_restore" \in Locks /\ r \in Procs /\ r \in SnapReqs
        /\ misread \in BOOLEAN /\ swaps \in Nat
        /\ restorer \in [Restorers -> RestorerState]
        /\ restorer[r] \in RestorerState
    BY DEF Locks, Procs, SnapReqs, CountsTyped, RestorersTyped
  <1>1. ASSUME NEW t \in Time, FindSnapshot(r, t)
        PROVE  TypeInv'
    <2>1. (Quiet /\ t < now) \in BOOLEAN
      OBVIOUS
    <2>2. Nearest(t) \subseteq Snapshot
      BY DEF Nearest, StoreTyped
    <2>3. PICK s \in Snapshot, b \in BOOLEAN :
            restorer' = [restorer EXCEPT ![r].pc = "acquire", ![r].snap = s,
                                         ![r].target = t, ![r].quiet = b]
      BY <1>1, <2>1, <2>2 DEF FindSnapshot
    <2>4. RestorersTyped'
      <3> DEFINE x == [restorer[r] EXCEPT !.pc = "acquire", !.snap = s,
                                          !.target = t, !.quiet = b]
      <3>1. restorer' = [restorer EXCEPT ![r] = x]
        BY <1>0, <2>3
      <3>2. x \in RestorerState
        BY <1>0 DEF RestorerState
      <3> QED
        BY <3>1, <3>2, RestorerTyped
    <2> QED
      BY <1>1, <2>4 DEF FindSnapshot, StoreTyped, LockTyped, WorkersTyped,
         SnappersTyped, LogTyped, TimesTyped, CountsTyped, storage, times,
         walHist, bounds
  <1>2. CASE AcquireRestore(r)
    <2>1. LockTyped'
      BY <1>0, <1>2, AcquireTyped DEF AcquireRestore
    <2>2. RestorersTyped'
      BY <1>2, RestorerMoves DEF AcquireRestore
    <2> QED
      BY <1>2, <2>1, <2>2 DEF AcquireRestore, StoreTyped, WorkersTyped,
         SnappersTyped, LogTyped, TimesTyped, CountsTyped, storage, times,
         walHist, bounds
  <1>3. CASE Swap(r)
    <2>1. restorer[r].snap.content \in Content
      BY <1>0 DEF RestorerState, Snapshot
    <2>2. StoreTyped'
      BY <1>3, <2>1, SetDbTyped DEF Swap
    <2>3. WorkersTyped'
      <3>1. ASSUME NEW w \in Workers
            PROVE  /\ worker'[w] \in WorkerState
                   /\ worker'[w].pc = worker[w].pc
                   /\ worker'[w].q = worker[w].q
        <4>1. worker'[w] = [worker[w] EXCEPT
                              !.conn = IF @ = "path" THEN "moved" ELSE @]
          BY <1>3 DEF Swap
        <4>2. worker[w] \in WorkerState
          BY DEF WorkersTyped
        <4> QED
          BY <4>1, <4>2 DEF WorkerState
      <3>2. worker' = [w \in Workers |-> worker'[w]]
        BY <1>3 DEF Swap
      <3> QED
        BY <3>1, <3>2 DEF WorkersTyped
    <2>4. RestorersTyped'
      <3> DEFINE c == restorer[r].snap.content
                 x == [restorer[r] EXCEPT !.pc = "list", !.got = c]
      <3>1. restorer' = [restorer EXCEPT ![r] = x]
        BY <1>0, <1>3 DEF Swap
      <3>2. x \in RestorerState
        <4> HIDE DEF c
        <4> QED
          BY <1>0, <2>1 DEF RestorerState, c
      <3> QED
        BY <3>1, <3>2, RestorerTyped
    <2>5. CountsTyped'
      BY <1>0, <1>3 DEF Swap, CountsTyped, walHist, bounds
    <2> QED
      BY <1>3, <2>2, <2>3, <2>4, <2>5 DEF Swap, LockTyped, SnappersTyped,
         LogTyped, TimesTyped, times, walHist
  <1>4. CASE ListWal(r)
    <2>1. RestorersTyped'
      <3>1. CASE restorer' = [restorer EXCEPT ![r].pc = "file"]
        BY <3>1, RestorerMoves
      <3>2. ASSUME NEW F \in SUBSET Seconds,
                   restorer' = [restorer EXCEPT ![r].pc = "file",
                                    ![r].files = F, ![r].todo = F]
            PROVE  RestorersTyped'
        <4> DEFINE x == [restorer[r] EXCEPT !.pc = "file", !.files = F,
                                            !.todo = F]
        <4>1. restorer' = [restorer EXCEPT ![r] = x]
          BY <1>0, <3>2
        <4>2. x \in RestorerState
          BY <1>0 DEF RestorerState
        <4> QED
          BY <4>1, <4>2, RestorerTyped
      <3> DEFINE inRange == {s \in Seconds : /\ wal[s] # <<>>
                                             /\ restorer[r].snap.at <= s
                                             /\ s <= restorer[r].target}
      <3>3. \/ restorer' = [restorer EXCEPT ![r].pc = "file"]
            \/ restorer' = [restorer EXCEPT ![r].pc = "file",
                                ![r].files = inRange, ![r].todo = inRange]
        BY <1>4 DEF ListWal
      <3>4. inRange \in SUBSET Seconds
        OBVIOUS
      <3> HIDE DEF inRange
      <3> QED
        BY <3>1, <3>2, <3>3, <3>4
    <2>2. CountsTyped'
      BY <1>0, <1>4, FaultTyped DEF ListWal, walHist
    <2> QED
      BY <1>4, <2>1, <2>2 DEF ListWal, StoreTyped, LockTyped, WorkersTyped,
         SnappersTyped, LogTyped, TimesTyped, storage, times, walHist
  <1>5. CASE ReadFile(r)
    <2>1. RestorersTyped'
      <3>1. CASE restorer' = [restorer EXCEPT ![r].pc = "archive"]
        BY <3>1, RestorerMoves
      <3>2. ASSUME NEW s \in restorer[r].todo,
                   restorer' = [restorer EXCEPT ![r].pc = "entry",
                            ![r].todo = @ \ {s}, ![r].entries = wal[s]]
            PROVE  RestorersTyped'
        <4>1. wal[s] \in Seq(Entry)
          BY <1>0 DEF RestorerState, StoreTyped
        <4> QED
          BY <3>2, <4>1 DEF RestorersTyped, RestorerState
      <3>3. ASSUME NEW s \in restorer[r].todo,
                   restorer' = [restorer EXCEPT ![r].todo = @ \ {s}]
            PROVE  RestorersTyped'
        BY ZenonT(40), <3>3 DEF RestorersTyped, RestorerState
      <3> QED
        BY <1>5, <3>1, <3>2, <3>3 DEF ReadFile
    <2>2. CountsTyped'
      BY <1>0, <1>5, FaultTyped DEF ReadFile, walHist
    <2> QED
      BY <1>5, <2>1, <2>2 DEF ReadFile, StoreTyped, LockTyped, WorkersTyped,
         SnappersTyped, LogTyped, TimesTyped, storage, times, walHist
  <1>6. CASE ReplayEntry(r)
    <2> DEFINE rest == restorer[r].entries
    <2>1. rest \in Seq(Entry) /\ restorer[r].got \in Content
      BY <1>0 DEF RestorerState
    <2>2. ASSUME rest # <<>>
          PROVE  /\ Head(rest).q \in Queries /\ Tail(rest) \in Seq(Entry)
                 /\ Append(db, Head(rest).q) \in Content
                 /\ Append(restorer[r].got, Head(rest).q) \in Content
      <3>1. Head(rest) \in Entry /\ Tail(rest) \in Seq(Entry)
        BY <2>1, <2>2, ValuesTail
      <3>2. Head(rest).q \in Queries
        BY <3>1 DEF Entry
      <3> QED
        BY <2>1, <3>1, <3>2 DEF StoreTyped, Content
    <2>3. CASE \E c \in {"file", "archive"} :
                  restorer' = [restorer EXCEPT ![r].pc = c, ![r].entries = <<>>]
               /\ UNCHANGED <<db, past, bounds>>
      <3>1. RestorersTyped'
        <4>1. PICK c \in {"file", "archive"} :
                restorer' = [restorer EXCEPT ![r].pc = c, ![r].entries = <<>>]
          BY <2>3
        <4> DEFINE x == [restorer[r] EXCEPT !.pc = c, !.entries = <<>>]
        <4>2. restorer' = [restorer EXCEPT ![r] = x]
          BY <1>0, <4>1
        <4>3. <<>> \in Seq(Entry)
          OBVIOUS
        <4>4. x \in RestorerState
          BY <1>0, <4>3 DEF RestorerState
        <4> QED
          BY <4>2, <4>4, RestorerTyped
      <3> QED
        BY <1>6, <2>3, <3>1 DEF ReplayEntry, StoreTyped, LockTyped,
           WorkersTyped, SnappersTyped, LogTyped, TimesTyped, CountsTyped,
           times, walHist, bounds
    <2>4. CASE /\ rest # <<>>
               /\ SetDb(Append(db, Head(rest).q))
               /\ restorer' = [restorer EXCEPT ![r].entries = Tail(rest),
                                    ![r].got = Append(@, Head(rest).q)]
               /\ UNCHANGED bounds
      <3>1. RestorersTyped'
        <4> DEFINE x == [restorer[r] EXCEPT !.entries = Tail(rest),
                              !.got = Append(@, Head(rest).q)]
        <4>1. restorer' = [restorer EXCEPT ![r] = x]
          BY <1>0, <2>4
        <4>2. x \in RestorerState
          <5> DEFINE c == Append(restorer[r].got, Head(rest).q)
                     tail == Tail(rest)
          <5>1. c \in Content /\ tail \in Seq(Entry)
            BY <2>2, <2>4
          <5>2. x = [restorer[r] EXCEPT !.entries = tail, !.got = c]
            BY <1>0 DEF RestorerState
          <5> HIDE DEF c, tail, x
          <5> QED
            BY <1>0, <5>1, <5>2 DEF RestorerState
        <4> QED
          BY <4>1, <4>2, RestorerTyped
      <3>2. StoreTyped'
        BY <1>6, <2>2, <2>4, SetDbTyped DEF ReplayEntry
      <3> QED
        BY <1>6, <2>4, <3>1, <3>2 DEF ReplayEntry, LockTyped, WorkersTyped,
           SnappersTyped, LogTyped, TimesTyped, CountsTyped, times, walHist,
           bounds
    <2>5. CASE /\ rest # <<>>
               /\ Fault \/ UNCHANGED bounds
               /\ restorer' = [restorer EXCEPT ![r].entries = Tail(rest)]
               /\ UNCHANGED <<db, past>>
      <3>1. RestorersTyped'
        BY ZenonT(40), <2>2, <2>5 DEF RestorersTyped, RestorerState
      <3>2. CountsTyped'
        BY <1>0, <1>6, <2>5, FaultTyped DEF ReplayEntry, walHist, bounds,
           CountsTyped
      <3> QED
        BY <1>6, <2>5, <3>1, <3>2 DEF ReplayEntry, StoreTyped, LockTyped,
           WorkersTyped, SnappersTyped, LogTyped, TimesTyped, times, walHist
    <2> QED
      BY <1>6, <2>3, <2>4, <2>5 DEF ReplayEntry
  <1>7. CASE Archived(r)
    <2>1. RestorersTyped'
      <3> DEFINE c == IF snapper[r].ok THEN "delete" ELSE "release"
                 x == [restorer[r] EXCEPT !.pc = c, !.ok = TRUE]
      <3>1. restorer' = [restorer EXCEPT ![r] = x]
        BY <1>0, <1>7 DEF Archived
      <3>2. c \in {"delete", "release"}
        OBVIOUS
      <3> HIDE DEF c
      <3>3. x \in RestorerState
        BY <1>0, <3>2 DEF RestorerState
      <3> QED
        BY <3>1, <3>3, RestorerTyped
    <2> QED
      BY <1>7, <2>1 DEF Archived, StoreTyped, LockTyped, WorkersTyped,
         SnappersTyped, LogTyped, TimesTyped, CountsTyped, storage, times,
         walHist, bounds
  <1>8. CASE DeleteWal(r)
    <2>1. RestorersTyped'
      <3>1. CASE restorer' = [restorer EXCEPT ![r].pc = "release"]
        BY <3>1, RestorerMoves
      <3>2. ASSUME NEW s \in restorer[r].files,
                   restorer' = [restorer EXCEPT ![r].files = @ \ {s}]
            PROVE  RestorersTyped'
        BY ZenonT(40), <3>2 DEF RestorersTyped, RestorerState
      <3> QED
        BY <1>8, <3>1, <3>2 DEF DeleteWal
    <2>2. StoreTyped'
      <3>1. <<>> \in Seq(Entry)
        OBVIOUS
      <3>2. \/ wal' = wal
            \/ \E s \in restorer[r].files : wal' = [wal EXCEPT ![s] = <<>>]
        BY <1>8 DEF DeleteWal
      <3> QED
        BY <1>8, <3>1, <3>2 DEF DeleteWal, StoreTyped
    <2>3. LogTyped'
      <3>1. ASSUME NEW s \in restorer[r].files
            PROVE  {e.q : e \in Values(wal[s])} \subseteq Queries
        <4>1. wal[s] \in Seq(Entry)
          BY <1>0 DEF RestorerState, StoreTyped
        <4>2. \A e \in Entry : e.q \in Queries
          BY DEF Entry
        <4> QED
          BY <4>1, <4>2, ValuesTyped
      <3>2. \/ UNCHANGED <<purged, spent>>
            \/ \E s \in restorer[r].files :
                 LET dropped == {e.q : e \in Values(wal[s])}
                 IN  /\ purged' = purged \cup dropped
                     /\ spent' = spent \cup (dropped \cap Values(restorer[r].got))
        BY <1>8 DEF DeleteWal
      <3>3. logged' = logged
        BY <1>8 DEF DeleteWal
      <3> QED
        BY <3>1, <3>2, <3>3 DEF LogTyped
    <2>4. CountsTyped'
      BY <1>0, <1>8, FaultTyped DEF DeleteWal
    <2> QED
      BY <1>8, <2>1, <2>2, <2>3, <2>4 DEF DeleteWal, LockTyped, WorkersTyped,
         SnappersTyped, TimesTyped, times
  <1>9. CASE ReleaseRestore(r)
    <2>1. LockTyped'
      BY <1>0, <1>9, AcquireTyped DEF ReleaseRestore
    <2>2. RestorersTyped'
      BY <1>9, RestorerMoves DEF ReleaseRestore
    <2> QED
      BY <1>9, <2>1, <2>2 DEF ReleaseRestore, StoreTyped, WorkersTyped,
         SnappersTyped, LogTyped, TimesTyped, CountsTyped, storage, times,
         walHist, bounds
  <1>10. CASE RestoreFails(r)
    <2>1. RestorersTyped'
      BY <1>10, RestorerMoves DEF RestoreFails
    <2>2. SnappersTyped'
      BY <1>0, <1>10 DEF RestoreFails, SnappersTyped, SnapperState
    <2>3. CountsTyped'
      BY <1>0, <1>10, FaultTyped DEF RestoreFails, walHist
    <2> QED
      BY <1>10, <2>1, <2>2, <2>3 DEF RestoreFails, StoreTyped, LockTyped,
         WorkersTyped, LogTyped, TimesTyped, storage, times, walHist
  <1> QED
    BY <1>1, <1>2, <1>3, <1>4, <1>5, <1>6, <1>7, <1>8, <1>9, <1>10
    DEF RestoreStep

LEMMA TypeInvTick ==
    ASSUME TypeInv, Tick
    PROVE  TypeInv'
  <1> USE DEF TypeInv
  <1>1. StoreTyped'
    BY PitrAssumption DEF Tick, StoreTyped, Time, storage
  <1> QED
    BY <1>1 DEF Tick, LockTyped, WorkersTyped, SnappersTyped, RestorersTyped,
       LogTyped, TimesTyped, CountsTyped, procs, times, walHist, bounds

LEMMA TypeInvLease ==
    ASSUME TypeInv, NEW n \in Locks, LeaseExpires(n)
    PROVE  TypeInv'
  <1> USE DEF TypeInv
  <1>1. LockTyped'
    BY DEF LeaseExpires, LockTyped
  <1>2. CountsTyped'
    <2>1. slow' \in 0..MaxMishaps
      BY PitrAssumption DEF LeaseExpires, CountsTyped
    <2> QED
      BY <2>1 DEF LeaseExpires, CountsTyped, walHist
  <1> QED
    BY <1>1, <1>2 DEF LeaseExpires, StoreTyped, WorkersTyped, SnappersTyped,
       RestorersTyped, LogTyped, TimesTyped, storage, procs, times, walHist

LEMMA TypeInvCorrect == Spec => []TypeInv
  <1>1. ASSUME TypeInv, [Next]_vars
        PROVE  TypeInv'
    <2>1. CASE UNCHANGED vars
      BY <1>1, <2>1 DEF TypeInv, StoreTyped, LockTyped, WorkersTyped,
         SnappersTyped, RestorersTyped, LogTyped, TimesTyped, CountsTyped,
         vars, storage, procs, times, walHist, bounds
    <2> QED
      BY <1>1, <2>1, TypeInvTick, TypeInvWorker, TypeInvSnap, TypeInvRestore,
         TypeInvLease DEF Next
  <1> QED
    BY <1>1, TypeInvInit, PTL DEF Spec

\* Every variable of the model keeps the type TypeOK gives it; in particular
\* every WAL object lies at the start of a second, as _append_wal_entry names it.
THEOREM TypeCorrect == Spec => []TypeOK
  BY TypeInvCorrect, TypeInvIsTypeOK, PTL

-----------------------------------------------------------------------------
(* When the mutations were executed                                         *)

\* By the times x, the mutations in c were executed at t at the latest.
Before(x, c, t) == \A q \in Values(c) : x[q] <= t

\* A WAL entry is stamped after its mutation was executed.
Dated(x, entries) == \A e \in Values(entries) : x[e.q] <= e.ts

DbDated == Before(execAt, db, now)

WorkersDated ==
    \A w \in Workers :
        /\ worker[w].pc = "stamp" => execAt[worker[w].q] <= now
        /\ worker[w].pc \in {"acquire", "read", "upload", "release"}
              => execAt[worker[w].q] <= worker[w].ts
        /\ Dated(execAt, worker[w].prior)

WalDated == \A s \in Seconds : Dated(execAt, wal[s])

\* SnapCopy copies the past, and SnapSave dates the copy later still.
SnapsDated ==
    /\ \A p \in SnapReqs : Before(execAt, snapper[p].content, now)
    /\ \A s \in snaps : Before(execAt, s.content, s.at)

RestorersDated ==
    \A r \in Restorers :
        /\ restorer[r].target <= now
        /\ restorer[r].pc = "idle" => restorer[r].got = <<>>
        /\ Before(execAt, restorer[r].snap.content, restorer[r].target)
        /\ Before(execAt, restorer[r].got, restorer[r].target)
        /\ Dated(execAt, restorer[r].entries)

DatedInv == DbDated /\ WorkersDated /\ WalDated /\ SnapsDated /\ RestorersDated

LEMMA DatedInit == Init => DatedInv
  <1> SUFFICES ASSUME Init PROVE DatedInv
    OBVIOUS
  <1>1. \A t : Before(execAt, <<>>, t) /\ Dated(execAt, <<>>)
    BY ValuesEmpty DEF Before, Dated
  <1>2. DbDated /\ WalDated
    BY <1>1 DEF Init, DbDated, WalDated
  <1>3. WorkersDated
    BY <1>1 DEF Init, WorkersDated, Resting
  <1>4. SnapsDated
    BY <1>1 DEF Init, SnapsDated, FirstSnapshot
  <1>5. RestorersDated
    BY <1>1 DEF Init, RestorersDated, FirstSnapshot
  <1> QED
    BY <1>2, <1>3, <1>4, <1>5 DEF DatedInv

\* The times y are those of x, or earlier.
Earlier(x, y) == \A q \in Queries : x[q] \in Nat /\ y[q] \in Nat /\ y[q] <= x[q]

LEMMA BeforeLater ==
    ASSUME NEW x, NEW y, Earlier(x, y), NEW c \in Content,
           NEW t \in Nat, NEW u \in Nat, t <= u, Before(x, c, t)
    PROVE  Before(y, c, u)
  <1> SUFFICES ASSUME NEW q \in Values(c)
               PROVE  y[q] <= u
    BY DEF Before
  <1>1. q \in Queries
    BY ValuesTyped DEF Content
  <1> QED
    BY <1>1 DEF Before, Earlier

LEMMA BeforeAppend ==
    ASSUME NEW y, NEW c \in Content, NEW q \in Queries, NEW t,
           Before(y, c, t), y[q] <= t
    PROVE  Before(y, Append(c, q), t)
  BY ValuesAppend DEF Before, Content

LEMMA DatedEarlier ==
    ASSUME NEW x, NEW y, Earlier(x, y), NEW es \in Seq(Entry), Dated(x, es)
    PROVE  Dated(y, es)
  <1> SUFFICES ASSUME NEW e \in Values(es)
               PROVE  y[e.q] <= e.ts
    BY DEF Dated
  <1>1. e \in Entry
    BY ValuesTyped
  <1>2. e.q \in Queries /\ e.ts \in Nat
    BY <1>1, PitrAssumption DEF Entry, Time
  <1> QED
    BY <1>2 DEF Dated, Earlier

\* A mutation is executed once, so a bound on its time stays one.
LEMMA ExecutedOnce ==
    ASSUME TypeInv, TypeInv', [Next]_vars
    PROVE  /\ Earlier(execAt, execAt')
           /\ now \in Nat /\ now' \in Nat /\ now <= now'
  <1>1. MaxTime \in Nat /\ Time \subseteq Nat
    BY PitrAssumption DEF Time
  <1>2. /\ now \in Nat /\ now' \in Nat /\ now <= MaxTime
        /\ \A q \in Queries : execAt[q] \in Nat /\ execAt'[q] \in Nat
    BY <1>1 DEF TypeInv, StoreTyped, TimesTyped, Time
  <1>3. now' = now \/ now' = now + 1
    BY DEF Next, Tick, WorkerStep, SnapStep, RestoreStep, LeaseExpires,
       Execute, Stamp, AcquireWal, ReadPrior, Upload, ReleaseWal, WorkerDies,
       SnapStart, SnapCopy, SnapSave, SnapFails, SnapRelease, FindSnapshot,
       AcquireRestore, Swap, ListWal, ReadFile, ReplayEntry, Archived,
       DeleteWal, ReleaseRestore, RestoreFails, vars
  <1>4. \/ execAt' = execAt
        \/ \E w \in Workers, q \in Queries : Execute(w, q)
    BY DEF Next, Tick, WorkerStep, SnapStep, RestoreStep, LeaseExpires,
       Stamp, AcquireWal, ReadPrior, Upload, ReleaseWal, WorkerDies,
       SnapStart, SnapCopy, SnapSave, SnapFails, SnapRelease, FindSnapshot,
       AcquireRestore, Swap, ListWal, ReadFile, ReplayEntry, Archived,
       DeleteWal, ReleaseRestore, RestoreFails, vars, times
  <1>5. ASSUME NEW w \in Workers, NEW q \in Queries, Execute(w, q)
        PROVE  \A u \in Queries : execAt'[u] <= execAt[u]
    BY <1>1, <1>2, <1>5 DEF Execute, TypeInv, TimesTyped
  <1> QED
    BY <1>1, <1>2, <1>3, <1>4, <1>5 DEF Earlier

LEMMA DbDatedStep ==
    ASSUME TypeInv, TypeInv', DatedInv, [Next]_vars
    PROVE  DbDated'
  <1>0. /\ Earlier(execAt, execAt')
        /\ now \in Nat /\ now' \in Nat /\ now <= now'
    BY ExecutedOnce
  <1>1. db \in Content /\ Before(execAt', db, now')
    BY <1>0, BeforeLater DEF TypeInv, StoreTyped, DatedInv, DbDated
  <1>2. \/ db' = db
        \/ \E w \in Workers, q \in Queries : Execute(w, q)
        \/ \E r \in Restorers : Swap(r) \/ ReplayEntry(r)
    BY DEF Next, Tick, WorkerStep, SnapStep, RestoreStep, LeaseExpires,
       Stamp, AcquireWal, ReadPrior, Upload, ReleaseWal, WorkerDies,
       SnapStart, SnapCopy, SnapSave, SnapFails, SnapRelease, FindSnapshot,
       AcquireRestore, ListWal, ReadFile, Archived, DeleteWal, ReleaseRestore,
       RestoreFails, vars, storage
  <1>3. CASE db' = db
    BY <1>1, <1>3 DEF DbDated
  <1>4. ASSUME NEW w \in Workers, NEW q \in Queries, Execute(w, q)
        PROVE  DbDated'
    <2>1. execAt'[q] <= now' /\ (db' = db \/ db' = Append(db, q))
      BY <1>0, <1>4 DEF Execute, SetDb, TypeInv, TimesTyped
    <2> QED
      BY <1>1, <2>1, BeforeAppend DEF DbDated
  <1>5. ASSUME NEW r \in Restorers, Swap(r)
        PROVE  DbDated'
    <2>1. /\ restorer[r].snap.content \in Content
          /\ restorer[r].target \in Nat /\ restorer[r].target <= now
          /\ Before(execAt, restorer[r].snap.content, restorer[r].target)
      BY PitrAssumption DEF TypeInv, RestorersTyped, RestorerState, Snapshot,
         Time, DatedInv, RestorersDated
    <2>2. restorer[r].target <= now'
      BY <1>0, <2>1
    <2>3. db' = restorer[r].snap.content
      BY <1>5 DEF Swap, SetDb
    <2> QED
      BY <1>0, <2>1, <2>2, <2>3, BeforeLater DEF DbDated
  <1>6. ASSUME NEW r \in Restorers, ReplayEntry(r)
        PROVE  DbDated'
    <2> DEFINE e == Head(restorer[r].entries)
    <2>1. CASE db' = db
      BY <1>3, <2>1
    <2>2. CASE /\ restorer[r].entries # <<>>
               /\ e.ts <= restorer[r].target
               /\ db' = Append(db, e.q)
      <3>1. /\ restorer[r].entries \in Seq(Entry)
            /\ restorer[r].target \in Nat /\ restorer[r].target <= now
            /\ Dated(execAt, restorer[r].entries)
        BY PitrAssumption DEF TypeInv, RestorersTyped, RestorerState, Time,
           DatedInv, RestorersDated
      <3>2. e \in Entry /\ e \in Values(restorer[r].entries)
        BY <2>2, <3>1, ValuesTail
      <3>3. e.q \in Queries /\ e.ts \in Nat /\ execAt[e.q] <= e.ts
        BY <3>1, <3>2, PitrAssumption DEF Entry, Time, Dated
      <3>4. execAt'[e.q] <= now'
        <4> HIDE DEF e
        <4>1. /\ execAt'[e.q] \in Nat /\ execAt[e.q] \in Nat
              /\ execAt'[e.q] <= execAt[e.q]
          BY <1>0, <3>3 DEF Earlier
        <4> QED
          BY <1>0, <2>2, <3>1, <3>3, <4>1
      <3> QED
        BY <1>1, <2>2, <3>3, <3>4, BeforeAppend DEF DbDated
    <2> QED
      BY <1>6, <2>1, <2>2 DEF ReplayEntry, SetDb
  <1> QED
    BY <1>2, <1>3, <1>4, <1>5, <1>6

LEMMA WorkersDatedStep ==
    ASSUME TypeInv, TypeInv', DatedInv, [Next]_vars
    PROVE  WorkersDated'
  <1> SUFFICES ASSUME NEW w \in Workers
               PROVE  /\ worker'[w].pc = "stamp" => execAt'[worker'[w].q] <= now'
                      /\ worker'[w].pc \in {"acquire", "read", "upload", "release"}
                            => execAt'[worker'[w].q] <= worker'[w].ts
                      /\ Dated(execAt', worker'[w].prior)
    BY DEF WorkersDated
  <1>0. /\ Earlier(execAt, execAt')
        /\ now \in Nat /\ now' \in Nat /\ now <= now'
    BY ExecutedOnce
  <1>1. /\ worker[w] \in WorkerState
        /\ worker[w].pc # "idle" => worker[w].q \in Queries
        /\ worker[w].ts \in Nat /\ worker[w].prior \in Seq(Entry)
    BY PitrAssumption DEF TypeInv, WorkersTyped, WorkerState, Time
  <1>2. /\ worker[w].pc = "stamp" => execAt'[worker[w].q] <= now'
        /\ worker[w].pc \in {"acquire", "read", "upload", "release"}
              => execAt'[worker[w].q] <= worker[w].ts
        /\ Dated(execAt', worker[w].prior)
    BY SMTT(30), <1>0, <1>1, DatedEarlier DEF Earlier, DatedInv, WorkersDated
  <1>3. Dated(execAt', <<>>)
    BY ValuesEmpty DEF Dated
  <1>4. \/ \E q \in Queries : Execute(w, q)
        \/ Stamp(w) \/ AcquireWal(w) \/ ReadPrior(w) \/ Upload(w)
        \/ ReleaseWal(w) \/ WorkerDies(w)
        \/ /\ worker'[w].pc = worker[w].pc /\ worker'[w].q = worker[w].q
           /\ worker'[w].ts = worker[w].ts /\ worker'[w].prior = worker[w].prior
    <2>1. ASSUME NEW v \in Workers, v # w, WorkerStep(v)
          PROVE  worker'[w] = worker[w]
      BY <2>1 DEF WorkerStep, Execute, Stamp, AcquireWal, ReadPrior, Upload,
         ReleaseWal, WorkerDies, TypeInv, WorkersTyped
    <2>2. ASSUME NEW r \in Restorers, Swap(r)
          PROVE  /\ worker'[w].pc = worker[w].pc /\ worker'[w].q = worker[w].q
                 /\ worker'[w].ts = worker[w].ts
                 /\ worker'[w].prior = worker[w].prior
      <3>1. worker'[w] = [worker[w] EXCEPT
                            !.conn = IF @ = "path" THEN "moved" ELSE @]
        BY <2>2 DEF Swap
      <3> QED
        BY <1>1, <3>1 DEF WorkerState
    <2>3. \/ worker' = worker
          \/ \E v \in Workers : WorkerStep(v)
          \/ \E r \in Restorers : Swap(r)
      BY DEF Next, Tick, SnapStep, RestoreStep, LeaseExpires,
         SnapStart, SnapCopy, SnapSave, SnapFails, SnapRelease, FindSnapshot,
         AcquireRestore, ListWal, ReadFile, ReplayEntry, Archived, DeleteWal,
         ReleaseRestore, RestoreFails, vars, procs
    <2> QED
      BY <2>1, <2>2, <2>3 DEF WorkerStep
  <1>5. ASSUME NEW q \in Queries, Execute(w, q)
        PROVE  /\ worker'[w].pc = "idle" \/ /\ worker'[w].pc = "stamp"
                                            /\ worker'[w].q = q
               /\ worker'[w].prior = <<>>
               /\ execAt'[q] <= now'
    <2>1. execAt'[q] <= now'
      BY <1>0, <1>5 DEF Execute, TypeInv, TimesTyped
    <2>2. PICK c : worker' = [worker EXCEPT ![w] =
              IF q \in Detected
              THEN [Resting(c) EXCEPT !.pc = "stamp", !.q = q] ELSE Resting(c)]
      BY <1>5 DEF Execute
    <2> QED
      BY <2>1, <2>2 DEF Resting, TypeInv, WorkersTyped
  <1>6. ASSUME Stamp(w)
        PROVE  /\ worker'[w].pc = "acquire" /\ worker'[w].q = worker[w].q
               /\ worker'[w].ts = now' /\ worker'[w].prior = worker[w].prior
               /\ worker[w].pc = "stamp"
    BY <1>6 DEF Stamp, TypeInv, WorkersTyped, WorkerState
  <1>7. ASSUME AcquireWal(w) \/ ReleaseWal(w) \/ WorkerDies(w)
        PROVE  \/ worker'[w].pc = "idle" /\ worker'[w].prior = <<>>
               \/ /\ worker[w].pc = "acquire" /\ worker'[w].pc = "read"
                  /\ worker'[w].q = worker[w].q /\ worker'[w].ts = worker[w].ts
                  /\ worker'[w].prior = worker[w].prior
    <2>1. CASE worker' = [worker EXCEPT ![w].pc = "read"] /\ worker[w].pc = "acquire"
      BY <2>1 DEF TypeInv, WorkersTyped, WorkerState
    <2>2. ASSUME NEW c, worker' = [worker EXCEPT ![w] = Resting(c)]
          PROVE  worker'[w].pc = "idle" /\ worker'[w].prior = <<>>
      BY <2>2 DEF TypeInv, WorkersTyped, Resting
    <2> QED
      BY <1>7, <2>1, <2>2 DEF AcquireWal, ReleaseWal, WorkerDies
  <1>8. ASSUME ReadPrior(w)
        PROVE  /\ worker[w].pc = "read" /\ worker'[w].pc = "upload"
               /\ worker'[w].q = worker[w].q /\ worker'[w].ts = worker[w].ts
               /\ Dated(execAt', worker'[w].prior)
    <2>1. Floor(worker[w].ts) \in Seconds
      BY <1>1, FloorIsSecond DEF WorkerState
    <2>2. Dated(execAt', wal[Floor(worker[w].ts)])
      BY <1>0, <2>1, DatedEarlier DEF TypeInv, StoreTyped, DatedInv, WalDated
    <2>3. PICK s : /\ worker' = [worker EXCEPT ![w].pc = "upload", ![w].prior = s]
                   /\ s = <<>> \/ s = wal[Floor(worker[w].ts)]
      BY <1>8 DEF ReadPrior
    <2>4. worker[w].pc = "read"
      BY <1>8 DEF ReadPrior
    <2>5. /\ worker'[w].pc = "upload" /\ worker'[w].prior = s
          /\ worker'[w].q = worker[w].q /\ worker'[w].ts = worker[w].ts
      BY <2>3 DEF TypeInv, WorkersTyped, WorkerState
    <2> QED
      BY <1>3, <2>2, <2>3, <2>4, <2>5
  <1>9. ASSUME Upload(w)
        PROVE  /\ worker[w].pc = "upload" /\ worker'[w].pc = "release"
               /\ worker'[w].q = worker[w].q /\ worker'[w].ts = worker[w].ts
               /\ worker'[w].prior = worker[w].prior
    BY <1>9 DEF Upload, TypeInv, WorkersTyped, WorkerState
  <1>10. CASE \E q \in Queries : Execute(w, q)
    BY <1>3, <1>5, <1>10
  <1>11. CASE Stamp(w)
    <2>1. now' = now
      BY <1>11 DEF Stamp
    <2> QED
      BY <1>0, <1>2, <1>6, <1>11
  <1>12. CASE AcquireWal(w) \/ ReleaseWal(w) \/ WorkerDies(w)
    BY <1>2, <1>3, <1>7, <1>12
  <1>13. CASE ReadPrior(w)
    BY <1>2, <1>8, <1>13
  <1>14. CASE Upload(w)
    BY <1>2, <1>9, <1>14
  <1> QED
    BY <1>2, <1>4, <1>10, <1>11, <1>12, <1>13, <1>14

LEMMA WalDatedStep ==
    ASSUME TypeInv, TypeInv', DatedInv, [Next]_vars
    PROVE  WalDated'
  <1>0. Earlier(execAt, execAt')
    BY ExecutedOnce
  <1>1. wal \in [Seconds -> Seq(Entry)]
    BY DEF TypeInv, StoreTyped
  <1>2. \A s \in Seconds : Dated(execAt', wal[s])
    BY <1>0, <1>1, DatedEarlier DEF DatedInv, WalDated
  <1>3. \/ wal' = wal
        \/ \E w \in Workers : Upload(w)
        \/ \E r \in Restorers : DeleteWal(r)
    BY DEF Next, Tick, WorkerStep, SnapStep, RestoreStep, LeaseExpires,
       Execute, Stamp, AcquireWal, ReadPrior, ReleaseWal, WorkerDies,
       SnapStart, SnapCopy, SnapSave, SnapFails, SnapRelease, FindSnapshot,
       AcquireRestore, Swap, ListWal, ReadFile, ReplayEntry, Archived,
       ReleaseRestore, RestoreFails, vars, storage
  <1>4. CASE wal' = wal
    BY <1>2, <1>4 DEF WalDated
  <1>5. ASSUME NEW w \in Workers, Upload(w)
        PROVE  WalDated'
    <2> DEFINE e == [q |-> worker[w].q, ts |-> worker[w].ts]
               es == Append(worker[w].prior, e)
    <2>0. worker[w] \in WorkerState
      BY DEF TypeInv, WorkersTyped
    <2>1. /\ worker[w].prior \in Seq(Entry) /\ e \in Entry
          /\ execAt[worker[w].q] <= worker[w].ts
          /\ worker[w].q \in Queries /\ worker[w].ts \in Nat
          /\ Dated(execAt, worker[w].prior)
      <3>1. /\ worker[w].q \in Queries
            /\ execAt[worker[w].q] <= worker[w].ts
            /\ Dated(execAt, worker[w].prior)
        BY <1>5, <2>0 DEF Upload, TypeInv, WorkersTyped, DatedInv, WorkersDated
      <3>2. worker[w].ts \in Time /\ worker[w].prior \in Seq(Entry)
        BY <2>0 DEF WorkerState
      <3>3. Time \subseteq Nat
        BY PitrAssumption DEF Time
      <3> QED
        BY <3>1, <3>2, <3>3 DEF Entry
    <2>2. Dated(execAt', worker[w].prior)
      BY <1>0, <2>1, DatedEarlier
    <2>3. execAt'[e.q] <= e.ts
      BY <1>0, <2>1 DEF Earlier
    <2>4. Dated(execAt', es)
      <3> HIDE DEF e
      <3> QED
        BY <2>1, <2>2, <2>3, ValuesAppend DEF Dated
    <2>5. wal' = wal \/ wal' = [wal EXCEPT ![Floor(worker[w].ts)] = es]
      BY <1>5 DEF Upload
    <2> HIDE DEF es
    <2> QED
      BY <1>1, <1>2, <2>4, <2>5 DEF WalDated
  <1>6. ASSUME NEW r \in Restorers, DeleteWal(r)
        PROVE  WalDated'
    <2>1. wal' = wal \/ \E s \in restorer[r].files : wal' = [wal EXCEPT ![s] = <<>>]
      BY <1>6 DEF DeleteWal
    <2>2. Dated(execAt', <<>>)
      BY ValuesEmpty DEF Dated
    <2> QED
      BY <1>1, <1>2, <2>1, <2>2 DEF WalDated
  <1> QED
    BY <1>3, <1>4, <1>5, <1>6

LEMMA SnapsDatedStep ==
    ASSUME TypeInv, TypeInv', DatedInv, [Next]_vars
    PROVE  SnapsDated'
  <1>0. /\ Earlier(execAt, execAt')
        /\ now \in Nat /\ now' \in Nat /\ now <= now'
    BY ExecutedOnce
  <1>1. ASSUME NEW p \in SnapReqs
        PROVE  Before(execAt', snapper'[p].content, now')
    <2>1. Before(execAt', snapper[p].content, now')
      BY <1>0, BeforeLater DEF TypeInv, SnappersTyped, SnapperState, DatedInv,
         SnapsDated
    <2>2. Before(execAt', db, now')
      BY <1>0, BeforeLater DEF TypeInv, StoreTyped, DatedInv, DbDated
    <2>3. Before(execAt', <<>>, now')
      BY ValuesEmpty DEF Before
    <2>4. \/ snapper' = snapper
          \/ \E u \in SnapReqs : SnapStep(u)
          \/ \E r \in Restorers : RestoreFails(r)
      BY DEF Next, Tick, WorkerStep, RestoreStep, LeaseExpires, Execute,
         Stamp, AcquireWal, ReadPrior, Upload, ReleaseWal, WorkerDies,
         FindSnapshot, AcquireRestore, Swap, ListWal, ReadFile, ReplayEntry,
         Archived, DeleteWal, ReleaseRestore, vars, procs
    <2>5. snapper \in [SnapReqs -> SnapperState]
      BY DEF TypeInv, SnappersTyped
    <2>6. ASSUME NEW u \in SnapReqs, SnapStep(u)
          PROVE  snapper'[p].content \in {snapper[p].content, db, <<>>}
      BY <2>5, <2>6 DEF SnapStep, SnapStart, SnapCopy, SnapSave, SnapFails,
         SnapRelease, SnapperState
    <2>7. ASSUME NEW r \in Restorers, RestoreFails(r)
          PROVE  snapper'[p].content = snapper[p].content
      BY <2>5, <2>7 DEF RestoreFails, SnapperState
    <2> QED
      BY <2>1, <2>2, <2>3, <2>4, <2>6, <2>7
  <1>2. ASSUME NEW s \in snaps'
        PROVE  Before(execAt', s.content, s.at)
    <2>1. CASE s \in snaps
      <3>1. /\ s.content \in Content /\ s.at \in Nat
            /\ Before(execAt, s.content, s.at)
        BY <2>1, PitrAssumption DEF TypeInv, StoreTyped, Snapshot, Time,
           DatedInv, SnapsDated
      <3> QED
        BY <1>0, <3>1, BeforeLater
    <2>2. ASSUME NEW p \in SnapReqs, s.at = now, s.content = snapper[p].content
          PROVE  Before(execAt', s.content, s.at)
      <3>1. /\ snapper[p].content \in Content
            /\ Before(execAt, snapper[p].content, now)
        BY DEF TypeInv, SnappersTyped, SnapperState, DatedInv, SnapsDated
      <3> QED
        BY <1>0, <2>2, <3>1, BeforeLater
    <2>3. \/ snaps' = snaps
          \/ \E p \in SnapReqs : SnapSave(p)
      BY ZenonT(40) DEF Next, Tick, WorkerStep, SnapStep, RestoreStep, LeaseExpires,
         Execute, Stamp, AcquireWal, ReadPrior, Upload, ReleaseWal,
         WorkerDies, SnapStart, SnapCopy, SnapFails, SnapRelease,
         FindSnapshot, AcquireRestore, Swap, ListWal, ReadFile, ReplayEntry,
         Archived, DeleteWal, ReleaseRestore, RestoreFails, vars, storage
    <2>4. ASSUME NEW p \in SnapReqs, SnapSave(p)
          PROVE  s \in snaps \/ (s.at = now /\ s.content = snapper[p].content)
      <3>1. snaps' = snaps \cup {[at |-> now, copied |-> snapper[p].copied,
                                  content |-> snapper[p].content]}
        BY <2>4 DEF SnapSave
      <3>2. s \in snaps \/ s = [at |-> now, copied |-> snapper[p].copied,
                                content |-> snapper[p].content]
        BY <1>2, <3>1
      <3> QED
        BY <3>2
    <2> QED
      BY <1>2, <2>1, <2>2, <2>3, <2>4
  <1> QED
    BY <1>1, <1>2 DEF SnapsDated

\* A restore request chooses its target and its snapshot.
Chooses(old, new) ==
    /\ old.pc = "idle" /\ new.pc # "idle"
    /\ new.got = old.got /\ new.entries = old.entries
    /\ new.target \in Time /\ new.target <= now
    /\ new.snap \in Nearest(new.target)

\* It takes over the content of the snapshot, reads a WAL object or replays
\* the next entry, or it does none of this.
Proceeds(old, new) ==
    /\ new.target = old.target /\ new.snap = old.snap
    /\ new.pc = "idle" => old.pc = "idle" /\ new.got = old.got
    /\ \/ new.got = old.got
       \/ new.got = old.snap.content
       \/ /\ old.entries # <<>>
          /\ Head(old.entries).ts <= old.target
          /\ new.got = Append(old.got, Head(old.entries).q)
    /\ \/ new.entries = old.entries \/ new.entries = <<>>
       \/ \E s \in Seconds : new.entries = wal[s]
       \/ old.entries # <<>> /\ new.entries = Tail(old.entries)

LEMMA RestorerEffect ==
    ASSUME TypeInv, [Next]_vars, NEW r \in Restorers
    PROVE  \/ Chooses(restorer[r], restorer'[r])
           \/ Proceeds(restorer[r], restorer'[r])
  <1> DEFINE Goal == \/ Chooses(restorer[r], restorer'[r])
                     \/ Proceeds(restorer[r], restorer'[r])
  <1> USE DEF Chooses, Proceeds
  <1>0. restorer \in [Restorers -> RestorerState] /\ restorer[r] \in RestorerState
    BY DEF TypeInv, RestorersTyped
  <1>1. restorer'[r] = restorer[r] => Goal
    OBVIOUS
  <1>2. restorer' = restorer \/ \E v \in Restorers : RestoreStep(v)
    BY DEF Next, Tick, WorkerStep, SnapStep, LeaseExpires, Execute, Stamp,
       AcquireWal, ReadPrior, Upload, ReleaseWal, WorkerDies, SnapStart,
       SnapCopy, SnapSave, SnapFails, SnapRelease, vars, procs
  <1>3. ASSUME NEW v \in Restorers, v # r, RestoreStep(v)
        PROVE  restorer'[r] = restorer[r]
    BY <1>0, <1>3 DEF RestoreStep, FindSnapshot, AcquireRestore, Swap, ListWal,
       ReadFile, ReplayEntry, Archived, DeleteWal, ReleaseRestore, RestoreFails
  <1>4. ASSUME NEW t \in Time, FindSnapshot(r, t)
        PROVE  Goal
    BY <1>0, <1>4 DEF FindSnapshot, RestorerState
  <1>5. CASE AcquireRestore(r) \/ ReleaseRestore(r) \/ RestoreFails(r)
    <2>1. PICK c \in {"swap", "release", "done"} :
            restorer' = [restorer EXCEPT ![r].pc = c]
      BY <1>5 DEF AcquireRestore, ReleaseRestore, RestoreFails
    <2> QED
      BY <1>0, <2>1 DEF RestorerState
  <1>6. CASE DeleteWal(r)
    <2>1. \/ restorer' = [restorer EXCEPT ![r].pc = "release"]
          \/ \E F : restorer' = [restorer EXCEPT ![r].files = F]
      BY <1>6 DEF DeleteWal
    <2> QED
      BY <1>0, <2>1 DEF RestorerState
  <1>7. CASE Archived(r)
    <2>1. PICK c \in {"delete", "release"} :
            restorer' = [restorer EXCEPT ![r].pc = c, ![r].ok = TRUE]
      BY <1>7 DEF Archived
    <2> QED
      BY <1>0, <2>1 DEF RestorerState
  <1>8. CASE ListWal(r)
    <2>1. \/ restorer' = [restorer EXCEPT ![r].pc = "file"]
          \/ \E F : restorer' = [restorer EXCEPT ![r].pc = "file",
                                 ![r].files = F, ![r].todo = F]
      BY <1>8 DEF ListWal
    <2>2. CASE restorer' = [restorer EXCEPT ![r].pc = "file"]
      BY <1>0, <2>2 DEF RestorerState
    <2>3. ASSUME NEW F, restorer' = [restorer EXCEPT ![r].pc = "file",
                                         ![r].files = F, ![r].todo = F]
          PROVE  Goal
      BY <1>0, <2>3 DEF RestorerState
    <2> QED
      BY <2>1, <2>2, <2>3
  <1>9. CASE Swap(r)
    BY <1>0, <1>9 DEF Swap, RestorerState
  <1>10. CASE ReadFile(r)
    <2>1. \/ restorer' = [restorer EXCEPT ![r].pc = "archive"]
          \/ \E s \in restorer[r].todo :
                \/ restorer' = [restorer EXCEPT ![r].pc = "entry",
                        ![r].todo = @ \ {s}, ![r].entries = wal[s]]
                \/ restorer' = [restorer EXCEPT ![r].todo = @ \ {s}]
      BY <1>10 DEF ReadFile
    <2>2. restorer[r].todo \subseteq Seconds
      BY <1>0 DEF RestorerState
    <2>3. CASE restorer' = [restorer EXCEPT ![r].pc = "archive"]
      BY <1>0, <2>3 DEF RestorerState
    <2>4. ASSUME NEW s, restorer' = [restorer EXCEPT ![r].todo = @ \ {s}]
          PROVE  Goal
      BY <1>0, <2>4 DEF RestorerState
    <2>5. ASSUME NEW s \in Seconds,
                 restorer' = [restorer EXCEPT ![r].pc = "entry",
                        ![r].todo = @ \ {s}, ![r].entries = wal[s]]
          PROVE  Goal
      BY <1>0, <2>5 DEF RestorerState
    <2> QED
      BY <2>1, <2>2, <2>3, <2>4, <2>5
  <1>11. CASE ReplayEntry(r)
    BY <1>0, <1>11 DEF ReplayEntry, RestorerState
  <1> QED
    BY <1>1, <1>2, <1>3, <1>4, <1>5, <1>9, <1>10, <1>11, <1>6,
       <1>7, <1>8 DEF RestoreStep

LEMMA RestorersDatedStep ==
    ASSUME TypeInv, TypeInv', DatedInv, [Next]_vars
    PROVE  RestorersDated'
  <1> SUFFICES ASSUME NEW r \in Restorers
               PROVE  LET new == restorer'[r]
                      IN  /\ new.target <= now'
                          /\ new.pc = "idle" => new.got = <<>>
                          /\ Before(execAt', new.snap.content, new.target)
                          /\ Before(execAt', new.got, new.target)
                          /\ Dated(execAt', new.entries)
    BY DEF RestorersDated
  <1> DEFINE old == restorer[r]
             new == restorer'[r]
  <1>0. /\ Earlier(execAt, execAt')
        /\ now \in Nat /\ now' \in Nat /\ now <= now'
    BY ExecutedOnce
  <1>1. /\ old.target \in Nat /\ old.got \in Content /\ old.snap \in Snapshot
        /\ old.snap.content \in Content /\ old.entries \in Seq(Entry)
    BY PitrAssumption DEF TypeInv, RestorersTyped, RestorerState, Snapshot,
       Time
  <1>2. /\ old.target <= now
        /\ old.pc = "idle" => old.got = <<>>
        /\ Before(execAt, old.snap.content, old.target)
        /\ Before(execAt, old.got, old.target)
        /\ Dated(execAt, old.entries)
    BY DEF DatedInv, RestorersDated
  <1>3. Chooses(old, new) \/ Proceeds(old, new)
    BY RestorerEffect
  <1> HIDE DEF old, new
  <1>4. /\ Before(execAt', old.snap.content, old.target)
        /\ Before(execAt', old.got, old.target)
        /\ Dated(execAt', old.entries)
        /\ old.target <= now'
    BY <1>0, <1>1, <1>2, BeforeLater, DatedEarlier
  <1>5. CASE Chooses(old, new)
    <2>1. /\ new.target \in Nat /\ new.target <= now
          /\ new.pc # "idle" /\ old.pc = "idle"
          /\ new.got = old.got /\ new.entries = old.entries
          /\ new.snap \in snaps /\ new.snap.at <= new.target
      BY <1>5, PitrAssumption DEF Chooses, Nearest, Time
    <2>2. /\ new.snap.content \in Content /\ new.snap.at \in Nat
          /\ Before(execAt, new.snap.content, new.snap.at)
      BY <2>1, PitrAssumption DEF TypeInv, StoreTyped, Snapshot, Time, DatedInv,
         SnapsDated
    <2>3. Before(execAt', new.snap.content, new.target)
      BY <1>0, <2>1, <2>2, BeforeLater
    <2>4. Before(execAt', new.got, new.target)
      BY <1>2, <2>1, ValuesEmpty DEF Before
    <2> QED
      BY <1>0, <1>4, <2>1, <2>3, <2>4 DEF new
  <1>6. CASE Proceeds(old, new)
    <2>1. /\ new.target = old.target /\ new.snap = old.snap
          /\ new.pc = "idle" => new.got = <<>>
      BY <1>2, <1>6 DEF Proceeds
    <2>2. Before(execAt', new.got, old.target)
      <3>1. ASSUME old.entries # <<>>, Head(old.entries).ts <= old.target
            PROVE  Before(execAt', Append(old.got, Head(old.entries).q),
                          old.target)
        <4> DEFINE e == Head(old.entries)
        <4>1. e \in Entry /\ e \in Values(old.entries)
          BY <1>1, <3>1, ValuesTail
        <4>2. e.q \in Queries /\ e.ts \in Nat /\ execAt[e.q] <= e.ts
          BY <1>2, <4>1, PitrAssumption DEF Entry, Time, Dated
        <4>3. e.ts <= old.target
          BY <3>1
        <4> HIDE DEF e
        <4>4. execAt'[e.q] <= old.target
          <5>1. /\ execAt'[e.q] \in Nat /\ execAt[e.q] \in Nat
                /\ execAt'[e.q] <= execAt[e.q]
            BY <1>0, <4>2 DEF Earlier
          <5> QED
            BY <1>1, <4>2, <4>3, <5>1
        <4> QED
          BY <1>1, <1>4, <4>2, <4>4, BeforeAppend DEF e
      <3> QED
        BY <1>4, <1>6, <3>1 DEF Proceeds
    <2>3. Dated(execAt', new.entries)
      <3>1. \A s \in Seconds : Dated(execAt', wal[s])
        BY <1>0, DatedEarlier DEF TypeInv, StoreTyped, DatedInv, WalDated
      <3>2. Dated(execAt', <<>>)
        BY ValuesEmpty DEF Dated
      <3>3. old.entries # <<>> => Dated(execAt', Tail(old.entries))
        BY <1>1, <1>4, ValuesTail DEF Dated
      <3> QED
        BY <1>4, <1>6, <3>1, <3>2, <3>3 DEF Proceeds
    <2> QED
      BY <1>4, <2>1, <2>2, <2>3 DEF new
  <1> QED
    BY <1>3, <1>5, <1>6

LEMMA DatedCorrect == Spec => []DatedInv
  <1>1. ASSUME TypeInv, TypeInv', DatedInv, [Next]_vars
        PROVE  DatedInv'
    BY <1>1, DbDatedStep, WorkersDatedStep, WalDatedStep, SnapsDatedStep,
       RestorersDatedStep DEF DatedInv
  <1> QED
    BY <1>1, DatedInit, TypeInvCorrect, PTL DEF Spec

\* Whatever steps the workers, the snapshots and other restores make while
\* _replay_wal_files works, whatever fails and whichever locks expire, a
\* restore brings back no mutation executed after its target.
THEOREM RestoreStopsAtTarget == Spec => []NothingAfterTarget
  <1>1. DatedInv => NothingAfterTarget
    BY DEF DatedInv, RestorersDated, NothingAfterTarget, Before
  <1> QED
    BY <1>1, DatedCorrect, PTL

-----------------------------------------------------------------------------
(* Concurrent appends                                                       *)

LEMMA OverranStays ==
    ASSUME [Next]_vars
    PROVE  overran \subseteq overran'
  BY ZenonT(40) DEF Next, Tick, WorkerStep, SnapStep, RestoreStep, LeaseExpires, Execute,
     Stamp, AcquireWal, ReadPrior, Upload, ReleaseWal, WorkerDies, SnapStart,
     SnapCopy, SnapSave, SnapFails, SnapRelease, FindSnapshot, AcquireRestore,
     Swap, ListWal, ReadFile, ReplayEntry, Archived, DeleteWal,
     ReleaseRestore, RestoreFails, vars

Appending == {"read", "upload", "release"}

\* As long as no lease of wal_append ran out, only its holder appends.
OneAppends ==
    \A w \in Workers : worker[w].pc \in Appending => lock["wal_append"] = w

\* What the holder read still covers what it will replace.
PriorCovers ==
    \A w \in Workers : worker[w].pc = "upload" =>
        Values(wal[Floor(worker[w].ts)]) \subseteq Values(worker[w].prior)

LoggedIsThere ==
    \A q \in logged \ purged : \E s \in Seconds : \E e \in Values(wal[s]) : e.q = q

AppendInv == \/ misread \/ "wal_append" \in overran
             \/ OneAppends /\ PriorCovers /\ LoggedIsThere

\* Steps that append nothing and neither take nor give the lock.
LEMMA AppendKept ==
    ASSUME OneAppends, PriorCovers, LoggedIsThere,
           lock'["wal_append"] = lock["wal_append"],
           UNCHANGED <<wal, logged, purged>>,
           \A w \in Workers :
              \/ worker'[w].pc \notin Appending
              \/ /\ worker'[w].pc = worker[w].pc /\ worker'[w].ts = worker[w].ts
                 /\ worker'[w].prior = worker[w].prior
    PROVE  OneAppends' /\ PriorCovers' /\ LoggedIsThere'
  <1>1. OneAppends'
    BY DEF OneAppends
  <1>2. PriorCovers'
    BY DEF PriorCovers, Appending
  <1>3. LoggedIsThere'
    BY DEF LoggedIsThere
  <1> QED
    BY <1>1, <1>2, <1>3

LEMMA AppendWorker ==
    ASSUME TypeInv, OneAppends, PriorCovers, LoggedIsThere,
           NEW w \in Workers, WorkerStep(w), ~ misread'
    PROVE  OneAppends' /\ PriorCovers' /\ LoggedIsThere'
  <1>0. /\ worker \in [Workers -> WorkerState] /\ worker[w] \in WorkerState
        /\ wal \in [Seconds -> Seq(Entry)]
        /\ Floor(worker[w].ts) \in Seconds
        /\ lock \in [Locks -> Procs \cup {Nobody}] /\ "wal_append" \in Locks
        /\ Nobody \notin Workers
    BY FloorIsSecond, PitrAssumption DEF TypeInv, WorkersTyped, StoreTyped,
       LockTyped, Locks, WorkerState
  <1> DEFINE Aside == \A v \in Workers : v # w => worker'[v] = worker[v]
  <1>1. ASSUME NEW q \in Queries, Execute(w, q)
        PROVE  OneAppends' /\ PriorCovers' /\ LoggedIsThere'
    <2>1. PICK c : worker' = [worker EXCEPT ![w] =
              IF q \in Detected
              THEN [Resting(c) EXCEPT !.pc = "stamp", !.q = q] ELSE Resting(c)]
      BY <1>1 DEF Execute
    <2>2. Aside /\ worker'[w].pc \in {"idle", "stamp"}
      BY <1>0, <2>1 DEF Resting
    <2>3. lock' = lock /\ UNCHANGED <<wal, logged, purged>>
      BY <1>1 DEF Execute, walHist
    <2> QED
      BY <2>2, <2>3, AppendKept DEF Appending
  <1>2. CASE Stamp(w) \/ WorkerDies(w)
    <2>1. Aside /\ worker'[w].pc \in {"idle", "acquire"}
      BY <1>0, <1>2 DEF Stamp, WorkerDies, Resting, WorkerState
    <2>2. lock' = lock /\ UNCHANGED <<wal, logged, purged>>
      BY <1>2 DEF Stamp, WorkerDies, storage, walHist
    <2> QED
      BY <2>1, <2>2, AppendKept DEF Appending
  <1>3. CASE AcquireWal(w)
    <2>1. CASE /\ worker' = [worker EXCEPT ![w] = Resting(worker[w].conn)]
               /\ lock' = lock
      <3>1. Aside /\ worker'[w].pc = "idle"
        BY <1>0, <2>1 DEF Resting
      <3>2. UNCHANGED <<wal, logged, purged>>
        BY <1>3 DEF AcquireWal, storage, walHist
      <3> QED
        BY <2>1, <3>1, <3>2, AppendKept DEF Appending
    <2>2. CASE /\ Acquire("wal_append", w)
               /\ worker' = [worker EXCEPT ![w].pc = "read"]
      <3>1. Aside /\ worker'[w].pc = "read" /\ lock'["wal_append"] = w
        BY <1>0, <2>2 DEF Acquire
      <3>2. \A v \in Workers : worker[v].pc \notin Appending
        BY <1>0, <2>2 DEF Acquire, OneAppends
      <3>3. UNCHANGED <<wal, logged, purged>>
        BY <1>3 DEF AcquireWal, storage, walHist
      <3>4. OneAppends'
        BY <3>1, <3>2 DEF OneAppends
      <3>5. PriorCovers'
        BY <3>1, <3>2 DEF PriorCovers, Appending
      <3>6. LoggedIsThere'
        BY <3>3 DEF LoggedIsThere
      <3> QED
        BY <3>4, <3>5, <3>6
    <2> QED
      BY <1>3, <2>1, <2>2 DEF AcquireWal
  <1>4. CASE ReadPrior(w)
    <2>1. worker' = [worker EXCEPT ![w].pc = "upload",
                                   ![w].prior = wal[Floor(worker[w].ts)]]
      BY <1>4 DEF ReadPrior
    <2>2. /\ Aside /\ worker'[w].pc = "upload"
          /\ worker'[w].prior = wal[Floor(worker[w].ts)]
          /\ worker'[w].ts = worker[w].ts
      BY <1>0, <2>1 DEF WorkerState
    <2>3. worker[w].pc = "read" /\ lock' = lock /\ UNCHANGED <<wal, logged, purged>>
      BY <1>4 DEF ReadPrior, storage
    <2>4. OneAppends'
      BY <2>2, <2>3 DEF OneAppends, Appending
    <2>5. PriorCovers'
      BY <2>2, <2>3 DEF PriorCovers
    <2>6. LoggedIsThere'
      BY <2>3 DEF LoggedIsThere
    <2> QED
      BY <2>4, <2>5, <2>6
  <1>5. CASE Upload(w)
    <2> DEFINE e == [q |-> worker[w].q, ts |-> worker[w].ts]
               s == Floor(worker[w].ts)
               new == Append(worker[w].prior, e)
    <2>1. /\ worker[w].pc = "upload" /\ worker[w].prior \in Seq(Entry)
          /\ e \in Entry /\ e.q = worker[w].q
      BY <1>0, <1>5 DEF Upload, WorkerState, TypeInv, WorkersTyped, Entry
    <2>2. /\ e \in Values(new) /\ Values(worker[w].prior) \subseteq Values(new)
      BY <2>1, ValuesAppended
    <2>3. Values(wal[s]) \subseteq Values(new)
      BY <2>1, <2>2 DEF PriorCovers
    <2>4. Aside /\ worker'[w].pc = "release" /\ lock' = lock /\ purged' = purged
      BY <1>0, <1>5 DEF Upload
    <2>5. \A v \in Workers : worker'[v].pc # "upload"
      BY <2>1, <2>4 DEF OneAppends, Appending
    <2>6. OneAppends' /\ PriorCovers'
      BY <2>1, <2>4, <2>5 DEF OneAppends, PriorCovers, Appending
    <2>7. LoggedIsThere'
      <3>1. CASE UNCHANGED <<wal, logged>>
        BY <2>4, <3>1 DEF LoggedIsThere
      <3>2. CASE wal' = [wal EXCEPT ![s] = new] /\ logged' = logged \cup {e.q}
        <4>1. /\ \A u \in Seconds : Values(wal[u]) \subseteq Values(wal'[u])
              /\ s \in Seconds /\ e \in Values(wal'[s])
          <5> HIDE DEF e, s, new
          <5>1. s \in Seconds
            BY <1>0 DEF s
          <5> QED
            BY <1>0, <2>2, <2>3, <3>2, <5>1
        <4> HIDE DEF e, s, new
        <4> QED
          BY <2>4, <3>2, <4>1 DEF LoggedIsThere
      <3> QED
        BY <1>5, <2>1, <3>1, <3>2 DEF Upload
    <2> QED
      BY <2>6, <2>7
  <1>6. CASE ReleaseWal(w)
    <2>1. Aside /\ worker'[w].pc = "idle" /\ worker[w].pc = "release"
      BY <1>0, <1>6 DEF ReleaseWal, Resting
    <2>2. \A v \in Workers : worker'[v].pc \notin Appending
      BY <2>1 DEF OneAppends, Appending
    <2>3. UNCHANGED <<wal, logged, purged>>
      BY <1>6 DEF ReleaseWal, storage, walHist
    <2>4. OneAppends' /\ PriorCovers'
      BY <2>2 DEF OneAppends, PriorCovers, Appending
    <2>5. LoggedIsThere'
      BY <2>3 DEF LoggedIsThere
    <2> QED
      BY <2>4, <2>5
  <1> QED
    BY <1>1, <1>2, <1>3, <1>4, <1>5, <1>6 DEF WorkerStep

LEMMA AppendLease ==
    ASSUME TypeInv, OneAppends, PriorCovers, LoggedIsThere,
           NEW n \in Locks, LeaseExpires(n), "wal_append" \notin overran'
    PROVE  OneAppends' /\ PriorCovers' /\ LoggedIsThere'
  <1>1. UNCHANGED <<wal, logged, purged, worker>>
    BY DEF LeaseExpires, storage, procs, walHist
  <1>2. lock \in [Locks -> Procs \cup {Nobody}]
    BY DEF TypeInv, LockTyped
  <1>3. CASE n # "wal_append"
    <2>1. lock'["wal_append"] = lock["wal_append"]
      BY <1>2, <1>3 DEF LeaseExpires, Locks
    <2> QED
      BY <1>1, <2>1, AppendKept
  <1>4. CASE n = "wal_append"
    <2>1. ~ Holds("wal_append", lock["wal_append"])
      BY <1>4 DEF LeaseExpires
    <2>2. \A w \in Workers : worker[w].pc \notin Appending
      BY <2>1 DEF OneAppends, Holds, Appending
    <2>3. OneAppends' /\ PriorCovers'
      BY <1>1, <2>2 DEF OneAppends, PriorCovers, Appending
    <2>4. LoggedIsThere'
      BY <1>1 DEF LoggedIsThere
    <2> QED
      BY <2>3, <2>4
  <1> QED
    BY <1>3, <1>4

LEMMA AppendDelete ==
    ASSUME TypeInv, OneAppends, PriorCovers, LoggedIsThere,
           NEW r \in Restorers, DeleteWal(r)
    PROVE  OneAppends' /\ PriorCovers' /\ LoggedIsThere'
  <1>1. UNCHANGED <<lock, worker, logged>>
    BY DEF DeleteWal
  <1>2. wal \in [Seconds -> Seq(Entry)] /\ restorer[r].files \subseteq Seconds
    BY DEF TypeInv, StoreTyped, RestorersTyped, RestorerState
  <1>3. CASE UNCHANGED <<wal, purged>>
    BY <1>1, <1>3, AppendKept
  <1>4. ASSUME NEW d \in Seconds, wal' = [wal EXCEPT ![d] = <<>>],
               purged' = purged \cup {e.q : e \in Values(wal[d])}
        PROVE  OneAppends' /\ PriorCovers' /\ LoggedIsThere'
    <2>1. OneAppends'
      BY <1>1 DEF OneAppends
    <2>2. \A s \in Seconds : wal'[s] = IF s = d THEN <<>> ELSE wal[s]
      BY <1>2, <1>4
    <2>3. PriorCovers'
      <3> SUFFICES ASSUME NEW w \in Workers, worker[w].pc = "upload"
                   PROVE  Values(wal'[Floor(worker[w].ts)])
                             \subseteq Values(worker[w].prior)
        BY <1>1 DEF PriorCovers, Floor
      <3>1. Floor(worker[w].ts) \in Seconds
        BY FloorIsSecond DEF TypeInv, WorkersTyped, WorkerState
      <3> QED
        BY <2>2, <3>1, ValuesEmpty DEF PriorCovers
    <2>4. LoggedIsThere'
      <3> SUFFICES ASSUME NEW q \in logged, q \notin purged'
                   PROVE  \E s \in Seconds : \E e \in Values(wal'[s]) : e.q = q
        BY <1>1 DEF LoggedIsThere
      <3>1. PICK s \in Seconds : \E e \in Values(wal[s]) : e.q = q
        BY <1>4 DEF LoggedIsThere
      <3>2. s # d
        BY <1>4, <3>1
      <3> QED
        BY <2>2, <3>1, <3>2
    <2> QED
      BY <2>1, <2>3, <2>4
  <1> QED
    BY <1>2, <1>3, <1>4 DEF DeleteWal

LEMMA AppendCorrect == Spec => []AppendInv
  <1>1. Init => AppendInv
    BY DEF Init, AppendInv, OneAppends, PriorCovers, LoggedIsThere, Resting,
       Appending
  <1>2. ASSUME TypeInv, TypeInv', AppendInv, [Next]_vars
        PROVE  AppendInv'
    <2>0. overran \subseteq overran'
      BY <1>2, OverranStays
    <2>1. misread => misread'
      <3>1. UNCHANGED misread \/ misread' = TRUE
        BY ZenonT(40), <1>2 DEF Next, Tick, WorkerStep, SnapStep, RestoreStep, LeaseExpires,
           Execute, Stamp, AcquireWal, ReadPrior, Upload, ReleaseWal,
           WorkerDies, SnapStart, SnapCopy, SnapSave, SnapFails, SnapRelease,
           FindSnapshot, AcquireRestore, Swap, ListWal, ReadFile, ReplayEntry,
           Archived, DeleteWal, ReleaseRestore, RestoreFails, vars,
           walHist
      <3> QED
        BY <3>1
    <2> SUFFICES ASSUME OneAppends, PriorCovers, LoggedIsThere, ~ misread',
                        "wal_append" \notin overran'
                 PROVE  OneAppends' /\ PriorCovers' /\ LoggedIsThere'
      BY <1>2, <2>0, <2>1 DEF AppendInv
    <2>2. CASE Tick \/ UNCHANGED vars
      BY <2>2, AppendKept DEF Tick, vars, storage, procs, walHist
    <2>3. ASSUME NEW p \in SnapReqs, SnapStep(p)
          PROVE  OneAppends' /\ PriorCovers' /\ LoggedIsThere'
      <3>1. /\ lock'["wal_append"] = lock["wal_append"]
            /\ UNCHANGED <<wal, logged, purged, worker>>
        BY <1>2, <2>3 DEF SnapStep, SnapStart, SnapCopy, SnapSave, SnapFails,
           SnapRelease, Acquire, Release, storage, walHist, TypeInv,
           LockTyped, Locks
      <3> QED
        BY <3>1, AppendKept
    <2>4. ASSUME NEW r \in Restorers, RestoreStep(r)
          PROVE  OneAppends' /\ PriorCovers' /\ LoggedIsThere'
      <3>1. CASE DeleteWal(r)
        BY <1>2, <3>1, AppendDelete
      <3>2. CASE Swap(r)
        <4>1. \A w \in Workers : /\ worker'[w].pc = worker[w].pc
                                 /\ worker'[w].ts = worker[w].ts
                                 /\ worker'[w].prior = worker[w].prior
          <5> TAKE w \in Workers
          <5>1. worker'[w] = [worker[w] EXCEPT
                                !.conn = IF @ = "path" THEN "moved" ELSE @]
            BY <3>2 DEF Swap
          <5>2. worker[w] \in WorkerState
            BY <1>2 DEF TypeInv, WorkersTyped
          <5> QED
            BY <5>1, <5>2 DEF WorkerState
        <4>2. lock' = lock /\ UNCHANGED <<wal, logged, purged>>
          BY <3>2 DEF Swap, walHist
        <4> QED
          BY <4>1, <4>2, AppendKept
      <3>3. CASE AcquireRestore(r) \/ ReleaseRestore(r)
        <4>1. /\ lock'["wal_append"] = lock["wal_append"]
              /\ UNCHANGED <<wal, logged, purged, worker>>
          BY <1>2, <3>3 DEF AcquireRestore, ReleaseRestore, Acquire, Release,
             storage, walHist, TypeInv, LockTyped, Locks
        <4> QED
          BY <4>1, AppendKept
      <3>4. CASE \/ \E t \in Time : FindSnapshot(r, t)
                 \/ ListWal(r) \/ ReadFile(r) \/ ReplayEntry(r) \/ Archived(r)
                 \/ RestoreFails(r)
        <4>1. UNCHANGED <<lock, wal, logged, purged, worker>>
          BY <3>4 DEF FindSnapshot, ListWal, ReadFile, ReplayEntry, Archived,
             RestoreFails, storage, walHist
        <4> QED
          BY <4>1, AppendKept
      <3> QED
        BY <2>4, <3>1, <3>2, <3>3, <3>4 DEF RestoreStep
    <2> QED
      BY <1>2, <2>2, <2>3, <2>4, AppendWorker, AppendLease DEF Next
  <1> QED
    BY <1>1, <1>2, TypeInvCorrect, PTL DEF Spec

\* Entries that any number of workers append to one WAL object do not erase
\* each other while _append_wal_entry reads it and its lock lasts.
THEOREM AppendsAreKept == Spec => []AppendsSurvive
  <1>1. AppendInv => AppendsSurvive
    BY DEF AppendInv, LoggedIsThere, AppendsSurvive
  <1> QED
    BY <1>1, AppendCorrect, PTL

-----------------------------------------------------------------------------
(* The archive of a restore                                                 *)

Restoring == {"swap", "list", "file", "entry", "archive", "delete", "release"}

\* While the lease of pitr_restore lasts, what a restore has brought back is
\* in the database, then in the copy made of it, then in a saved snapshot.
ArchiveOf(r) ==
    /\ restorer[r].pc \in Restoring => lock["pitr_restore"] = r
    /\ restorer[r].pc \in {"idle", "acquire", "swap", "list", "file", "entry"}
          => snapper[r].pc = "idle" /\ snapper[r].ok = FALSE
    /\ restorer[r].pc \in {"list", "file", "entry", "archive"}
          => Values(restorer[r].got) \subseteq Values(db)
    /\ restorer[r].pc = "archive" /\ snapper[r].pc = "save"
          => Values(restorer[r].got) \subseteq Values(snapper[r].content)
    /\ restorer[r].pc \in {"archive", "delete"} /\ snapper[r].ok = TRUE
          => \E s \in snaps : Values(restorer[r].got) \subseteq Values(s.content)
    /\ restorer[r].pc = "delete" => snapper[r].ok = TRUE

SpentIsKept == \A q \in spent : \E s \in snaps : q \in Values(s.content)

ArchiveInv == \/ "pitr_restore" \in overran
              \/ SpentIsKept /\ \A r \in Restorers : ArchiveOf(r)

\* Steps that leave a restore request and its own snapshot alone.
LEMMA ArchiveKept ==
    ASSUME NEW r \in Restorers, ArchiveOf(r),
           restorer'[r] = restorer[r], snapper'[r] = snapper[r],
           snaps \subseteq snaps',
           restorer[r].pc \in Restoring => lock'["pitr_restore"] = r,
           restorer[r].pc \in {"list", "file", "entry", "archive"}
               => Values(db) \subseteq Values(db')
    PROVE  ArchiveOf(r)'
  BY DEF ArchiveOf

LEMMA SpentKept ==
    ASSUME SpentIsKept, spent' = spent, snaps \subseteq snaps'
    PROVE  SpentIsKept'
  BY DEF SpentIsKept

LEMMA ArchiveWorker ==
    ASSUME TypeInv, SpentIsKept, \A r \in Restorers : ArchiveOf(r),
           NEW w \in Workers, WorkerStep(w)
    PROVE  SpentIsKept' /\ \A r \in Restorers : ArchiveOf(r)'
  <1>1. UNCHANGED <<restorer, snapper, snaps, spent>>
    BY DEF WorkerStep, Execute, Stamp, AcquireWal, ReadPrior, Upload,
       ReleaseWal, WorkerDies, storage, walHist
  <1>2. lock'["pitr_restore"] = lock["pitr_restore"]
    BY DEF WorkerStep, Execute, Stamp, AcquireWal, ReadPrior, Upload,
       ReleaseWal, WorkerDies, Acquire, Release, TypeInv, LockTyped, Locks
  <1>3. db' = db \/ \E q \in Queries : db' = Append(db, q)
    BY DEF WorkerStep, Execute, Stamp, AcquireWal, ReadPrior, Upload,
       ReleaseWal, WorkerDies, SetDb, storage
  <1>4. Values(db) \subseteq Values(db')
    BY <1>3, ValuesAppended DEF TypeInv, StoreTyped, Content
  <1>5. ASSUME NEW r \in Restorers
        PROVE  ArchiveOf(r)'
    <2>1. restorer[r].pc \in Restoring => lock'["pitr_restore"] = r
      BY <1>2 DEF ArchiveOf
    <2> QED
      BY <1>1, <1>4, <2>1, ArchiveKept
  <1> QED
    BY <1>1, <1>5, SpentKept

LEMMA ArchiveSnap ==
    ASSUME TypeInv, SpentIsKept, \A r \in Restorers : ArchiveOf(r),
           NEW p \in SnapReqs, SnapStep(p)
    PROVE  SpentIsKept' /\ \A r \in Restorers : ArchiveOf(r)'
  <1>0. /\ snapper \in [SnapReqs -> SnapperState] /\ snapper[p] \in SnapperState
        /\ Restorers \subseteq SnapReqs
    BY DEF TypeInv, SnappersTyped, SnapReqs
  <1>1. UNCHANGED <<restorer, db, spent>> /\ snaps \subseteq snaps'
    BY DEF SnapStep, SnapStart, SnapCopy, SnapSave, SnapFails, SnapRelease,
       storage, walHist
  <1>2. lock'["pitr_restore"] = lock["pitr_restore"]
    BY DEF SnapStep, SnapStart, SnapCopy, SnapSave, SnapFails, SnapRelease,
       Acquire, Release, TypeInv, LockTyped, Locks
  <1>3. ASSUME NEW r \in Restorers, r # p
        PROVE  ArchiveOf(r)'
    <2>1. snapper'[r] = snapper[r]
      BY <1>0, <1>3 DEF SnapStep, SnapStart, SnapCopy, SnapSave, SnapFails,
         SnapRelease
    <2>2. restorer[r].pc \in Restoring => lock'["pitr_restore"] = r
      BY <1>2 DEF ArchiveOf
    <2> QED
      BY <1>1, <2>1, <2>2, ArchiveKept
  <1>4. ASSUME p \in Restorers
        PROVE  ArchiveOf(p)'
    <2>0. ArchiveOf(p)
      BY <1>4
    <2>1. CASE SnapStart(p)
      <3>1. restorer[p].pc = "archive" /\ snapper[p].pc = "idle"
        BY <1>4, <2>1 DEF SnapStart
      <3>2. snapper'[p].pc \in {"copy", "done"} /\ snapper'[p].ok = snapper[p].ok
        BY <1>0, <2>1 DEF SnapStart, SnapperState
      <3> QED
        BY <1>1, <1>2, <2>0, <3>1, <3>2 DEF ArchiveOf
    <2>2. CASE SnapCopy(p)
      <3>1. /\ snapper[p].pc = "copy" /\ snapper'[p].pc = "save"
            /\ snapper'[p].ok = snapper[p].ok /\ snapper'[p].content = db
        BY <1>0, <2>2 DEF SnapCopy, SnapperState
      <3> QED
        BY <1>1, <1>2, <2>0, <3>1 DEF ArchiveOf
    <2>3. CASE SnapSave(p)
      <3>1. snapper[p].pc = "save" /\ snapper'[p].pc = "release"
        BY <1>0, <2>3 DEF SnapSave, SnapperState
      <3>2. PICK s \in snaps' : s.content = snapper[p].content
        <4>1. [at |-> now, copied |-> snapper[p].copied,
               content |-> snapper[p].content] \in snaps'
          BY <2>3 DEF SnapSave
        <4> QED
          BY <4>1
      <3>3. restorer[p].pc \notin {"idle", "acquire", "swap", "list", "file",
                                   "entry"}
        BY <2>0, <3>1 DEF ArchiveOf
      <3>4. restorer[p].pc = "delete" => snapper'[p].ok = TRUE
        BY <1>0, <2>3 DEF SnapSave, SnapperState
      <3>5. restorer[p].pc \in {"archive", "delete"} =>
              \E u \in snaps' : Values(restorer[p].got) \subseteq Values(u.content)
        BY <1>1, <2>0, <3>1, <3>2 DEF ArchiveOf
      <3> QED
        BY <1>1, <1>2, <2>0, <3>1, <3>3, <3>4, <3>5 DEF ArchiveOf
    <2>4. CASE SnapFails(p) \/ SnapRelease(p)
      <3>1. /\ snapper[p].pc # "idle" /\ snapper'[p].pc \in {"release", "done"}
            /\ snapper'[p].ok = snapper[p].ok
        BY <1>0, <2>4 DEF SnapFails, SnapRelease, SnapperState
      <3> QED
        BY <1>1, <1>2, <2>0, <3>1 DEF ArchiveOf
    <2> QED
      BY <2>1, <2>2, <2>3, <2>4 DEF SnapStep
  <1> QED
    BY <1>1, <1>3, <1>4, SpentKept

LEMMA ArchiveOther ==
    ASSUME TypeInv, NEW r \in Restorers, NEW v \in Restorers, r # v,
           ArchiveOf(r), ArchiveOf(v), RestoreStep(v)
    PROVE  ArchiveOf(r)'
  <1>0. /\ restorer \in [Restorers -> RestorerState]
        /\ snapper \in [SnapReqs -> SnapperState]
        /\ lock \in [Locks -> Procs \cup {Nobody}] /\ "pitr_restore" \in Locks
        /\ r \in SnapReqs /\ v \in SnapReqs /\ Nobody # r
    BY PitrAssumption DEF TypeInv, RestorersTyped, SnappersTyped, LockTyped,
       Locks, SnapReqs
  <1>1. restorer'[r] = restorer[r]
    BY <1>0 DEF RestoreStep, FindSnapshot, AcquireRestore, Swap, ListWal,
       ReadFile, ReplayEntry, Archived, DeleteWal, ReleaseRestore, RestoreFails
  <1>2. snapper'[r] = snapper[r]
    BY <1>0 DEF RestoreStep, FindSnapshot, AcquireRestore, Swap, ListWal,
       ReadFile, ReplayEntry, Archived, DeleteWal, ReleaseRestore, RestoreFails
  <1>3. snaps' = snaps
    BY DEF RestoreStep, FindSnapshot, AcquireRestore, Swap, ListWal, ReadFile,
       ReplayEntry, Archived, DeleteWal, ReleaseRestore, RestoreFails, storage
  <1>4. restorer[r].pc \in Restoring => lock'["pitr_restore"] = r
    <2>1. lock' = lock \/ AcquireRestore(v) \/ ReleaseRestore(v)
      BY DEF RestoreStep, FindSnapshot, Swap, ListWal, ReadFile, ReplayEntry,
         Archived, DeleteWal, RestoreFails
    <2> QED
      BY <1>0, <2>1 DEF AcquireRestore, ReleaseRestore, Acquire, Release,
         ArchiveOf
  <1>5. restorer[r].pc \in Restoring => db' = db
    <2>1. db' = db \/ restorer[v].pc \in Restoring
      BY DEF RestoreStep, FindSnapshot, AcquireRestore, Swap, ListWal,
         ReadFile, ReplayEntry, Archived, DeleteWal, ReleaseRestore,
         RestoreFails, storage, Restoring
    <2> QED
      BY <2>1 DEF ArchiveOf
  <1>6. restorer[r].pc \in {"list", "file", "entry", "archive"}
           => Values(db) \subseteq Values(db')
    BY <1>5 DEF Restoring
  <1> QED
    BY <1>1, <1>2, <1>3, <1>4, <1>6, ArchiveKept

LEMMA ArchiveOwn ==
    ASSUME TypeInv, NEW r \in Restorers, ArchiveOf(r), RestoreStep(r)
    PROVE  ArchiveOf(r)'
  <1> DEFINE old == restorer[r]
             new == restorer'[r]
  <1>0. /\ restorer \in [Restorers -> RestorerState] /\ old \in RestorerState
        /\ snapper \in [SnapReqs -> SnapperState] /\ r \in SnapReqs
        /\ lock \in [Locks -> Procs \cup {Nobody}] /\ "pitr_restore" \in Locks
    BY DEF TypeInv, RestorersTyped, SnappersTyped, LockTyped, Locks, SnapReqs
  <1>1. ASSUME NEW t \in Time, FindSnapshot(r, t)
        PROVE  ArchiveOf(r)'
    <2>1. old.pc = "idle" /\ new.pc = "acquire" /\ UNCHANGED snapper
      BY <1>0, <1>1 DEF FindSnapshot, RestorerState
    <2> QED
      BY <2>1 DEF ArchiveOf, Restoring
  <1>2. CASE AcquireRestore(r)
    <2>1. /\ old.pc = "acquire" /\ UNCHANGED snapper
          /\ \/ new.pc = "swap" /\ lock'["pitr_restore"] = r
             \/ new.pc = "done"
      BY <1>0, <1>2 DEF AcquireRestore, Acquire, RestorerState
    <2> QED
      BY <2>1 DEF ArchiveOf, Restoring
  <1>3. CASE Swap(r)
    <2>1. /\ old.pc = "swap" /\ new.pc = "list" /\ new.got = db'
          /\ UNCHANGED <<snapper, lock>>
      BY <1>0, <1>3 DEF Swap, SetDb, RestorerState
    <2> QED
      BY <2>1 DEF ArchiveOf, Restoring
  <1>4. ASSUME old.pc \in {"list", "file", "entry"},
               new.pc \in {"file", "entry", "archive"},
               new.got = old.got, UNCHANGED <<snapper, lock, db>>
        PROVE  ArchiveOf(r)'
    BY <1>4 DEF ArchiveOf, Restoring
  <1>5. CASE ListWal(r)
    <2>1. old.pc = "list" /\ UNCHANGED <<snapper, lock, db>>
      BY <1>5 DEF ListWal, storage
    <2>2. \/ restorer' = [restorer EXCEPT ![r].pc = "file"]
          \/ \E F : restorer' = [restorer EXCEPT ![r].pc = "file",
                                     ![r].files = F, ![r].todo = F]
      BY <1>5 DEF ListWal
    <2>3. CASE restorer' = [restorer EXCEPT ![r].pc = "file"]
      BY <1>0, <1>4, <2>1, <2>3 DEF RestorerState
    <2>4. ASSUME NEW F, restorer' = [restorer EXCEPT ![r].pc = "file",
                                         ![r].files = F, ![r].todo = F]
          PROVE  ArchiveOf(r)'
      BY <1>0, <1>4, <2>1, <2>4 DEF RestorerState
    <2> QED
      BY <2>2, <2>3, <2>4
  <1>6. CASE ReadFile(r)
    <2>1. old.pc = "file" /\ UNCHANGED <<snapper, lock, db>>
      BY <1>6 DEF ReadFile, storage
    <2>2. \/ restorer' = [restorer EXCEPT ![r].pc = "archive"]
          \/ \E s \in old.todo :
                \/ restorer' = [restorer EXCEPT ![r].pc = "entry",
                        ![r].todo = @ \ {s}, ![r].entries = wal[s]]
                \/ restorer' = [restorer EXCEPT ![r].todo = @ \ {s}]
      BY <1>6 DEF ReadFile
    <2>3. new.pc \in {"file", "entry", "archive"} /\ new.got = old.got
      <3>1. CASE restorer' = [restorer EXCEPT ![r].pc = "archive"]
        BY <1>0, <3>1 DEF RestorerState
      <3>2. ASSUME NEW s, restorer' = [restorer EXCEPT ![r].pc = "entry",
                              ![r].todo = @ \ {s}, ![r].entries = wal[s]]
            PROVE  new.pc = "entry" /\ new.got = old.got
        BY <1>0, <3>2 DEF RestorerState
      <3>3. ASSUME NEW s, restorer' = [restorer EXCEPT ![r].todo = @ \ {s}]
            PROVE  new.pc = old.pc /\ new.got = old.got
        BY <1>0, <3>3 DEF RestorerState
      <3> QED
        BY <2>1, <2>2, <3>1, <3>2, <3>3
    <2> QED
      BY <1>4, <2>1, <2>3
  <1>7. CASE ReplayEntry(r)
    <2>1. old.pc = "entry" /\ UNCHANGED <<snapper, lock>>
      BY <1>7 DEF ReplayEntry
    <2>2. \/ /\ new.pc \in {"file", "entry", "archive"} /\ new.got = old.got
             /\ db' = db
          \/ /\ new.pc = "entry" /\ old.entries # <<>>
             /\ new.got = Append(old.got, Head(old.entries).q)
             /\ db' = Append(db, Head(old.entries).q)
      BY <1>0, <1>7 DEF ReplayEntry, SetDb, RestorerState
    <2>3. ASSUME old.entries # <<>>
          PROVE  LET q == Head(old.entries).q
                 IN  \A y \in Values(Append(old.got, q)) :
                        y \in Values(old.got) \/ y = q
      <3>1. Head(old.entries) \in Entry
        BY <1>0, <2>3, ValuesTail DEF RestorerState
      <3>2. Head(old.entries).q \in Queries /\ old.got \in Seq(Queries)
        BY <1>0, <3>1 DEF Entry, RestorerState, Content
      <3> QED
        BY <3>2, ValuesAppend
    <2>4. ASSUME old.entries # <<>>
          PROVE  LET q == Head(old.entries).q
                 IN  /\ q \in Values(Append(db, q))
                     /\ Values(db) \subseteq Values(Append(db, q))
      <3>1. Head(old.entries) \in Entry
        BY <1>0, <2>4, ValuesTail DEF RestorerState
      <3>2. Head(old.entries).q \in Queries /\ db \in Seq(Queries)
        BY <3>1 DEF Entry, TypeInv, StoreTyped, Content
      <3> QED
        BY <3>2, ValuesAppended
    <2>5. CASE /\ new.pc = "entry" /\ old.entries # <<>>
               /\ new.got = Append(old.got, Head(old.entries).q)
               /\ db' = Append(db, Head(old.entries).q)
      <3>1. Values(new.got) \subseteq Values(db')
        BY <2>1, <2>3, <2>4, <2>5 DEF ArchiveOf
      <3> QED
        BY <2>1, <2>5, <3>1 DEF ArchiveOf, Restoring
    <2> QED
      BY <1>4, <2>1, <2>2, <2>5
  <1>8. CASE Archived(r)
    <2>1. PICK c : /\ c = IF snapper[r].ok THEN "delete" ELSE "release"
                   /\ restorer' = [restorer EXCEPT ![r].pc = c, ![r].ok = TRUE]
      BY <1>8 DEF Archived
    <2>2. new.pc = c /\ new.got = old.got
      BY <1>0, <2>1 DEF RestorerState
    <2>3. (c = "delete" /\ snapper[r].ok = TRUE) \/ c = "release"
      <3>1. snapper[r].ok \in BOOLEAN
        BY <1>0 DEF SnapperState
      <3> QED
        BY <2>1, <3>1
    <2>4. old.pc = "archive" /\ UNCHANGED <<snapper, lock, snaps>>
      BY <1>8 DEF Archived, storage
    <2> QED
      BY <2>2, <2>3, <2>4 DEF ArchiveOf, Restoring
  <1>9. CASE DeleteWal(r)
    <2>1. old.pc = "delete" /\ UNCHANGED <<snapper, lock, snaps>>
      BY <1>9 DEF DeleteWal
    <2>2. new.pc \in {"delete", "release"} /\ new.got = old.got
      <3>1. \/ restorer' = [restorer EXCEPT ![r].pc = "release"]
            \/ \E s \in old.files :
                  restorer' = [restorer EXCEPT ![r].files = @ \ {s}]
        BY <1>9 DEF DeleteWal
      <3> QED
        BY <1>0, <2>1, <3>1 DEF RestorerState
    <2> QED
      BY <2>1, <2>2 DEF ArchiveOf, Restoring
  <1>10. CASE ReleaseRestore(r)
    <2>1. new.pc = "done"
      BY <1>0, <1>10 DEF ReleaseRestore, RestorerState
    <2> QED
      BY <2>1 DEF ArchiveOf, Restoring
  <1>11. CASE RestoreFails(r)
    <2>1. \/ new.pc = "done"
          \/ new.pc = "release" /\ old.pc = "swap" /\ lock' = lock
      BY <1>0, <1>11 DEF RestoreFails, RestorerState
    <2> QED
      BY <2>1 DEF ArchiveOf, Restoring
  <1> QED
    BY <1>1, <1>2, <1>3, <1>5, <1>6, <1>7, <1>8, <1>9, <1>10, <1>11
    DEF RestoreStep

LEMMA SpentRestore ==
    ASSUME SpentIsKept, NEW r \in Restorers, ArchiveOf(r), RestoreStep(r)
    PROVE  SpentIsKept'
  <1>1. snaps' = snaps
    BY DEF RestoreStep, FindSnapshot, AcquireRestore, Swap, ListWal, ReadFile,
       ReplayEntry, Archived, DeleteWal, ReleaseRestore, RestoreFails, storage
  <1>2. spent' = spent \/ DeleteWal(r)
    BY DEF RestoreStep, FindSnapshot, AcquireRestore, Swap, ListWal, ReadFile,
       ReplayEntry, Archived, ReleaseRestore, RestoreFails, walHist
  <1>3. CASE DeleteWal(r)
    <2>1. \A q \in spent' : q \in spent \/ q \in Values(restorer[r].got)
      BY <1>3 DEF DeleteWal
    <2>2. \E s \in snaps : Values(restorer[r].got) \subseteq Values(s.content)
      BY <1>3 DEF DeleteWal, ArchiveOf
    <2> QED
      BY <1>1, <2>1, <2>2 DEF SpentIsKept
  <1> QED
    BY <1>1, <1>2, <1>3, SpentKept

LEMMA ArchiveLease ==
    ASSUME TypeInv, SpentIsKept, \A r \in Restorers : ArchiveOf(r),
           NEW n \in Locks, LeaseExpires(n), "pitr_restore" \notin overran'
    PROVE  SpentIsKept' /\ \A r \in Restorers : ArchiveOf(r)'
  <1>1. UNCHANGED <<restorer, snapper, snaps, db, spent>>
    BY DEF LeaseExpires, storage, procs, walHist
  <1>2. ASSUME NEW r \in Restorers
        PROVE  restorer[r].pc \in Restoring => lock'["pitr_restore"] = r
    <2>1. lock \in [Locks -> Procs \cup {Nobody}]
      BY DEF TypeInv, LockTyped
    <2>2. CASE n # "pitr_restore"
      BY <2>1, <2>2 DEF LeaseExpires, Locks, ArchiveOf
    <2>3. CASE n = "pitr_restore"
      <3>1. ~ Holds("pitr_restore", lock["pitr_restore"])
        BY <2>3 DEF LeaseExpires
      <3>2. restorer[r].pc \notin Restoring
        BY <3>1 DEF Holds, Restoring, ArchiveOf
      <3> QED
        BY <3>2
    <2> QED
      BY <2>2, <2>3
  <1> QED
    BY <1>1, <1>2, ArchiveKept, SpentKept

LEMMA ArchiveCorrect == Spec => []ArchiveInv
  <1>1. Init => ArchiveInv
    BY DEF Init, ArchiveInv, SpentIsKept, ArchiveOf, SnapReqs, Restoring
  <1>2. ASSUME TypeInv, TypeInv', ArchiveInv, [Next]_vars
        PROVE  ArchiveInv'
    <2>1. overran \subseteq overran'
      BY <1>2, OverranStays
    <2> SUFFICES ASSUME SpentIsKept, \A r \in Restorers : ArchiveOf(r),
                        "pitr_restore" \notin overran'
                 PROVE  SpentIsKept' /\ \A r \in Restorers : ArchiveOf(r)'
      BY <1>2, <2>1 DEF ArchiveInv
    <2>2. CASE Tick \/ UNCHANGED vars
      <3>1. UNCHANGED <<restorer, snapper, snaps, db, spent, lock>>
        BY <2>2 DEF Tick, vars, storage, procs, walHist
      <3>2. \A r \in Restorers :
              restorer[r].pc \in Restoring => lock'["pitr_restore"] = r
        BY <3>1 DEF ArchiveOf
      <3> QED
        BY <3>1, <3>2, ArchiveKept, SpentKept
    <2>3. ASSUME NEW v \in Restorers, RestoreStep(v)
          PROVE  SpentIsKept' /\ \A r \in Restorers : ArchiveOf(r)'
      <3>1. SpentIsKept'
        BY <2>3, SpentRestore
      <3>2. ASSUME NEW r \in Restorers
            PROVE  ArchiveOf(r)'
        BY <1>2, <2>3, ArchiveOwn, ArchiveOther
      <3> QED
        BY <3>1, <3>2
    <2> QED
      BY <1>2, <2>2, <2>3, ArchiveWorker, ArchiveSnap, ArchiveLease DEF Next
  <1> QED
    BY <1>1, <1>2, TypeInvCorrect, PTL DEF Spec

\* execute deletes the replayed WAL objects after a snapshot that holds what was
\* replayed, whatever else writes, copies, fails or expires but the lease of
\* the restore itself.
THEOREM ReplayedIsArchived == Spec => []DeletedIsArchived
  <1>1. ArchiveInv => DeletedIsArchived
    BY DEF ArchiveInv, SpentIsKept, DeletedIsArchived
  <1> QED
    BY <1>1, ArchiveCorrect, PTL

=============================================================================
