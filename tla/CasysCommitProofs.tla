-------------------------- MODULE CasysCommitProofs --------------------------
(***************************************************************************)
(* Proofs about the commit path, for any backend, number and size of       *)
(* commits, capacity of a segment, threads, failures and crashes.          *)
(*                                                                         *)
(* Typing, and that what was acknowledged is published, hold for every     *)
(* number of segments.  What the records of the WAL and its listing are    *)
(* worth is proved while the names of the segments are in the order of     *)
(* their numbers, MaxSeq <= 9; beyond, run casys_v_ten refutes it.         *)
(***************************************************************************)
EXTENDS CasysCommit, FiniteSetTheorems, SequenceTheorems, WellFoundedInduction, TLAPS

-----------------------------------------------------------------------------
(* Typing and publication                                                  *)

\* A writer that is busy works on a commit that nobody has acknowledged, and
\* the segment it writes to is there.
BusyWriters ==
    \A w \in Writers : thread[w].pc # "idle" =>
        /\ thread[w].tx \in begun \ Acked
        /\ thread[w].pc = "write" => data[thread[w].seq] # Absent

\* Between the rename and the sync of its directory the manifest is there.
RenamedIsThere ==
    \A x \in Threads : thread[x].pc = "sync" => man[thread[x].ts] # <<>>

\* A file that is on the disk is there.
SafeIsThere == \A n \in Segs : safe[n] # Absent => data[n] # Absent

\* The manifest of an acknowledged commit is there, and on the disk.
PublishedIsSafe ==
    \A t \in Acked : man[version[t]] # <<>> /\ manSafe[version[t]] # <<>>

PublishInv == TypeOK /\ BusyWriters /\ RenamedIsThere /\ SafeIsThere /\ PublishedIsSafe

\* A set of bounded numbers has a highest one.
LEMMA Highest ==
    ASSUME NEW k \in Nat, NEW T \in SUBSET (0..k), T # {}
    PROVE  \E m \in T : \A u \in T : u <= m
  <1> DEFINE U == {k - t : t \in T}
             R == OpToRel(<, Nat)
  <1>1. \A t \in T : t \in Nat /\ k - t \in Nat
    OBVIOUS
  <1>2. U \subseteq Nat /\ U # {}
    BY <1>1
  <1>3. \A x, y \in Nat : <<y, x>> \in R <=> y < x
    BY DEF OpToRel
  <1>4. PICK x \in U : \A y \in U : ~ (<<y, x>> \in R)
    <2> HIDE DEF U
    <2> QED
      BY <1>2, NatLessThanWellFounded, WFMin
  <1>5. PICK m \in T : x = k - m
    BY <1>4
  <1> HIDE DEF R
  <1>6. \A u \in T : ~ (k - u < k - m)
    BY <1>1, <1>3, <1>4, <1>5
  <1> QED
    BY <1>1, <1>6

\* latest_manifest finds the one with the highest timestamp.
LEMMA LatestIsHighest ==
    ASSUME man \in [Time -> Manifest]
    PROVE  \/ Latest = <<>> /\ \A t \in Time : man[t] = <<>>
           \/ \E t \in Time : /\ Latest = man[t] /\ man[t] # <<>>
                              /\ \A u \in Time : man[u] # <<>> => u <= t
  <1> DEFINE dated == {t \in Time : man[t] # <<>>}
  <1>1. CASE dated = {}
    BY <1>1 DEF Latest
  <1>2. CASE dated # {}
    <2>1. dated \in SUBSET (0..MaxTime) /\ MaxTime \in Nat
      BY CasysAssumption DEF Time
    <2>2. \E t \in dated : \A u \in dated : u <= t
      <3> HIDE DEF dated
      <3> QED
        BY <1>2, <2>1, Highest
    <2> DEFINE h == CHOOSE t \in dated : \A u \in dated : u <= t
    <2>3. h \in dated /\ \A u \in dated : u <= h
      BY <2>2
    <2>4. Latest = man[h]
      BY <1>2 DEF Latest
    <2> HIDE DEF h
    <2> QED
      BY <2>3, <2>4
  <1> QED
    BY <1>1, <1>2

LEMMA LatestTyped ==
    ASSUME man \in [Time -> Manifest]
    PROVE  Latest \in Manifest /\ TailOf(Latest) \in WalTail
  <1>1. Latest \in Manifest
    BY LatestIsHighest DEF Manifest
  <1> QED
    BY <1>1 DEF Manifest, TailOf, WalTail

\* What a crash leaves of a file is a file.
LEMMA SurvivorsTyped ==
    ASSUME NEW a \in Seq(Record) \cup {Absent}, NEW b \in Seq(Record) \cup {Absent},
           a # b => b # Absent, NEW c \in Survivors(a, b)
    PROVE  c \in Seq(Record) \cup {Absent}
  <1>1. CASE a = b
    BY <1>1 DEF Survivors
  <1>2. CASE a # b
    <2>1. b \in Seq(Record) /\ 0 \in Record
      BY <1>2 DEF Record
    <2>2. \A p \in Prefixes(b) : p \in Seq(Record)
      BY <2>1, SubSeqProperties DEF Prefixes
    <2>3. \A p \in Prefixes(b) : Append(p, 0) \in Seq(Record)
      BY <2>1, <2>2, AppendProperties
    <2> QED
      BY <1>2, <2>2, <2>3 DEF Survivors
  <1> QED
    BY <1>1, <1>2

LEMMA Constants ==
    /\ Old \in Nat /\ New \in Nat /\ MaxTime \in Nat /\ MaxFaults \in Nat
    /\ MaxCrashes \in Nat /\ Size \in Nat /\ Size > 0 /\ Cap \in Nat /\ Cap > 0
    /\ MaxSeq \in Nat /\ Old <= MaxSeq
    /\ \A w \in Writers : w \notin Snappers /\ w # Nobody
    /\ Absent \notin Nat
  BY CasysAssumption

LEMMA AbsentIsNoFile == Absent \notin Seq(Record) /\ <<>> \in Seq(Record)
  <1>1. Record \subseteq Nat
    BY Constants DEF Record, Txs
  <1>2. \A q \in Seq(Record) : q \in Seq(Nat)
    BY <1>1, SeqMonotonic
  <1> QED
    BY <1>2, CasysAssumption

\* A thread that moves on keeps its locals.
LEMMA MovedOn ==
    ASSUME thread \in [Threads -> ThreadState], NEW x \in Threads, NEW p \in PC, Goto(x, p)
    PROVE  /\ thread' \in [Threads -> ThreadState]
           /\ thread'[x].pc = p /\ thread'[x].tx = thread[x].tx
           /\ thread'[x].seq = thread[x].seq /\ thread'[x].left = thread[x].left
           /\ thread'[x].tail = thread[x].tail /\ thread'[x].base = thread[x].base
           /\ thread'[x].ts = thread[x].ts
           /\ \A y \in Threads : y # x => thread'[y] = thread[y]
  BY DEF Goto, ThreadState

LEMMA IdleTyped == Idle \in ThreadState
  BY Constants DEF Idle, ThreadState, PC, Segs, WalTail, Manifest, Time

LEMMA PublishInvInit == Init => PublishInv
  <1> SUFFICES ASSUME Init PROVE PublishInv
    OBVIOUS
  <1> USE Constants
  <1>1. \A x \in Threads : thread[x] = Idle /\ thread[x].pc = "idle"
    BY DEF Init, Idle
  <1>2. \A n \in Segs : n < Old => <<n + 1>> \in Seq(Record)
    BY DEF Segs, Record, Txs
  <1>3. /\ data \in [Segs -> Seq(Record) \cup {Absent}]
        /\ safe \in [Segs -> Seq(Record) \cup {Absent}]
    BY <1>2 DEF Init
  <1>4. man \in [Time -> Manifest] /\ manSafe \in [Time -> Manifest]
    <2>1. Old # 0 => Old - 1 \in Segs
      BY DEF Segs
    <2> QED
      BY <2>1 DEF Init, Manifest, WalTail, Time
  <1>5. order \in Seq(Txs) /\ Acked = 1..Old /\ begun = 1..Old /\ 1..Old \subseteq Txs
    BY DEF Init, Acked, Txs
  <1>6. TypeOK
    <2>1. thread \in [Threads -> ThreadState]
      BY IdleTyped DEF Init
    <2>2. /\ \A w \in Writers : writer = w <=> thread[w].pc # "idle"
          /\ writer \in Writers \cup {Nobody}
      BY <1>1 DEF Init, Threads
    <2>3. /\ composite \in BOOLEAN /\ now \in Time /\ version \in [Txs -> Time]
          /\ overlap \in BOOLEAN /\ faults \in 0..MaxFaults /\ crashes \in 0..MaxCrashes
      <3>1. 0 \in Time /\ 0 \in 0..MaxFaults /\ 0 \in 0..MaxCrashes
        BY DEF Time
      <3> QED
        BY <3>1 DEF Init
    <2> QED
      BY <1>3, <1>4, <1>5, <2>1, <2>2, <2>3 DEF TypeOK
  <1>7. BusyWriters /\ RenamedIsThere
    BY <1>1 DEF BusyWriters, RenamedIsThere, Threads
  <1>8. PublishedIsSafe
    <2>1. CASE Old = 0
      BY <1>5, <2>1 DEF PublishedIsSafe
    <2>2. CASE Old # 0
      <3>1. 0 \in Time /\ man[0] # <<>> /\ manSafe = man
        BY <2>2 DEF Init, Time
      <3>2. \A t \in Acked : version[t] = 0
        BY <1>5 DEF Init
      <3> QED
        BY <3>1, <3>2 DEF PublishedIsSafe
    <2> QED
      BY <2>1, <2>2
  <1>9. SafeIsThere
    BY DEF Init, SafeIsThere
  <1> QED
    BY <1>6, <1>7, <1>8, <1>9 DEF PublishInv

\* The other steps that change the locals of a thread.
LEMMA Began ==
    ASSUME thread \in [Threads -> ThreadState], NEW w \in Writers, NEW t \in Txs, Begin(w, t)
    PROVE  /\ thread' \in [Threads -> ThreadState]
           /\ thread'[w].pc = "write" /\ thread'[w].tx = t /\ thread'[w].seq = NextSeq
           /\ thread'[w].left = Size /\ thread'[w].tail = Absent /\ thread'[w].ts = 0
           /\ \A y \in Threads : y # w => thread'[y] = thread[y]
  <1> DEFINE c == [Idle EXCEPT !.pc = "write"]
             d == [c EXCEPT !.tx = t]
             e == [d EXCEPT !.seq = NextSeq]
             b == [e EXCEPT !.left = Size]
  <1>1. /\ b \in ThreadState /\ b.pc = "write" /\ b.tx = t /\ b.seq = NextSeq
        /\ b.left = Size /\ b.tail = Absent /\ b.ts = 0
    <2>1. c \in ThreadState /\ c.pc = "write" /\ c.tail = Absent /\ c.ts = 0
      BY IdleTyped DEF Idle, ThreadState, PC
    <2> HIDE DEF c
    <2>2. d \in ThreadState /\ d.pc = "write" /\ d.tx = t /\ d.tail = Absent /\ d.ts = 0
      BY <2>1 DEF ThreadState
    <2> HIDE DEF d
    <2>3. /\ e \in ThreadState /\ e.pc = "write" /\ e.tx = t /\ e.seq = NextSeq
          /\ e.tail = Absent /\ e.ts = 0
      BY <2>2 DEF ThreadState, Begin
    <2> HIDE DEF e
    <2> QED
      BY <2>3, Constants DEF ThreadState
  <1>2. thread' = [thread EXCEPT ![w] = b]
    BY DEF Begin
  <1> HIDE DEF b, c, d, e
  <1> QED
    BY <1>1, <1>2 DEF Threads

LEMMA Wrote ==
    ASSUME thread \in [Threads -> ThreadState], NEW w \in Writers, WriteRecord(w)
    PROVE  /\ thread' \in [Threads -> ThreadState]
           /\ thread'[w].pc = "write" /\ thread'[w].tx = thread[w].tx
           /\ thread'[w].tail = thread[w].tail /\ thread'[w].ts = thread[w].ts
           /\ Len(data[thread[w].seq]) < Cap =>
                 thread'[w].seq = thread[w].seq /\ thread'[w].left = thread[w].left - 1
           /\ ~ Len(data[thread[w].seq]) < Cap =>
                 /\ thread[w].seq + 1 \in Segs
                 /\ thread'[w].seq = thread[w].seq + 1 /\ thread'[w].left = thread[w].left
           /\ \A y \in Threads : y # w => thread'[y] = thread[y]
  <1>1. w \in Threads /\ thread[w].left - 1 \in 0..Size
    BY Constants DEF Threads, ThreadState, WriteRecord
  <1>2. CASE Len(data[thread[w].seq]) < Cap
    BY <1>1, <1>2 DEF WriteRecord, ThreadState
  <1>3. CASE ~ Len(data[thread[w].seq]) < Cap
    <2> DEFINE n == thread[w].seq
    <2>1. n + 1 \in Segs /\ thread' = [thread EXCEPT ![w].seq = n + 1] /\ thread[w].pc = "write"
      BY <1>3 DEF WriteRecord
    <2> HIDE DEF n
    <2>2. thread' \in [Threads -> ThreadState]
      BY <1>1, <2>1 DEF ThreadState
    <2> QED
      BY <1>1, <1>3, <2>1, <2>2 DEF ThreadState, n
  <1> QED
    BY <1>2, <1>3

LEMMA TailRead ==
    ASSUME thread \in [Threads -> ThreadState], NEW w \in Writers, ReadTail(w)
    PROVE  /\ thread' \in [Threads -> ThreadState]
           /\ thread'[w].pc = "clock" /\ thread'[w].tx = thread[w].tx
           /\ thread'[w].seq = thread[w].seq /\ thread'[w].ts = thread[w].ts
           /\ thread'[w].tail \in Segs /\ IsLast(thread'[w].tail)
           /\ \A y \in Threads : y # w => thread'[y] = thread[y]
  <1>1. PICK n \in Segs : IsLast(n)
            /\ thread' = [thread EXCEPT ![w].pc = "clock", ![w].tail = n]
    BY DEF ReadTail
  <1>2. w \in Threads /\ n \in WalTail
    BY DEF Threads, WalTail
  <1> QED
    BY <1>1, <1>2 DEF ThreadState, PC

LEMMA BaseRead ==
    ASSUME thread \in [Threads -> ThreadState], Latest \in Manifest,
           NEW x \in Threads, ReadBase(x)
    PROVE  /\ thread' \in [Threads -> ThreadState]
           /\ thread'[x].pc = (IF composite THEN "publish" ELSE "clock")
           /\ thread'[x].tx = thread[x].tx /\ thread'[x].seq = thread[x].seq
           /\ thread'[x].tail = thread[x].tail /\ thread'[x].ts = thread[x].ts
           /\ thread'[x].base = Latest
           /\ \A y \in Threads : y # x => thread'[y] = thread[y]
  <1>1. CASE composite
    BY <1>1 DEF ReadBase, ThreadState, PC
  <1>2. CASE ~ composite
    BY <1>2 DEF ReadBase, ThreadState, PC
  <1> QED
    BY <1>1, <1>2

LEMMA ClockRead ==
    ASSUME thread \in [Threads -> ThreadState], now \in Time, NEW x \in Threads, ReadClock(x)
    PROVE  /\ thread' \in [Threads -> ThreadState]
           /\ thread'[x].pc = (IF composite THEN "base" ELSE "publish")
           /\ thread'[x].tx = thread[x].tx /\ thread'[x].seq = thread[x].seq
           /\ thread'[x].tail = thread[x].tail /\ thread'[x].ts = now
           /\ \A y \in Threads : y # x => thread'[y] = thread[y]
  <1>1. CASE composite
    BY ZenonT(40), <1>1 DEF ReadClock, ThreadState, PC
  <1>2. CASE ~ composite
    BY ZenonT(40), <1>2 DEF ReadClock, ThreadState, PC
  <1> QED
    BY <1>1, <1>2

LEMMA SnapshotBegan ==
    ASSUME thread \in [Threads -> ThreadState], NEW x \in Snappers, BeginSnapshot(x)
    PROVE  /\ thread' \in [Threads -> ThreadState]
           /\ thread'[x].pc = (IF composite THEN "clock" ELSE "base")
           /\ thread'[x].tail = Absent /\ thread'[x].ts = 0
           /\ \A y \in Threads : y # x => thread'[y] = thread[y]
  <1>1. CASE composite
    BY <1>1, IdleTyped DEF BeginSnapshot, Idle, ThreadState, PC, Threads
  <1>2. CASE ~ composite
    BY <1>2, IdleTyped DEF BeginSnapshot, Idle, ThreadState, PC, Threads
  <1> QED
    BY <1>1, <1>2

\* A thread that ends, by an answer or an error, is idle.
LEMMA Ended ==
    ASSUME thread \in [Threads -> ThreadState], NEW x \in Threads,
           thread' = [thread EXCEPT ![x] = Idle]
    PROVE  /\ thread' \in [Threads -> ThreadState]
           /\ thread'[x] = Idle /\ thread'[x].pc = "idle"
           /\ \A y \in Threads : y # x => thread'[y] = thread[y]
  BY IdleTyped DEF Idle

\* The commit that is acknowledged joins those that were.
LEMMA Acknowledged ==
    ASSUME order \in Seq(Txs), NEW t \in Txs, order' = Append(order, t)
    PROVE  /\ order' \in Seq(Txs) /\ Acked' = Acked \cup {t}
           /\ DOMAIN order = 1..Len(order) /\ DOMAIN order' = 1..(Len(order) + 1)
           /\ Len(order) \in Nat
           /\ \A i \in DOMAIN order : order'[i] = order[i]
           /\ order'[Len(order) + 1] = t
  <1>1. /\ order' \in Seq(Txs) /\ Len(order') = Len(order) + 1
        /\ \A i \in 1..Len(order) : order'[i] = order[i]
        /\ order'[Len(order) + 1] = t
    BY AppendProperties
  <1>2. Len(order) \in Nat /\ DOMAIN order = 1..Len(order) /\ DOMAIN order' = 1..Len(order')
    BY <1>1, LenProperties
  <1>3. \A i \in DOMAIN order' : i \in DOMAIN order \/ i = Len(order) + 1
    BY <1>1, <1>2
  <1>4. Len(order) + 1 \in DOMAIN order' /\ DOMAIN order \subseteq DOMAIN order'
    BY <1>1, <1>2
  <1>5. Acked' \subseteq Acked \cup {t}
    BY <1>1, <1>2, <1>3 DEF Acked
  <1>6. Acked \subseteq Acked' /\ t \in Acked'
    BY <1>1, <1>2, <1>4 DEF Acked
  <1> QED
    BY <1>1, <1>2, <1>5, <1>6

LEMMA PublishInvStep ==
    ASSUME PublishInv, [Next]_vars
    PROVE  PublishInv'
  <1> USE Constants
      DEF PublishInv, TypeOK, BusyWriters, RenamedIsThere, PublishedIsSafe, SafeIsThere, files, mans,
          history, bounds
  <1>0. UNCHANGED order => Acked' = Acked
    BY DEF Acked
  <1>1. CASE Tick
    BY <1>0, <1>1 DEF Tick, Time
  <1>2. ASSUME NEW w \in Writers, NEW t \in Txs, Begin(w, t) PROVE PublishInv'
    <2>1. /\ thread' \in [Threads -> ThreadState] /\ thread'[w].pc = "write"
          /\ thread'[w].tx = t /\ thread'[w].seq = NextSeq
          /\ \A y \in Threads : y # w => thread'[y] = thread[y]
      BY <1>2, Began
    <2>2. /\ writer = Nobody /\ writer' = w /\ t \notin begun /\ begun' = begun \cup {t}
          /\ NextSeq \in Segs /\ data' = [data EXCEPT ![NextSeq] = <<>>]
          /\ overlap' \in BOOLEAN /\ thread[w].pc = "idle"
          /\ UNCHANGED <<composite, now, safe, mans, order, version, bounds>>
      BY <1>2 DEF Begin, Busy
    <2>3. data' \in [Segs -> Seq(Record) \cup {Absent}] /\ data'[NextSeq] = <<>> /\ <<>> # Absent
      BY <2>2, AbsentIsNoFile
    <2>4. TypeOK'
      BY <1>0, <2>1, <2>2, <2>3 DEF Threads
    <2>5. BusyWriters'
      BY <1>0, <2>1, <2>2, <2>3 DEF Threads
    <2>6. RenamedIsThere'
      BY <2>1, <2>2
    <2>7. PublishedIsSafe'
      BY <1>0, <2>2
    <2>8. SafeIsThere'
      BY <2>2, <2>3
    <2> QED
      BY <2>4, <2>5, <2>6, <2>7, <2>8
  <1>3. ASSUME NEW w \in Writers, WriteRecord(w) PROVE PublishInv'
    <2> DEFINE n == thread[w].seq
    <2>1. /\ thread' \in [Threads -> ThreadState] /\ thread'[w].pc = "write"
          /\ thread'[w].tx = thread[w].tx
          /\ \A y \in Threads : y # w => thread'[y] = thread[y]
      BY <1>3, Wrote
    <2>2. /\ thread[w].pc = "write" /\ n \in Segs /\ data[n] \in Seq(Record)
          /\ thread[w].tx \in Record /\ thread[w].tx \in begun \ Acked
          /\ UNCHANGED <<composite, now, mans, writer, history, bounds>>
      BY <1>3 DEF WriteRecord, Threads, ThreadState, Record
    <2>3. /\ data' \in [Segs -> Seq(Record) \cup {Absent}]
          /\ safe' \in [Segs -> Seq(Record) \cup {Absent}]
          /\ data'[thread'[w].seq] \in Seq(Record)
          /\ \A m \in Segs : data'[m] = data[m] \/ data'[m] \in Seq(Record)
          /\ \A m \in Segs : safe'[m] = safe[m] \/ safe'[m] = data[m]
      <3>1. CASE Len(data[n]) < Cap
        <4>1. /\ data' = [data EXCEPT ![n] = Append(@, thread[w].tx)] /\ safe' = safe
              /\ thread'[w].seq = n
          BY <1>3, <3>1, Wrote DEF WriteRecord
        <4>2. Append(data[n], thread[w].tx) \in Seq(Record)
          BY <2>2, AppendProperties
        <4> QED
          BY <2>2, <4>1, <4>2
      <3>2. CASE ~ Len(data[n]) < Cap
        <4>1. /\ n + 1 \in Segs /\ safe' = [safe EXCEPT ![n] = data[n]]
              /\ data' = [data EXCEPT ![n + 1] = <<>>] /\ thread'[w].seq = n + 1
          BY <1>3, <3>2, Wrote DEF WriteRecord
        <4>2. <<>> \in Seq(Record)
          OBVIOUS
        <4> QED
          BY <2>2, <4>1, <4>2
      <3> QED
        BY <3>1, <3>2
    <2> HIDE DEF n
    <2>5. TypeOK'
      BY <1>0, <2>1, <2>2, <2>3 DEF Threads
    <2>6. BusyWriters'
      BY <1>0, <2>1, <2>2, <2>3, AbsentIsNoFile DEF Threads
    <2>7. RenamedIsThere' /\ PublishedIsSafe'
      BY <1>0, <2>1, <2>2
    <2>8. SafeIsThere'
      BY <2>3, AbsentIsNoFile
    <2> QED
      BY <2>5, <2>6, <2>7, <2>8
  <1>4. ASSUME NEW w \in Writers, Flush(w) PROVE PublishInv'
    <2>1. w \in Threads /\ thread[w].seq \in Segs
      BY DEF Threads, ThreadState
    <2>2. PICK pc \in {"tail", "base"} : Goto(w, pc)
      BY <1>4 DEF Flush
    <2>3. /\ thread' \in [Threads -> ThreadState] /\ thread'[w].pc \in {"tail", "base"}
          /\ thread'[w].tx = thread[w].tx
          /\ \A y \in Threads : y # w => thread'[y] = thread[y]
      BY <2>1, <2>2, MovedOn DEF PC
    <2>4. thread[w].pc = "write" /\ safe' = [safe EXCEPT ![thread[w].seq] = data[thread[w].seq]]
          /\ UNCHANGED <<composite, now, data, mans, writer, history, bounds>>
      BY <1>4 DEF Flush
    <2>5. TypeOK'
      BY <1>0, <2>1, <2>3, <2>4 DEF Threads
    <2>6. BusyWriters'
      BY <1>0, <2>3, <2>4 DEF Threads
    <2>7. RenamedIsThere' /\ PublishedIsSafe' /\ SafeIsThere'
      BY <1>0, <2>1, <2>3, <2>4
    <2> QED
      BY <2>5, <2>6, <2>7
  <1>5. ASSUME NEW w \in Writers, ReadTail(w) PROVE PublishInv'
    <2>1. /\ thread' \in [Threads -> ThreadState] /\ thread'[w].pc = "clock"
          /\ thread'[w].tx = thread[w].tx
          /\ \A y \in Threads : y # w => thread'[y] = thread[y]
      BY <1>5, TailRead
    <2>2. /\ thread[w].pc = "tail"
          /\ UNCHANGED <<composite, now, files, mans, writer, history, bounds>>
      BY <1>5 DEF ReadTail
    <2>3. TypeOK'
      BY <1>0, <2>1, <2>2 DEF Threads
    <2> QED
      BY <1>0, <2>1, <2>2, <2>3 DEF Threads
  <1>6. ASSUME NEW x \in Snappers, BeginSnapshot(x) PROVE PublishInv'
    <2>1. /\ thread' \in [Threads -> ThreadState] /\ thread'[x].pc \in {"clock", "base"}
          /\ \A y \in Threads : y # x => thread'[y] = thread[y]
      BY <1>6, SnapshotBegan
    <2>2. /\ overlap' \in BOOLEAN
          /\ UNCHANGED <<composite, now, files, mans, writer, begun, order, version, bounds>>
      BY <1>6 DEF BeginSnapshot, Busy
    <2>3. TypeOK'
      BY <1>0, <2>1, <2>2 DEF Threads
    <2>4. BusyWriters'
      BY <1>0, <2>1, <2>2 DEF Threads
    <2> QED
      BY <1>0, <2>1, <2>2, <2>3, <2>4
  <1>7. ASSUME NEW x \in Threads, ReadBase(x) PROVE PublishInv'
    <2>1. /\ thread' \in [Threads -> ThreadState] /\ thread'[x].pc \in {"publish", "clock"}
          /\ thread'[x].tx = thread[x].tx
          /\ \A y \in Threads : y # x => thread'[y] = thread[y]
      BY <1>7, LatestTyped, BaseRead
    <2>2. /\ thread[x].pc = "base"
          /\ UNCHANGED <<composite, now, files, mans, writer, history, bounds>>
      BY <1>7 DEF ReadBase
    <2>3. TypeOK'
      BY <1>0, <2>1, <2>2 DEF Threads
    <2>4. BusyWriters'
      BY <1>0, <2>1, <2>2 DEF Threads
    <2> QED
      BY <1>0, <2>1, <2>2, <2>3, <2>4
  <1>8. ASSUME NEW x \in Threads, ReadClock(x) PROVE PublishInv'
    <2>1. /\ thread' \in [Threads -> ThreadState] /\ thread'[x].pc \in {"publish", "base"}
          /\ thread'[x].tx = thread[x].tx
          /\ \A y \in Threads : y # x => thread'[y] = thread[y]
      BY <1>8, ClockRead
    <2>2. /\ thread[x].pc = "clock"
          /\ UNCHANGED <<composite, now, files, mans, writer, history, bounds>>
      BY <1>8 DEF ReadClock
    <2>3. TypeOK'
      BY <1>0, <2>1, <2>2 DEF Threads
    <2>4. BusyWriters'
      BY <1>0, <2>1, <2>2 DEF Threads
    <2> QED
      BY <1>0, <2>1, <2>2, <2>3, <2>4
  <1>9. ASSUME NEW x \in Threads, Publish(x) PROVE PublishInv'
    <2>1. /\ thread' \in [Threads -> ThreadState] /\ thread'[x].pc = "sync"
          /\ thread'[x].tx = thread[x].tx /\ thread'[x].ts = thread[x].ts
          /\ \A y \in Threads : y # x => thread'[y] = thread[y]
      BY <1>9, MovedOn DEF Publish, PC
    <2>2. /\ thread[x].pc = "publish" /\ thread[x].ts \in Time
          /\ man' = [man EXCEPT ![thread[x].ts] = <<NewTail(x)>>]
          /\ UNCHANGED <<composite, now, files, manSafe, writer, history, bounds>>
      BY <1>9 DEF Publish, ThreadState
    <2>3. <<NewTail(x)>> \in Manifest /\ <<NewTail(x)>> # <<>>
      <3>1. thread[x].tail \in WalTail /\ thread[x].base \in Manifest
        BY DEF ThreadState
      <3>2. TailOf(thread[x].base) \in WalTail
        BY <3>1 DEF TailOf, Manifest, WalTail
      <3>3. NewTail(x) \in WalTail
        BY <3>1, <3>2 DEF NewTail
      <3> QED
        BY <3>3 DEF Manifest
    <2>4. TypeOK'
      BY <1>0, <2>1, <2>2, <2>3 DEF Threads
    <2>5. BusyWriters'
      BY <1>0, <2>1, <2>2 DEF Threads
    <2>6. \A t \in Time : man[t] # <<>> \/ t = thread[x].ts => man'[t] # <<>>
      BY <2>2, <2>3
    <2>7. RenamedIsThere'
      BY SMTT(30), <2>1, <2>2, <2>6 DEF ThreadState
    <2>8. PublishedIsSafe'
      <3>1. \A t \in Acked : version[t] \in Time
        OBVIOUS
      <3> QED
        BY <1>0, <2>2, <2>6, <3>1
    <2>9. SafeIsThere'
      BY <2>2
    <2> QED
      BY <2>4, <2>5, <2>7, <2>8, <2>9
  <1>10. ASSUME NEW x \in Threads, SyncDir(x) PROVE PublishInv'
    <2>1. /\ thread' \in [Threads -> ThreadState] /\ thread'[x].pc = "idle"
          /\ \A y \in Threads : y # x => thread'[y] = thread[y]
      BY <1>10, Ended DEF SyncDir, Done
    <2>2. /\ thread[x].pc = "sync" /\ man[thread[x].ts] # <<>> /\ thread[x].ts \in Time
          /\ manSafe' = man /\ writer' = IF writer = x THEN Nobody ELSE writer
          /\ UNCHANGED <<composite, now, files, man, begun, overlap, bounds>>
      BY <1>10 DEF SyncDir, Done, ThreadState
    <2>3. CASE x \in Writers
      <3>1. /\ thread[x].tx \in begun \ Acked /\ thread[x].tx \in Txs
            /\ order' = Append(order, thread[x].tx)
            /\ version' = [version EXCEPT ![thread[x].tx] = thread[x].ts]
        BY <1>10, <2>2, <2>3 DEF SyncDir, Done
      <3>2. order' \in Seq(Txs) /\ Acked' = Acked \cup {thread[x].tx}
        BY <3>1, Acknowledged
      <3>3. writer = x /\ writer' = Nobody /\ \A w \in Writers : w # x => thread[w].pc = "idle"
        BY <2>2, <2>3
      <3>4. TypeOK'
        <4>1. \A w \in Writers : writer' = w <=> thread'[w].pc # "idle"
          BY <2>1, <2>2, <2>3, <3>3 DEF Threads
        <4>2. version' \in [Txs -> Time] /\ Acked' \subseteq begun'
          BY <2>2, <3>1, <3>2
        <4> QED
          BY <2>1, <2>2, <3>2, <3>3, <4>1, <4>2
      <3>5. BusyWriters' /\ RenamedIsThere'
        BY SMTT(30), <2>1, <2>2, <3>3 DEF Threads
      <3>6. PublishedIsSafe'
        BY <2>2, <3>1, <3>2
      <3>7. SafeIsThere'
        BY <2>2
      <3> QED
        BY <3>4, <3>5, <3>6, <3>7
    <2>4. CASE x \notin Writers
      <3>1. Acked' = Acked /\ UNCHANGED <<order, version, writer>>
        BY <1>0, <1>10, <2>2, <2>4 DEF SyncDir, Done
      <3>2. TypeOK'
        <4>1. \A w \in Writers : writer' = w <=> thread'[w].pc # "idle"
          BY <2>1, <2>4, <3>1 DEF Threads
        <4> QED
          BY <2>1, <2>2, <3>1, <4>1
      <3>3. BusyWriters'
        BY <2>1, <2>2, <2>4, <3>1 DEF Threads
      <3>4. RenamedIsThere' /\ PublishedIsSafe' /\ SafeIsThere'
        BY <2>1, <2>2, <3>1
      <3> QED
        BY <3>2, <3>3, <3>4
    <2> QED
      BY <2>3, <2>4
  <1>11. ASSUME NEW x \in Threads, Fails(x) PROVE PublishInv'
    <2>1. /\ thread' \in [Threads -> ThreadState] /\ thread'[x].pc = "idle"
          /\ \A y \in Threads : y # x => thread'[y] = thread[y]
      BY <1>11, Ended DEF Fails
    <2>2. /\ writer' = IF writer = x THEN Nobody ELSE writer
          /\ faults' \in 0..MaxFaults
          /\ UNCHANGED <<composite, now, files, mans, history, crashes>>
      BY <1>11 DEF Fails
    <2>3. TypeOK'
      BY <1>0, <2>1, <2>2 DEF Threads
    <2>4. BusyWriters'
      BY <1>0, <2>1, <2>2 DEF Threads
    <2> QED
      BY <1>0, <2>1, <2>2, <2>3, <2>4
  <1>12. CASE Crash
    <2>1. /\ thread' \in [Threads -> ThreadState] /\ \A x \in Threads : thread'[x].pc = "idle"
      BY <1>12, IdleTyped DEF Crash, Idle
    <2>2. /\ writer' = Nobody /\ crashes' \in 0..MaxCrashes
          /\ safe' = data' /\ manSafe' = man'
          /\ UNCHANGED <<composite, now, history, faults>>
      BY <1>12 DEF Crash
    <2>3. \A n \in Segs : data'[n] = data[n] \/ data'[n] \in Survivors(safe[n], data[n])
      BY <1>12 DEF Crash
    <2>4. /\ DOMAIN data' = Segs /\ data' = [n \in Segs |-> data'[n]]
      BY <1>12 DEF Crash
    <2>5. data' \in [Segs -> Seq(Record) \cup {Absent}]
      <3>1. ASSUME NEW n \in Segs PROVE data'[n] \in Seq(Record) \cup {Absent}
        <4>1. CASE data'[n] = data[n]
          BY <4>1
        <4>2. CASE data'[n] # data[n] /\ safe[n] = data[n]
          BY <2>3, <4>2 DEF Survivors
        <4>3. CASE data[n] # Absent
          BY <2>3, <4>3, SurvivorsTyped
        <4>4. CASE data[n] = Absent /\ safe[n] # data[n]
          BY <4>4
        <4> QED
          BY <4>1, <4>2, <4>3, <4>4
      <3> QED
        BY <2>4, <3>1
    <2>6. \A t \in Time : man'[t] = man[t] \/ man'[t] = manSafe[t]
      BY <1>12 DEF Crash
    <2>7. man' \in [Time -> Manifest]
      BY <1>12 DEF Crash
    <2>8. TypeOK'
      BY <1>0, <2>1, <2>2, <2>5, <2>7 DEF Threads
    <2>9. BusyWriters' /\ RenamedIsThere'
      BY <2>1 DEF Threads
    <2>10. PublishedIsSafe'
      <3>1. \A t \in Acked : version[t] \in Time
        OBVIOUS
      <3> QED
        BY <1>0, <2>2, <2>6, <3>1
    <2>11. SafeIsThere'
      BY <2>2
    <2> QED
      BY <2>8, <2>9, <2>10, <2>11
  <1>13. CASE UNCHANGED vars
    BY <1>0, <1>13 DEF vars
  <1> QED
    BY <1>1, <1>2, <1>3, <1>4, <1>5, <1>6, <1>7, <1>8, <1>9, <1>10, <1>11, <1>12,
       <1>13 DEF Next, CommitStep, PublishStep

LEMMA PublishInvCorrect == Spec => []PublishInv
  <1> QED
    BY PublishInvInit, PublishInvStep, PTL DEF Spec

\* Every variable of the commit path keeps its type, and a writer holds the
\* branch's lock for exactly as long as it is busy.
THEOREM CommitsTyped == Spec => []TypeOK
  <1>1. PublishInv => TypeOK
    BY DEF PublishInv
  <1> QED
    BY <1>1, PublishInvCorrect, PTL

\* The manifest whose timestamp a commit returned is there, after any crash.
THEOREM AckedArePublished == Spec => []AckedIsPublished
  <1>1. PublishInv => AckedIsPublished
    BY DEF PublishInv, PublishedIsSafe, AckedIsPublished
  <1> QED
    BY <1>1, PublishInvCorrect, PTL

-----------------------------------------------------------------------------
(* The WAL                                                                 *)

\* A file that has changed since its last fsync has had none.
SyncedOnce == \A n \in Segs : data[n] # safe[n] => safe[n] = Absent

\* A segment is of one commit, which was begun, and not longer than its cap.
OneCommitEach ==
    \A n \in Existing :
        /\ Len(data[n]) <= Cap
        /\ \E t \in begun \cup {0} : \A i \in DOMAIN data[n] : data[n][i] \in {t, 0}

\* What is said of commit t when all of its records are fsynced.
Whole(t) ==
    /\ \A n \in Segs : Holds(n, t) => data[n] = safe[n] /\ Readable(n)
    /\ IsFiniteSet(RecordsOf(t))

\* The records of a commit are all there and on the disk once it is flushed.
AckedAreWhole ==
    \A t \in Acked :
        /\ Whole(t)
        /\ Cardinality(RecordsOf(t)) = IF t <= Old THEN 1 ELSE Size

\* The commit under way.
UnderWay(w) ==
    LET n == thread[w].seq  t == thread[w].tx IN
    /\ t > Old
    /\ IsFiniteSet(RecordsOf(t))
    /\ thread[w].pc = "write" =>
          /\ \A m \in Existing : m <= n
          /\ safe[n] = Absent /\ \A i \in DOMAIN data[n] : data[n][i] = t
          /\ \A m \in Segs \ {n} : Holds(m, t) => data[m] = safe[m] /\ Readable(m)
          /\ Cardinality(RecordsOf(t)) + thread[w].left = Size
    /\ thread[w].pc # "write" =>
          /\ Whole(t)
          /\ Cardinality(RecordsOf(t)) = Size
    /\ \A u \in Txs \ {t} : \A m, k \in Segs : Holds(m, u) /\ Holds(k, t) => m < k

WritersUnderWay == \A w \in Writers : thread[w].pc # "idle" => UnderWay(w)

\* Acknowledged commits lie one after the other.
AckedInOrder ==
    \A i, j \in DOMAIN order : i < j =>
        \A n, m \in Segs : Holds(n, order[i]) /\ Holds(m, order[j]) => n < m

\* The commits of before are not begun again.
OldBegun == 1..Old \subseteq begun

LogInv == OldBegun /\ SyncedOnce /\ OneCommitEach /\ AckedAreWhole /\ WritersUnderWay /\ AckedInOrder

-----------------------------------------------------------------------------
(* The names of at most ten segments are in the order of their numbers.    *)

LEMMA RankOrder ==
    ASSUME MaxSeq <= 9, NEW n \in Segs, NEW m \in Segs
    PROVE  (Rank(n) <= Rank(m) <=> n <= m) /\ (Rank(n) < Rank(m) <=> n < m)
  <1>1. n \in Nat /\ n < 10 /\ m \in Nat /\ m < 10
    BY Constants DEF Segs
  <1> QED
    BY <1>1 DEF Rank

LEMMA LastIsHighest ==
    ASSUME MaxSeq <= 9, NEW n \in Segs, IsLast(n)
    PROVE  n \in Existing /\ \A m \in Existing : m <= n
  BY RankOrder DEF IsLast, Existing

\* A new segment comes after all that there are.
LEMMA NextIsFresh ==
    ASSUME MaxSeq <= 9
    PROVE  NextSeq \in Nat /\ \A m \in Existing : m < NextSeq
  <1>1. CASE Existing = {}
    BY <1>1 DEF NextSeq
  <1>2. CASE Existing # {}
    <2>1. Existing \in SUBSET (0..MaxSeq) /\ Existing \subseteq Segs
      BY DEF Existing, Segs
    <2>2. PICK n \in Existing : \A m \in Existing : m <= n
      <3> HIDE DEF Existing
      <3> QED
        BY <1>2, <2>1, Constants, Highest
    <2>3. IsLast(n)
      BY <2>1, <2>2, RankOrder DEF IsLast
    <2> DEFINE h == CHOOSE k \in Existing : IsLast(k)
    <2>4. h \in Existing /\ IsLast(h)
      BY <2>2, <2>3
    <2>5. NextSeq = h + 1
      BY <1>2 DEF NextSeq
    <2> HIDE DEF h
    <2>6. \A m \in Existing : m <= h
      BY <2>1, <2>4, LastIsHighest
    <2>7. \A m \in Existing : m \in Nat
      BY <2>1, Constants DEF Segs
    <2> QED
      BY <2>4, <2>5, <2>6, <2>7
  <1> QED
    BY <1>1, <1>2

\* What a step does to the files of other commits does not concern this one.
LEMMA SameRecords ==
    ASSUME NEW t \in Txs,
           \A n \in Segs : Holds(n, t) \/ Holds(n, t)' => data'[n] = data[n]
    PROVE  /\ RecordsOf(t)' = RecordsOf(t)
           /\ \A n \in Segs : Holds(n, t)' <=> Holds(n, t)
  <1>1. \A n \in Segs : Holds(n, t)' <=> Holds(n, t)
    BY DEF Holds
  <1>2. ASSUME NEW p \in Segs \X (1..Cap), p \in RecordsOf(t) PROVE p \in RecordsOf(t)'
    <2>1. p[1] \in Segs /\ Holds(p[1], t)
      BY <1>2 DEF RecordsOf, Readable, Holds
    <2>2. data'[p[1]] = data[p[1]]
      BY <2>1
    <2> QED
      BY <1>2, <2>1, <2>2 DEF RecordsOf, Readable
  <1>3. ASSUME NEW p \in Segs \X (1..Cap), p \in RecordsOf(t)' PROVE p \in RecordsOf(t)
    <2>1. p[1] \in Segs /\ Holds(p[1], t)'
      BY <1>3 DEF RecordsOf, Readable, Holds
    <2>2. data'[p[1]] = data[p[1]]
      BY <2>1
    <2> QED
      BY <1>3, <2>1, <2>2 DEF RecordsOf, Readable
  <1>4. RecordsOf(t) \subseteq Segs \X (1..Cap) /\ RecordsOf(t)' \subseteq Segs \X (1..Cap)
    BY DEF RecordsOf
  <1> QED
    BY <1>1, <1>2, <1>3, <1>4

LEMMA StaysWhole ==
    ASSUME NEW t \in Txs, Whole(t),
           \A n \in Segs : Holds(n, t) \/ Holds(n, t)' =>
                               data'[n] = data[n] /\ safe'[n] = safe[n]
    PROVE  Whole(t)' /\ RecordsOf(t)' = RecordsOf(t)
  <1>1. /\ RecordsOf(t)' = RecordsOf(t)
        /\ \A n \in Segs : Holds(n, t)' <=> Holds(n, t)
    BY SameRecords
  <1>2. ASSUME NEW n \in Segs, Holds(n, t)' PROVE data'[n] = safe'[n] /\ Readable(n)'
    BY <1>1, <1>2 DEF Whole, Readable
  <1> QED
    BY <1>1, <1>2 DEF Whole

\* A commit that was not begun has no records.
LEMMA NoRecords ==
    ASSUME OneCommitEach, NEW t \in Txs \ begun
    PROVE  /\ \A n \in Segs : ~ Holds(n, t)
           /\ RecordsOf(t) = {}
  <1>1. t # 0
    BY Constants DEF Txs
  <1>2. \A n \in Segs : ~ Holds(n, t)
    BY <1>1 DEF OneCommitEach, Holds, Existing
  <1>3. \A p \in RecordsOf(t) : p[1] \in Segs /\ Holds(p[1], t)
    BY DEF RecordsOf, Readable, Holds
  <1> QED
    BY <1>2, <1>3

LEMMA LogInvInit == Init => LogInv
  <1> SUFFICES ASSUME Init PROVE LogInv
    OBVIOUS
  <1> USE Constants
  <1>0. /\ data = [n \in Segs |-> IF n < Old THEN <<n + 1>> ELSE Absent] /\ safe = data
        /\ begun = 1..Old /\ order = [i \in 1..Old |-> i] /\ Acked = 1..Old
        /\ \A w \in Writers : thread[w].pc = "idle"
    BY DEF Init, Acked, Threads, Idle
  <1>1. ASSUME NEW n \in Segs
        PROVE  /\ data[n] # Absent <=> n < Old
               /\ n < Old => /\ data[n] = <<n + 1>> /\ Len(data[n]) = 1
                             /\ DOMAIN data[n] = 1..1 /\ data[n][1] = n + 1
    <2>1. n + 1 \in Nat
      BY DEF Segs
    <2>2. <<n + 1>> \in Seq(Nat) /\ Absent \notin Seq(Nat)
      BY <2>1, CasysAssumption
    <2>3. <<n + 1>> # Absent
      BY <2>2
    <2>4. /\ Len(<<n + 1>>) = 1 /\ DOMAIN <<n + 1>> = 1..1 /\ <<n + 1>>[1] = n + 1
      OBVIOUS
    <2> QED
      BY <1>0, <2>3, <2>4
  <1>2. \A n \in Segs, t \in Nat : Holds(n, t) <=> n < Old /\ t = n + 1
    BY <1>1 DEF Holds
  <1>3. \A n \in Segs : Readable(n) <=> n < Old
    BY <1>1 DEF Readable, Segs
  <1>4. ASSUME NEW t \in 1..Old PROVE RecordsOf(t) = {<<t - 1, 1>>}
    <2>1. t - 1 \in Segs /\ 1 \in 1..Cap
      BY DEF Segs
    <2>2. <<t - 1, 1>> \in RecordsOf(t)
      BY <1>1, <1>3, <2>1 DEF RecordsOf
    <2>3. ASSUME NEW p \in RecordsOf(t) PROVE p = <<t - 1, 1>>
      <3>1. /\ p \in Segs \X (1..Cap) /\ Readable(p[1]) /\ p[2] \in DOMAIN data[p[1]]
            /\ data[p[1]][p[2]] = t
        BY DEF RecordsOf
      <3>2. p = <<p[1], p[2]>> /\ p[1] \in Segs
        BY <3>1
      <3>3. p[1] < Old /\ p[2] = 1 /\ t = p[1] + 1
        BY <1>1, <1>3, <3>1, <3>2
      <3>4. p[1] = t - 1
        BY <3>2, <3>3 DEF Segs
      <3> QED
        BY <3>2, <3>3, <3>4
    <2> QED
      BY <2>2, <2>3
  <1>5. SyncedOnce /\ WritersUnderWay /\ OldBegun
    BY <1>0 DEF SyncedOnce, WritersUnderWay, OldBegun
  <1>6. OneCommitEach
    <2>1. ASSUME NEW n \in Existing
          PROVE  /\ Len(data[n]) <= Cap
                 /\ \E t \in begun \cup {0} : \A i \in DOMAIN data[n] : data[n][i] \in {t, 0}
      <3>1. n \in Segs /\ n < Old /\ n + 1 \in begun
        BY <1>0, <1>1 DEF Existing, Segs
      <3>2. \A i \in DOMAIN data[n] : data[n][i] \in {n + 1, 0}
        BY <1>1, <3>1
      <3>3. Len(data[n]) <= Cap
        <4>1. 1 <= Cap
          BY Constants
        <4>2. Len(data[n]) = 1
          BY <1>1, <3>1
        <4> QED
          BY <4>1, <4>2
      <3> QED
        BY <3>1, <3>2, <3>3
    <2> QED
      BY <2>1 DEF OneCommitEach
  <1>7. AckedAreWhole
    <2>1. ASSUME NEW t \in Acked PROVE Whole(t) /\ Cardinality(RecordsOf(t)) = 1
      <3>1. t \in 1..Old /\ t \in Nat
        BY <1>0
      <3>2. IsFiniteSet(RecordsOf(t)) /\ Cardinality(RecordsOf(t)) = 1
        BY <1>4, <3>1, FS_Singleton
      <3>3. \A n \in Segs : Holds(n, t) => data[n] = safe[n] /\ Readable(n)
        BY <1>0, <1>2, <1>3, <3>1
      <3> QED
        BY <3>2, <3>3 DEF Whole
    <2> QED
      BY <1>0, <2>1 DEF AckedAreWhole
  <1>8. AckedInOrder
    BY <1>0, <1>2 DEF AckedInOrder, Segs
  <1> QED
    BY <1>5, <1>6, <1>7, <1>8 DEF LogInv

\* What a crash leaves of a file without an fsync is nothing, or its first
\* records and perhaps a torn one.
LEMMA SurvivorsShort ==
    ASSUME NEW b \in Seq(Record), NEW c \in Survivors(Absent, b)
    PROVE  \/ c = Absent
           \/ /\ c \in Seq(Record) /\ Len(c) <= Len(b)
              /\ \A i \in DOMAIN c : c[i] = 0 \/ \E j \in DOMAIN b : c[i] = b[j]
  <1> DEFINE Short(q) == /\ q \in Seq(Record) /\ Len(q) <= Len(b)
                         /\ \A i \in DOMAIN q : q[i] = 0 \/ \E j \in DOMAIN b : q[i] = b[j]
  <1>1. ASSUME NEW k \in 0..Len(b)
        PROVE  /\ SubSeq(b, 1, k) \in Seq(Record) /\ Len(SubSeq(b, 1, k)) = k
               /\ DOMAIN SubSeq(b, 1, k) = 1..k
               /\ \A i \in 1..k : i \in DOMAIN b /\ SubSeq(b, 1, k)[i] = b[i]
    BY SubSeqProperties, LenProperties
  <1>2. SubSeq(b, 1, Len(b)) = b
    <2>1. Len(b) \in 0..Len(b) /\ b \in Seq(Record) /\ DOMAIN b = 1..Len(b)
      BY LenProperties
    <2> QED
      BY <1>1, <2>1, SeqEqual
  <1>3. CASE c \in Prefixes(b)
    <2>1. PICK k \in 0..Len(b) : c = SubSeq(b, 1, k)
      BY <1>3 DEF Prefixes
    <2>2. Len(b) \in Nat /\ k <= Len(b)
      BY LenProperties
    <2> QED
      BY <1>1, <2>1, <2>2
  <1>4. CASE \E p \in Prefixes(b) \ {b} : c = Append(p, 0)
    <2>1. PICK k \in 0..Len(b) : SubSeq(b, 1, k) # b /\ c = Append(SubSeq(b, 1, k), 0)
      BY <1>4 DEF Prefixes
    <2> DEFINE p == SubSeq(b, 1, k)
    <2>2. /\ p \in Seq(Record) /\ Len(p) = k /\ DOMAIN p = 1..k
          /\ \A i \in 1..k : i \in DOMAIN b /\ p[i] = b[i]
      BY <1>1
    <2>3. Len(b) \in Nat /\ k < Len(b)
      <3>1. k # Len(b)
        BY <1>2, <2>1
      <3> QED
        BY <3>1, LenProperties
    <2>4. p # b /\ c = Append(p, 0)
      BY <2>1
    <2> HIDE DEF p
    <2>5. /\ c \in Seq(Record) /\ Len(c) = k + 1 /\ DOMAIN c = 1..k + 1
          /\ \A i \in 1..k : c[i] = p[i]
          /\ c[k + 1] = 0
      <3>1. 0 \in Record
        BY DEF Record
      <3>2. c \in Seq(Record) /\ Len(c) = k + 1 /\ \A i \in 1..k : c[i] = p[i]
        BY <2>2, <2>4, <3>1, AppendProperties
      <3>3. c[k + 1] = 0
        BY <2>2, <2>4, <3>1, AppendProperties
      <3> QED
        BY <3>2, <3>3, LenProperties
    <2>6. \A i \in DOMAIN c : i \in 1..k \/ i = k + 1
      BY <2>5
    <2>7. k + 1 <= Len(b)
      BY <2>3
    <2> QED
      BY <2>2, <2>5, <2>6, <2>7
  <1>5. c = Absent \/ c \in Prefixes(b) \/ \E p \in Prefixes(b) \ {b} : c = Append(p, 0)
    <2>1. CASE b = Absent
      BY <2>1, AbsentIsNoFile
    <2>2. CASE b # Absent
      BY <2>2 DEF Survivors
    <2> QED
      BY <2>1, <2>2
  <1> QED
    BY <1>3, <1>4, <1>5

\* The steps that leave the files alone and acknowledge nothing.
LEMMA LogStays ==
    ASSUME LogInv, UNCHANGED <<data, safe, begun, order>>,
           \A w \in Writers :
              \/ thread'[w] = thread[w]
              \/ thread'[w].pc = "idle"
              \/ /\ thread[w].pc \notin {"idle", "write"} /\ thread'[w].pc # "write"
                 /\ thread'[w].tx = thread[w].tx
    PROVE  LogInv'
  <1>1. /\ Existing' = Existing /\ Acked' = Acked
        /\ \A n : Readable(n)' = Readable(n)
        /\ \A n, t : Holds(n, t)' = Holds(n, t)
    BY DEF Existing, Acked, Readable, Holds
  <1>2. \A t : RecordsOf(t)' = RecordsOf(t)
    BY DEF RecordsOf, Readable
  <1>3. \A t : Whole(t)' = Whole(t)
    BY <1>1, <1>2 DEF Whole
  <1>4. OldBegun' /\ SyncedOnce' /\ OneCommitEach' /\ AckedInOrder'
    BY <1>1 DEF LogInv, OldBegun, SyncedOnce, OneCommitEach, AckedInOrder, Holds
  <1>5. AckedAreWhole'
    BY <1>1, <1>2, <1>3 DEF LogInv, AckedAreWhole
  <1>6. ASSUME NEW w \in Writers, thread'[w].pc # "idle" PROVE UnderWay(w)'
    <2>1. UnderWay(w) /\ thread'[w].tx = thread[w].tx
      BY <1>6 DEF LogInv, WritersUnderWay
    <2>2. CASE thread'[w] = thread[w]
      BY <1>1, <1>2, <1>3, <2>1, <2>2 DEF UnderWay
    <2>3. CASE thread[w].pc # "write" /\ thread'[w].pc # "write"
      BY <1>1, <1>2, <1>3, <2>1, <2>3 DEF UnderWay
    <2> QED
      BY <1>6, <2>2, <2>3
  <1> QED
    BY <1>4, <1>5, <1>6 DEF LogInv, WritersUnderWay

\* A new segment is after all others and holds nothing.
LEMMA BeginKeepsLog ==
    ASSUME MaxSeq <= 9, PublishInv, PublishInv', LogInv,
           NEW w \in Writers, NEW t \in Txs, Begin(w, t)
    PROVE  LogInv'
  <1> USE Constants DEF PublishInv, LogInv
  <1> DEFINE k == NextSeq
  <1>1. /\ thread'[w].pc = "write" /\ thread'[w].tx = t /\ thread'[w].seq = k
        /\ thread'[w].left = Size
    BY Began DEF TypeOK
  <1>2. /\ k \in Segs /\ data' = [data EXCEPT ![k] = <<>>] /\ t \notin begun
        /\ begun' = begun \cup {t} /\ UNCHANGED <<safe, order>> /\ writer' = w
    BY DEF Begin
  <1>3. \A m \in Existing : m < k
    BY NextIsFresh
  <1>4. k \notin Existing /\ data[k] = Absent /\ safe[k] = Absent
    BY <1>2, <1>3 DEF Existing, SafeIsThere, Segs
  <1> HIDE DEF k
  <1>5. /\ data'[k] = <<>> /\ <<>> # Absent /\ DOMAIN data'[k] = {} /\ Len(data'[k]) = 0
        /\ \A n \in Segs : n # k => data'[n] = data[n]
    <2>1. data'[k] = <<>> /\ \A n \in Segs : n # k => data'[n] = data[n]
      BY <1>2 DEF TypeOK
    <2>2. DOMAIN <<>> = {} /\ Len(<<>>) = 0
      OBVIOUS
    <2> QED
      BY <2>1, <2>2, AbsentIsNoFile
  <1>6. \A n \in Segs, u \in Txs : Holds(n, u) \/ Holds(n, u)' => n # k
    BY <1>4, <1>5 DEF Holds
  <1>7. \A u \in Txs : /\ RecordsOf(u)' = RecordsOf(u)
                       /\ \A n \in Segs : Holds(n, u)' <=> Holds(n, u)
    BY <1>5, <1>6, SameRecords
  <1>8. OldBegun' /\ SyncedOnce'
    BY <1>2, <1>4, <1>5 DEF OldBegun, SyncedOnce
  <1>9. OneCommitEach'
    <2>1. ASSUME NEW n \in Existing'
          PROVE  /\ Len(data'[n]) <= Cap
                 /\ \E u \in begun' \cup {0} : \A i \in DOMAIN data'[n] : data'[n][i] \in {u, 0}
      <3>1. CASE n = k
        <4>1. 0 <= Cap /\ 0 \in begun' \cup {0}
          BY Constants
        <4>2. \A i \in DOMAIN data'[k] : data'[k][i] \in {0, 0}
          BY <1>5
        <4> QED
          BY <1>5, <3>1, <4>1, <4>2
      <3>2. CASE n # k
        <4>1. n \in Existing /\ data'[n] = data[n]
          BY <1>5, <3>2 DEF Existing
        <4> QED
          BY <1>2, <4>1 DEF OneCommitEach
      <3> QED
        BY <3>1, <3>2
    <2> QED
      BY <2>1 DEF OneCommitEach
  <1>10. Acked' = Acked /\ Acked \subseteq Txs
    BY <1>2 DEF Acked, TypeOK
  <1>11. AckedAreWhole'
    <2>1. ASSUME NEW u \in Acked PROVE Whole(u)'
      <3>1. \A n \in Segs : Holds(n, u) \/ Holds(n, u)' =>
                                data'[n] = data[n] /\ safe'[n] = safe[n]
        BY <1>2, <1>5, <1>6, <1>10
      <3> QED
        BY <1>10, <3>1, StaysWhole DEF AckedAreWhole
    <2> QED
      BY <1>7, <1>10, <2>1 DEF AckedAreWhole
  <1>12. WritersUnderWay'
    <2>1. \A v \in Writers : v # w => thread'[v].pc = "idle"
      BY <1>2 DEF TypeOK
    <2>2. (\A n \in Segs : ~ Holds(n, t)) /\ RecordsOf(t) = {}
      BY <1>2, NoRecords
    <2>3. t > Old
      BY <1>2 DEF OldBegun, Txs
    <2>4. IsFiniteSet(RecordsOf(t))' /\ (Cardinality(RecordsOf(t)) + thread[w].left = Size)'
      BY <1>1, <1>7, <2>2, FS_EmptySet
    <2>5. \A m \in Existing' : m <= k
      BY <1>2, <1>3, <1>5 DEF Existing, Segs
    <2>6. \A n \in Segs : ~ Holds(n, t)'
      BY <1>7, <2>2
    <2>7. \A i \in DOMAIN data'[k] : data'[k][i] = t
      BY <1>5
    <2>8. UnderWay(w)'
      BY <1>1, <1>2, <1>4, <2>3, <2>4, <2>5, <2>6, <2>7 DEF UnderWay
    <2> QED
      BY <2>1, <2>8 DEF WritersUnderWay
  <1>13. AckedInOrder'
    BY <1>2, <1>7 DEF AckedInOrder, TypeOK
  <1> QED
    BY <1>8, <1>9, <1>11, <1>12, <1>13

\* A record goes to the end of the newest segment, which has its commit only.
LEMMA AppendKeepsLog ==
    ASSUME PublishInv, PublishInv', LogInv, NEW w \in Writers, WriteRecord(w),
           Len(data[thread[w].seq]) < Cap
    PROVE  LogInv'
  <1> USE Constants DEF PublishInv, LogInv
  <1>0. PICK n \in Segs, t \in Txs : n = thread[w].seq /\ t = thread[w].tx
    BY DEF WriteRecord, TypeOK, BusyWriters, ThreadState, Threads
  <1> DEFINE l == Len(data[n])
  <1>1. /\ thread'[w].pc = "write" /\ thread'[w].tx = t /\ thread'[w].seq = n
        /\ thread'[w].left = thread[w].left - 1
    BY <1>0, Wrote DEF TypeOK
  <1>2. /\ thread[w].pc = "write" /\ thread[w].left > 0 /\ thread[w].left \in Nat
        /\ data' = [data EXCEPT ![n] = Append(@, t)]
        /\ UNCHANGED <<safe, writer, begun, order>> /\ writer' = w
    <2>1. thread[w].pc = "write" /\ thread[w].left > 0 /\ thread[w].left \in Nat
      BY DEF WriteRecord, TypeOK, ThreadState, Threads
    <2>2. /\ data' = [data EXCEPT ![n] = Append(@, t)]
          /\ UNCHANGED <<safe, writer, begun, order>>
      BY <1>0 DEF WriteRecord, history
    <2>3. writer = w
      BY <2>1 DEF TypeOK
    <2> QED
      BY <2>1, <2>2, <2>3
  <1>3. /\ t # 0 /\ t \in begun \ Acked /\ data[n] \in Seq(Record)
        /\ l < Cap /\ UnderWay(w)
    BY <1>0, <1>2 DEF TypeOK, BusyWriters, ThreadState, Threads, Txs, WritersUnderWay
  <1>4. /\ \A m \in Existing : m <= n
        /\ safe[n] = Absent /\ \A i \in DOMAIN data[n] : data[n][i] = t
        /\ \A m \in Segs \ {n} : Holds(m, t) => data[m] = safe[m] /\ Readable(m)
        /\ IsFiniteSet(RecordsOf(t)) /\ Cardinality(RecordsOf(t)) + thread[w].left = Size
        /\ t > Old
        /\ \A u \in Txs \ {t} : \A m, k \in Segs : Holds(m, u) /\ Holds(k, t) => m < k
    BY <1>0, <1>2, <1>3 DEF UnderWay
  <1> HIDE DEF l
  <1>5. /\ data'[n] \in Seq(Record) /\ Len(data'[n]) = l + 1 /\ l \in Nat
        /\ DOMAIN data[n] = 1..l /\ DOMAIN data'[n] = 1..(l + 1)
        /\ \A i \in 1..l : data'[n][i] = data[n][i]
        /\ data'[n][l + 1] = t
        /\ \A m \in Segs : m # n => data'[m] = data[m]
    <2>1. data'[n] = Append(data[n], t) /\ \A m \in Segs : m # n => data'[m] = data[m]
      BY <1>2, <1>3 DEF TypeOK
    <2>2. t \in Record
      BY <1>3 DEF Record
    <2>3. l \in Nat /\ DOMAIN data[n] = 1..l
      BY <1>3, LenProperties DEF l
    <2>4. /\ Append(data[n], t) \in Seq(Record) /\ Len(Append(data[n], t)) = l + 1
          /\ \A i \in 1..l : Append(data[n], t)[i] = data[n][i]
          /\ Append(data[n], t)[l + 1] = t
      BY <1>3, <2>2, AppendProperties DEF l
    <2> QED
      BY <2>1, <2>3, <2>4, LenProperties
  <1>6. \A i \in DOMAIN data'[n] : data'[n][i] = t
    <2>1. \A i \in DOMAIN data'[n] : i \in 1..l \/ i = l + 1
      BY <1>5
    <2> QED
      BY <1>4, <1>5, <2>1
  <1>7. data[n] # Absent /\ data'[n] # Absent
    BY <1>3, <1>5, AbsentIsNoFile
  <1>8. \A m \in Segs, u \in Txs : u # t /\ (Holds(m, u) \/ Holds(m, u)') => m # n
    BY <1>4, <1>6 DEF Holds
  <1>9. \A u \in Txs : u # t => /\ RecordsOf(u)' = RecordsOf(u)
                                /\ \A m \in Segs : Holds(m, u)' <=> Holds(m, u)
    BY <1>5, <1>8, SameRecords
  <1>10. Existing' = Existing
    BY <1>5, <1>7 DEF Existing
  <1>11. OldBegun' /\ SyncedOnce'
    BY <1>2, <1>4, <1>5 DEF OldBegun, SyncedOnce
  <1>12. OneCommitEach'
    <2>1. ASSUME NEW m \in Existing
          PROVE  /\ Len(data'[m]) <= Cap
                 /\ \E u \in begun' \cup {0} : \A i \in DOMAIN data'[m] : data'[m][i] \in {u, 0}
      <3>1. CASE m = n
        <4>1. t \in begun' \cup {0} /\ \A i \in DOMAIN data'[n] : data'[n][i] \in {t, 0}
          BY <1>2, <1>3, <1>6
        <4>2. Len(data'[n]) <= Cap
          BY <1>3, <1>5
        <4> QED
          BY <3>1, <4>1, <4>2
      <3>2. CASE m # n
        <4>1. data'[m] = data[m] /\ begun' = begun
          BY <1>2, <1>5, <3>2 DEF Existing
        <4> QED
          BY <4>1 DEF OneCommitEach
      <3> QED
        BY <3>1, <3>2
    <2> QED
      BY <1>10, <2>1 DEF OneCommitEach
  <1>13. Acked' = Acked /\ Acked \subseteq Txs /\ t \notin Acked
    BY <1>2, <1>3 DEF Acked, TypeOK
  <1>14. AckedAreWhole'
    <2>1. ASSUME NEW u \in Acked PROVE Whole(u)'
      <3>1. \A m \in Segs : Holds(m, u) \/ Holds(m, u)' =>
                                data'[m] = data[m] /\ safe'[m] = safe[m]
        BY <1>2, <1>5, <1>8, <1>13
      <3> QED
        BY <1>13, <3>1, StaysWhole DEF AckedAreWhole
    <2> QED
      BY <1>9, <1>13, <2>1 DEF AckedAreWhole
  <1>15. /\ RecordsOf(t)' = RecordsOf(t) \cup {<<n, l + 1>>}
         /\ <<n, l + 1>> \notin RecordsOf(t)
    <2>1. l + 1 \in 1..Cap /\ l + 1 \notin DOMAIN data[n]
      BY <1>3, <1>5
    <2>2. <<n, l + 1>> \notin RecordsOf(t)
      BY <2>1 DEF RecordsOf
    <2>3. Readable(n) /\ Readable(n)'
      BY <1>3, <1>4, <1>6, <1>7 DEF Readable
    <2>7. (\A i \in DOMAIN data[n] : data[n][i] = t) /\ (\A i \in DOMAIN data'[n] : data'[n][i] = t)
      BY <1>4, <1>6
    <2>4. ASSUME NEW p \in Segs \X (1..Cap)
          PROVE  p \in RecordsOf(t)' <=> p \in RecordsOf(t) \/ p = <<n, l + 1>>
      <3>1. p[1] \in Segs /\ p = <<p[1], p[2]>>
        OBVIOUS
      <3>2. CASE p[1] = n
        <4>1. p \in RecordsOf(t)' <=> p[2] \in DOMAIN data'[n]
          BY <2>3, <2>7, <3>2 DEF RecordsOf
        <4>2. p \in RecordsOf(t) <=> p[2] \in DOMAIN data[n]
          BY <2>3, <2>7, <3>2 DEF RecordsOf
        <4>3. p[2] \in DOMAIN data'[n] <=> p[2] \in DOMAIN data[n] \/ p[2] = l + 1
          BY <1>5
        <4> QED
          BY <3>1, <3>2, <4>1, <4>2, <4>3
      <3>3. CASE p[1] # n
        <4>1. data'[p[1]] = data[p[1]]
          BY <1>5, <3>1, <3>3
        <4>2. p # <<n, l + 1>>
          BY <3>3
        <4>3. Readable(p[1])' <=> Readable(p[1])
          BY <4>1 DEF Readable
        <4> QED
          BY <4>1, <4>2, <4>3 DEF RecordsOf
      <3> QED
        BY <3>2, <3>3
    <2>5. <<n, l + 1>> \in Segs \X (1..Cap)
      BY <1>3, <2>1
    <2>6. RecordsOf(t) \subseteq Segs \X (1..Cap) /\ RecordsOf(t)' \subseteq Segs \X (1..Cap)
      BY DEF RecordsOf
    <2> QED
      BY <2>2, <2>4, <2>5, <2>6
  <1>16. WritersUnderWay'
    <2>1. \A v \in Writers : v # w => thread'[v].pc = "idle"
      BY <1>2 DEF TypeOK
    <2>2. /\ IsFiniteSet(RecordsOf(t)')
          /\ Cardinality(RecordsOf(t)') + thread'[w].left = Size
      <3>1. /\ IsFiniteSet(RecordsOf(t)')
            /\ Cardinality(RecordsOf(t)') = Cardinality(RecordsOf(t)) + 1
        <4> DEFINE S == RecordsOf(t)
        <4>1. IsFiniteSet(S) /\ <<n, l + 1>> \notin S
          BY <1>4, <1>15
        <4> HIDE DEF S
        <4>2. IsFiniteSet(S \cup {<<n, l + 1>>}) /\ Cardinality(S \cup {<<n, l + 1>>}) = Cardinality(S) + 1
          BY <4>1, FS_AddElement
        <4> QED
          BY <1>15, <4>2 DEF S
      <3>2. Cardinality(RecordsOf(t)) \in Nat
        BY <1>4, FS_CardinalityType
      <3> QED
        BY <1>1, <1>2, <1>4, <3>1, <3>2
    <2>3. \A m \in Existing' : m <= n
      BY <1>4, <1>10
    <2>4. \A m \in Segs \ {n} : Holds(m, t)' => data'[m] = safe'[m] /\ Readable(m)'
      BY <1>2, <1>4, <1>5 DEF Holds, Readable
    <2>5. \A u \in Txs \ {t} : \A m, k \in Segs : Holds(m, u)' /\ Holds(k, t)' => m < k
      <3> SUFFICES ASSUME NEW u \in Txs \ {t}, NEW m \in Segs, NEW k \in Segs,
                          Holds(m, u)', Holds(k, t)'
                   PROVE  m < k
        OBVIOUS
      <3>1. m # n /\ Holds(m, u) /\ m \in Existing
        BY <1>8, <1>9 DEF Holds, Existing
      <3>2. CASE k = n
        <4>1. m <= n
          BY <1>4, <3>1
        <4> QED
          BY <1>3, <3>1, <3>2, <4>1 DEF Segs
      <3>3. CASE k # n
        BY <1>4, <1>5, <3>1, <3>3 DEF Holds
      <3> QED
        BY <3>2, <3>3
    <2>6. UnderWay(w)'
      BY <1>1, <1>2, <1>4, <1>6, <2>2, <2>3, <2>4, <2>5 DEF UnderWay
    <2> QED
      BY <2>1, <2>6 DEF WritersUnderWay
  <1>17. AckedInOrder'
    <2>1. \A i \in DOMAIN order : order[i] \in Acked
      BY DEF Acked
    <2>2. \A i \in DOMAIN order, m \in Segs : Holds(m, order[i])' <=> Holds(m, order[i])
      BY <1>2, <1>9, <1>13, <2>1
    <2> QED
      BY <1>2, <2>2 DEF AckedInOrder
  <1> QED
    BY <1>11, <1>12, <1>14, <1>16, <1>17

\* A full segment is fsynced, and the next one is new.
LEMMA RotateKeepsLog ==
    ASSUME PublishInv, PublishInv', LogInv, NEW w \in Writers, WriteRecord(w),
           ~ Len(data[thread[w].seq]) < Cap
    PROVE  LogInv'
  <1> USE Constants DEF PublishInv, LogInv
  <1>0. PICK n \in Segs, t \in Txs, k \in Segs :
            n = thread[w].seq /\ t = thread[w].tx /\ k = n + 1
    BY DEF WriteRecord, TypeOK, BusyWriters, ThreadState, Threads
  <1>1. /\ thread'[w].pc = "write" /\ thread'[w].tx = t /\ thread'[w].seq = k
        /\ thread'[w].left = thread[w].left
    BY <1>0, Wrote DEF TypeOK
  <1>2. /\ thread[w].pc = "write" /\ safe' = [safe EXCEPT ![n] = data[n]]
        /\ data' = [data EXCEPT ![k] = <<>>]
        /\ UNCHANGED <<writer, begun, order>> /\ writer' = w
    <2>1. thread[w].pc = "write"
      BY DEF WriteRecord
    <2>2. /\ safe' = [safe EXCEPT ![n] = data[n]] /\ data' = [data EXCEPT ![k] = <<>>]
          /\ UNCHANGED <<writer, begun, order>>
      BY <1>0 DEF WriteRecord, history
    <2>3. writer = w
      BY <2>1 DEF TypeOK
    <2> QED
      BY <2>1, <2>2, <2>3
  <1>3. t # 0 /\ t \in begun \ Acked /\ data[n] # Absent /\ UnderWay(w)
    BY <1>0, <1>2 DEF TypeOK, BusyWriters, ThreadState, Threads, Txs, WritersUnderWay
  <1>4. /\ \A m \in Existing : m <= n
        /\ safe[n] = Absent /\ \A i \in DOMAIN data[n] : data[n][i] = t
        /\ \A m \in Segs \ {n} : Holds(m, t) => data[m] = safe[m] /\ Readable(m)
        /\ IsFiniteSet(RecordsOf(t)) /\ Cardinality(RecordsOf(t)) + thread[w].left = Size
        /\ t > Old
        /\ \A u \in Txs \ {t} : \A m, j \in Segs : Holds(m, u) /\ Holds(j, t) => m < j
    BY <1>0, <1>2, <1>3 DEF UnderWay
  <1>5. k \notin Existing /\ data[k] = Absent /\ safe[k] = Absent /\ k # n
    BY <1>0, <1>4 DEF Existing, SafeIsThere, Segs
  <1>6. /\ data'[k] = <<>> /\ <<>> # Absent /\ DOMAIN data'[k] = {} /\ Len(data'[k]) = 0
        /\ \A m \in Segs : m # k => data'[m] = data[m]
        /\ safe'[n] = data[n] /\ \A m \in Segs : m # n => safe'[m] = safe[m]
    <2>1. data'[k] = <<>> /\ \A m \in Segs : m # k => data'[m] = data[m]
      BY <1>2 DEF TypeOK
    <2>2. DOMAIN <<>> = {} /\ Len(<<>>) = 0
      OBVIOUS
    <2>3. safe'[n] = data[n] /\ \A m \in Segs : m # n => safe'[m] = safe[m]
      BY <1>2 DEF TypeOK
    <2> QED
      BY <2>1, <2>2, <2>3, AbsentIsNoFile
  <1>7. \A m \in Segs, u \in Txs : Holds(m, u) \/ Holds(m, u)' => m # k /\ (m = n => u = t)
    BY <1>4, <1>5, <1>6 DEF Holds
  <1>8. \A u \in Txs : /\ RecordsOf(u)' = RecordsOf(u)
                       /\ \A m \in Segs : Holds(m, u)' <=> Holds(m, u)
    BY <1>6, <1>7, SameRecords
  <1>9. OldBegun' /\ SyncedOnce'
    BY <1>2, <1>5, <1>6 DEF OldBegun, SyncedOnce
  <1>10. OneCommitEach'
    <2>1. ASSUME NEW m \in Existing'
          PROVE  /\ Len(data'[m]) <= Cap
                 /\ \E u \in begun' \cup {0} : \A i \in DOMAIN data'[m] : data'[m][i] \in {u, 0}
      <3>1. CASE m = k
        <4>1. 0 <= Cap /\ 0 \in begun' \cup {0}
          BY Constants
        <4>2. \A i \in DOMAIN data'[k] : data'[k][i] \in {0, 0}
          BY <1>6
        <4> QED
          BY <1>6, <3>1, <4>1, <4>2
      <3>2. CASE m # k
        <4>1. m \in Existing /\ data'[m] = data[m]
          BY <1>6, <3>2 DEF Existing
        <4> QED
          BY <1>2, <4>1 DEF OneCommitEach
      <3> QED
        BY <3>1, <3>2
    <2> QED
      BY <2>1 DEF OneCommitEach
  <1>11. Acked' = Acked /\ Acked \subseteq Txs /\ t \notin Acked
    BY <1>2, <1>3 DEF Acked, TypeOK
  <1>12. AckedAreWhole'
    <2>1. ASSUME NEW u \in Acked PROVE Whole(u)'
      <3>1. \A m \in Segs : Holds(m, u) \/ Holds(m, u)' =>
                                data'[m] = data[m] /\ safe'[m] = safe[m]
        BY <1>6, <1>7, <1>11
      <3> QED
        BY <1>11, <3>1, StaysWhole DEF AckedAreWhole
    <2> QED
      BY <1>8, <1>11, <2>1 DEF AckedAreWhole
  <1>13. WritersUnderWay'
    <2>1. \A v \in Writers : v # w => thread'[v].pc = "idle"
      BY <1>2 DEF TypeOK
    <2>2. \A m \in Existing' : m <= k
      <3>1. \A m \in Existing' : m = k \/ m \in Existing
        BY <1>6 DEF Existing
      <3> QED
        BY <1>0, <1>4, <3>1 DEF Segs, Existing
    <2>3. \A m \in Segs \ {k} : Holds(m, t)' => data'[m] = safe'[m] /\ Readable(m)'
      <3> SUFFICES ASSUME NEW m \in Segs \ {k}, Holds(m, t)'
                   PROVE  data'[m] = safe'[m] /\ Readable(m)'
        OBVIOUS
      <3>1. Holds(m, t) /\ data'[m] = data[m]
        BY <1>6, <1>8
      <3>2. CASE m = n
        BY <1>3, <1>4, <1>6, <3>1, <3>2 DEF Readable
      <3>3. CASE m # n
        BY <1>4, <1>6, <3>1, <3>3 DEF Readable
      <3> QED
        BY <3>2, <3>3
    <2>4. \A u \in Txs \ {t} : \A m, j \in Segs : Holds(m, u)' /\ Holds(j, t)' => m < j
      BY <1>4, <1>8
    <2>5. \A i \in DOMAIN data'[k] : data'[k][i] = t
      BY <1>6
    <2>6. UnderWay(w)'
      BY <1>1, <1>4, <1>5, <1>6, <1>8, <2>2, <2>3, <2>4, <2>5 DEF UnderWay
    <2> QED
      BY <2>1, <2>6 DEF WritersUnderWay
  <1>14. AckedInOrder'
    BY <1>2, <1>8 DEF AckedInOrder, TypeOK
  <1> QED
    BY <1>9, <1>10, <1>12, <1>13, <1>14

\* After the last fsync the whole commit is on the disk.
LEMMA FlushKeepsLog ==
    ASSUME PublishInv, PublishInv', LogInv, NEW w \in Writers, Flush(w)
    PROVE  LogInv'
  <1> USE Constants DEF PublishInv, LogInv
  <1>0. PICK n \in Segs, t \in Txs : n = thread[w].seq /\ t = thread[w].tx
    BY DEF Flush, TypeOK, BusyWriters, ThreadState, Threads
  <1>1. /\ thread'[w].pc \in {"tail", "base"} /\ thread'[w].tx = t
        /\ \A y \in Threads : y # w => thread'[y] = thread[y]
    <2>1. PICK pc \in {"tail", "base"} : Goto(w, pc)
      BY DEF Flush
    <2> QED
      BY <1>0, <2>1, MovedOn DEF PC, TypeOK, Threads
  <1>2. /\ thread[w].pc = "write" /\ thread[w].left = 0
        /\ safe' = [safe EXCEPT ![n] = data[n]] /\ UNCHANGED <<data, writer, begun, order>>
    BY <1>0 DEF Flush, history
  <1>3. t # 0 /\ t \in begun \ Acked /\ data[n] # Absent /\ UnderWay(w)
    BY <1>0, <1>2 DEF TypeOK, BusyWriters, ThreadState, Threads, Txs, WritersUnderWay
  <1>4. /\ safe[n] = Absent /\ \A i \in DOMAIN data[n] : data[n][i] = t
        /\ \A m \in Segs \ {n} : Holds(m, t) => data[m] = safe[m] /\ Readable(m)
        /\ IsFiniteSet(RecordsOf(t)) /\ Cardinality(RecordsOf(t)) + thread[w].left = Size
        /\ t > Old
        /\ \A u \in Txs \ {t} : \A m, j \in Segs : Holds(m, u) /\ Holds(j, t) => m < j
    BY <1>0, <1>2, <1>3 DEF UnderWay
  <1>5. safe'[n] = data[n] /\ \A m \in Segs : m # n => safe'[m] = safe[m]
    BY <1>2 DEF TypeOK
  <1>6. /\ Existing' = Existing /\ Acked' = Acked
        /\ \A m : Readable(m)' = Readable(m)
        /\ \A m, u : Holds(m, u)' = Holds(m, u)
        /\ \A u : RecordsOf(u)' = RecordsOf(u)
    BY <1>2 DEF Existing, Acked, Readable, Holds, RecordsOf
  <1>7. OldBegun' /\ SyncedOnce'
    BY <1>2, <1>5 DEF OldBegun, SyncedOnce
  <1>8. OneCommitEach' /\ AckedInOrder'
    BY <1>2, <1>6 DEF OneCommitEach, AckedInOrder
  <1>9. AckedAreWhole'
    <2>1. ASSUME NEW u \in Acked PROVE Whole(u)'
      <3>1. u \in Txs /\ u # t /\ Whole(u)
        BY <1>3 DEF Acked, TypeOK, AckedAreWhole
      <3>2. \A m \in Segs : Holds(m, u) => m # n
        BY <1>4, <3>1 DEF Holds
      <3> QED
        BY <1>2, <1>5, <1>6, <3>1, <3>2 DEF Whole
    <2> QED
      BY <1>6, <2>1 DEF AckedAreWhole
  <1>10. WritersUnderWay'
    <2>1. \A v \in Writers : v # w => thread'[v].pc = "idle"
      BY <1>1, <1>2 DEF TypeOK, Threads
    <2>2. Readable(n)
      BY <1>3, <1>4 DEF Readable
    <2>3. Whole(t)'
      BY <1>2, <1>4, <1>5, <1>6, <2>2 DEF Whole
    <2>4. Cardinality(RecordsOf(t)) = Size
      <3>1. Cardinality(RecordsOf(t)) \in Nat
        BY <1>4, FS_CardinalityType
      <3> QED
        BY <1>2, <1>4, <3>1
    <2>5. UnderWay(w)'
      BY <1>1, <1>4, <1>6, <2>3, <2>4 DEF UnderWay
    <2> QED
      BY <2>1, <2>5 DEF WritersUnderWay
  <1> QED
    BY <1>7, <1>8, <1>9, <1>10

\* The commit that is acknowledged is whole, and after all acknowledged ones.
LEMMA SyncKeepsLog ==
    ASSUME PublishInv, LogInv, NEW w \in Writers, SyncDir(w)
    PROVE  LogInv'
  <1> USE Constants DEF PublishInv, LogInv
  <1>0. PICK t \in Txs : t = thread[w].tx /\ t \in begun \ Acked
    BY DEF SyncDir, TypeOK, BusyWriters, ThreadState, Threads
  <1>1. /\ thread[w].pc = "sync" /\ order' = Append(order, t)
        /\ UNCHANGED <<data, safe, begun>>
        /\ thread' = [thread EXCEPT ![w] = Idle]
    BY <1>0 DEF SyncDir, Done, files
  <1>2. /\ Acked' = Acked \cup {t}
        /\ DOMAIN order = 1..Len(order) /\ DOMAIN order' = 1..(Len(order) + 1)
        /\ Len(order) \in Nat
        /\ \A i \in DOMAIN order : order'[i] = order[i]
        /\ order'[Len(order) + 1] = t
    BY <1>1, Acknowledged DEF TypeOK
  <1>3. t > Old /\ Whole(t) /\ Cardinality(RecordsOf(t)) = Size
        /\ \A u \in Txs \ {t} : \A m, k \in Segs : Holds(m, u) /\ Holds(k, t) => m < k
    BY <1>0, <1>1 DEF WritersUnderWay, UnderWay
  <1>4. /\ Existing' = Existing
        /\ \A m : Readable(m)' = Readable(m)
        /\ \A u : RecordsOf(u)' = RecordsOf(u)
        /\ \A u : Whole(u)' = Whole(u)
    BY <1>1 DEF Existing, Readable, Holds, RecordsOf, Whole
  <1>5. OldBegun' /\ SyncedOnce' /\ OneCommitEach'
    BY <1>1, <1>4 DEF OldBegun, SyncedOnce, OneCommitEach
  <1>6. AckedAreWhole'
    <2>1. ASSUME NEW u \in Acked
          PROVE  Whole(u) /\ Cardinality(RecordsOf(u)) = IF u <= Old THEN 1 ELSE Size
      BY DEF AckedAreWhole
    <2>2. ~ t <= Old
      BY <1>0, <1>3 DEF Txs
    <2> QED
      BY <1>2, <1>3, <1>4, <2>1, <2>2 DEF AckedAreWhole
  <1>7. WritersUnderWay'
    <2>1. \A v \in Writers : thread'[v].pc = "idle"
      BY <1>1 DEF TypeOK, Idle, Threads
    <2> QED
      BY <2>1 DEF WritersUnderWay
  <1>8. AckedInOrder'
    <2> SUFFICES ASSUME NEW i \in DOMAIN order', NEW j \in DOMAIN order', i < j,
                        NEW n \in Segs, NEW m \in Segs,
                        Holds(n, order[i])', Holds(m, order[j])'
                 PROVE  n < m
      BY DEF AckedInOrder
    <2>1. i \in DOMAIN order /\ order'[i] = order[i] /\ order[i] \in Acked
      BY <1>2 DEF Acked
    <2>2. Holds(n, order[i])
      BY <1>1, <2>1 DEF Holds
    <2>3. CASE j \in DOMAIN order
      <3>1. Holds(m, order[j])
        BY <1>1, <1>2, <2>3 DEF Holds
      <3> QED
        BY <2>1, <2>2, <2>3, <3>1 DEF AckedInOrder
    <2>4. CASE j = Len(order) + 1
      <3>1. Holds(m, t)
        BY <1>1, <1>2, <2>4 DEF Holds
      <3>2. order[i] \in Txs \ {t}
        BY <1>0, <2>1 DEF TypeOK
      <3> QED
        BY <1>3, <2>2, <3>1, <3>2
    <2> QED
      BY <1>2, <2>3, <2>4
  <1> QED
    BY <1>5, <1>6, <1>7, <1>8

\* A crash spares what was fsynced, and that is all of what was acknowledged.
LEMMA CrashKeepsLog ==
    ASSUME PublishInv, LogInv, Crash
    PROVE  LogInv'
  <1> USE Constants DEF PublishInv, LogInv
  <1>1. /\ safe' = data' /\ UNCHANGED <<begun, order>>
        /\ \A x \in Threads : thread'[x].pc = "idle"
    BY DEF Crash, history, Idle
  <1>2. ASSUME NEW n \in Segs
        PROVE  IF data[n] = safe[n] THEN data'[n] = data[n]
               ELSE data'[n] \in Survivors(safe[n], data[n])
    BY DEF Crash
  <1>3. ASSUME NEW n \in Segs, data[n] # safe[n]
        PROVE  \/ data'[n] = Absent
               \/ /\ n \in Existing /\ data[n] \in Seq(Record) /\ data'[n] \in Seq(Record)
                  /\ Len(data'[n]) <= Len(data[n])
                  /\ \A i \in DOMAIN data'[n] :
                        data'[n][i] = 0 \/ \E j \in DOMAIN data[n] : data'[n][i] = data[n][j]
    <2>1. safe[n] = Absent /\ data[n] \in Seq(Record) /\ n \in Existing
      BY <1>3 DEF SyncedOnce, TypeOK, Existing
    <2>2. data'[n] \in Survivors(Absent, data[n])
      BY <1>2, <1>3, <2>1
    <2> QED
      BY <2>1, <2>2, SurvivorsShort
  <1>4. Acked' = Acked /\ Acked \subseteq Txs
    BY <1>1 DEF Acked, TypeOK
  <1>5. ASSUME NEW u \in Acked
        PROVE  \A n \in Segs : Holds(n, u) \/ Holds(n, u)' =>
                                   data'[n] = data[n] /\ safe'[n] = safe[n]
    <2> SUFFICES ASSUME NEW n \in Segs, Holds(n, u) \/ Holds(n, u)'
                 PROVE  data[n] = safe[n]
      BY <1>1, <1>2
    <2>1. u # 0 /\ \A m \in Segs : Holds(m, u) => data[m] = safe[m]
      BY <1>4 DEF Txs, AckedAreWhole, Whole
    <2>2. CASE data[n] # safe[n] /\ Holds(n, u)'
      <3>1. data'[n] # Absent /\ \E i \in DOMAIN data'[n] : data'[n][i] = u
        BY <2>2 DEF Holds
      <3>2. data[n] # Absent /\ \E j \in DOMAIN data[n] : data[n][j] = u
        BY <1>3, <2>1, <2>2, <3>1 DEF Existing
      <3> QED
        BY <2>1, <2>2, <3>2 DEF Holds
    <2> QED
      BY <2>1, <2>2
  <1>6. ASSUME NEW u \in Acked PROVE Whole(u)' /\ RecordsOf(u)' = RecordsOf(u)
    BY <1>4, <1>5, StaysWhole DEF AckedAreWhole
  <1>7. OldBegun' /\ SyncedOnce'
    BY <1>1 DEF OldBegun, SyncedOnce
  <1>8. OneCommitEach'
    <2>1. ASSUME NEW n \in Existing'
          PROVE  /\ Len(data'[n]) <= Cap
                 /\ \E t \in begun' \cup {0} : \A i \in DOMAIN data'[n] : data'[n][i] \in {t, 0}
      <3>1. n \in Segs /\ data'[n] # Absent
        BY DEF Existing
      <3>2. CASE data[n] = safe[n]
        <4>1. n \in Existing /\ data'[n] = data[n] /\ begun' = begun
          BY <1>1, <1>2, <3>1, <3>2 DEF Existing
        <4> QED
          BY <4>1 DEF OneCommitEach
      <3>3. CASE data[n] # safe[n]
        <4>1. /\ n \in Existing /\ data[n] \in Seq(Record) /\ data'[n] \in Seq(Record)
              /\ Len(data'[n]) <= Len(data[n])
              /\ \A i \in DOMAIN data'[n] :
                    data'[n][i] = 0 \/ \E j \in DOMAIN data[n] : data'[n][i] = data[n][j]
          BY <1>3, <3>1, <3>3
        <4>2. Len(data[n]) <= Cap /\ Len(data[n]) \in Nat /\ Len(data'[n]) \in Nat
          BY <4>1, LenProperties DEF OneCommitEach
        <4>3. PICK t \in begun \cup {0} : \A i \in DOMAIN data[n] : data[n][i] \in {t, 0}
          BY <4>1 DEF OneCommitEach
        <4>4. t \in begun' \cup {0} /\ \A i \in DOMAIN data'[n] : data'[n][i] \in {t, 0}
          BY <1>1, <4>1, <4>3
        <4>5. Len(data'[n]) <= Cap
          BY <4>1, <4>2
        <4> QED
          BY <4>4, <4>5
      <3> QED
        BY <3>2, <3>3
    <2> QED
      BY <2>1 DEF OneCommitEach
  <1>9. AckedAreWhole'
    BY <1>4, <1>6 DEF AckedAreWhole
  <1>10. WritersUnderWay'
    BY <1>1 DEF WritersUnderWay, Threads
  <1>11. AckedInOrder'
    <2>1. \A i \in DOMAIN order : order[i] \in Acked
      BY DEF Acked
    <2>2. \A i \in DOMAIN order, n \in Segs : Holds(n, order[i])' => Holds(n, order[i])
      BY <1>1, <1>5, <2>1 DEF Holds
    <2> QED
      BY <1>1, <2>2 DEF AckedInOrder
  <1> QED
    BY <1>7, <1>8, <1>9, <1>10, <1>11

LEMMA LogInvStep ==
    ASSUME MaxSeq <= 9, PublishInv, PublishInv', LogInv, [Next]_vars
    PROVE  LogInv'
  <1> USE DEF PublishInv, TypeOK
  <1>1. CASE Tick \/ UNCHANGED vars
    <2>1. UNCHANGED <<data, safe, begun, order>> /\ UNCHANGED thread
      BY <1>1 DEF Tick, vars, files, history
    <2> QED
      BY <2>1, LogStays
  <1>2. ASSUME NEW w \in Writers, NEW t \in Txs, Begin(w, t) PROVE LogInv'
    BY <1>2, BeginKeepsLog
  <1>3. ASSUME NEW w \in Writers, WriteRecord(w) PROVE LogInv'
    BY <1>3, AppendKeepsLog, RotateKeepsLog
  <1>4. ASSUME NEW w \in Writers, Flush(w) PROVE LogInv'
    BY <1>4, FlushKeepsLog
  <1>5. ASSUME NEW w \in Writers, ReadTail(w) PROVE LogInv'
    <2>1. /\ thread'[w].pc = "clock" /\ thread'[w].tx = thread[w].tx
          /\ \A y \in Threads : y # w => thread'[y] = thread[y]
      BY <1>5, TailRead
    <2>2. thread[w].pc = "tail" /\ UNCHANGED <<data, safe, begun, order>>
      BY <1>5 DEF ReadTail, files, history
    <2> QED
      BY <2>1, <2>2, LogStays DEF Threads
  <1>6. ASSUME NEW x \in Snappers, BeginSnapshot(x) PROVE LogInv'
    <2>1. \A y \in Threads : y # x => thread'[y] = thread[y]
      BY <1>6, SnapshotBegan
    <2>2. UNCHANGED <<data, safe, begun, order>>
      BY <1>6 DEF BeginSnapshot, files
    <2> QED
      BY <2>1, <2>2, LogStays, Constants DEF Threads
  <1>7. ASSUME NEW x \in Threads, ReadBase(x) PROVE LogInv'
    <2>1. /\ thread'[x].pc \in {"publish", "clock"} /\ thread'[x].tx = thread[x].tx
          /\ \A y \in Threads : y # x => thread'[y] = thread[y]
      BY <1>7, LatestTyped, BaseRead
    <2>2. thread[x].pc = "base" /\ UNCHANGED <<data, safe, begun, order>>
      BY <1>7 DEF ReadBase, files, history
    <2> QED
      BY <2>1, <2>2, LogStays DEF Threads
  <1>8. ASSUME NEW x \in Threads, ReadClock(x) PROVE LogInv'
    <2>1. /\ thread'[x].pc \in {"publish", "base"} /\ thread'[x].tx = thread[x].tx
          /\ \A y \in Threads : y # x => thread'[y] = thread[y]
      BY <1>8, ClockRead
    <2>2. thread[x].pc = "clock" /\ UNCHANGED <<data, safe, begun, order>>
      BY <1>8 DEF ReadClock, files, history
    <2> QED
      BY <2>1, <2>2, LogStays DEF Threads
  <1>9. ASSUME NEW x \in Threads, Publish(x) PROVE LogInv'
    <2>1. /\ thread'[x].pc = "sync" /\ thread'[x].tx = thread[x].tx
          /\ \A y \in Threads : y # x => thread'[y] = thread[y]
      BY <1>9, MovedOn DEF Publish, PC
    <2>2. thread[x].pc = "publish" /\ UNCHANGED <<data, safe, begun, order>>
      BY <1>9 DEF Publish, files, history
    <2> QED
      BY <2>1, <2>2, LogStays DEF Threads
  <1>10. ASSUME NEW x \in Threads, SyncDir(x) PROVE LogInv'
    <2>1. CASE x \in Writers
      BY <1>10, <2>1, SyncKeepsLog
    <2>2. CASE x \notin Writers
      <3>1. UNCHANGED <<data, safe, begun, order>>
        BY <1>10, <2>2 DEF SyncDir, Done, files
      <3>2. \A y \in Threads : y # x => thread'[y] = thread[y]
        BY <1>10, Ended DEF SyncDir, Done
      <3> QED
        BY <2>2, <3>1, <3>2, LogStays DEF Threads
    <2> QED
      BY <2>1, <2>2
  <1>11. ASSUME NEW x \in Threads, Fails(x) PROVE LogInv'
    <2>1. /\ thread'[x].pc = "idle"
          /\ \A y \in Threads : y # x => thread'[y] = thread[y]
      BY <1>11, Ended DEF Fails
    <2>2. UNCHANGED <<data, safe, begun, order>>
      BY <1>11 DEF Fails, files, history
    <2> QED
      BY <2>1, <2>2, LogStays DEF Threads
  <1>12. CASE Crash
    BY <1>12, CrashKeepsLog
  <1> QED
    BY <1>1, <1>2, <1>3, <1>4, <1>5, <1>6, <1>7, <1>8, <1>9, <1>10, <1>11, <1>12
       DEF Next, CommitStep, PublishStep

LEMMA LogInvCorrect == ASSUME MaxSeq <= 9 PROVE Spec => []LogInv
  <1>1. PublishInv /\ PublishInv' /\ LogInv /\ [Next]_vars => LogInv'
    BY LogInvStep
  <1> QED
    BY <1>1, LogInvInit, PublishInvCorrect, PTL DEF Spec

\* Every record of an acknowledged commit is in the WAL, once, and can be read,
\* whatever crashes and errors came in between.
THEOREM AckedSurvive == ASSUME MaxSeq <= 9 PROVE Spec => []AckedSurvives
  <1>1. LogInv => AckedSurvives
    BY DEF LogInv, AckedAreWhole, AckedSurvives
  <1> QED
    BY <1>1, LogInvCorrect, PTL

\* The names of the segments list acknowledged commits in their order.
THEOREM CommitsAreListedInOrder == ASSUME MaxSeq <= 9 PROVE Spec => []ListedInOrder
  <1>1. LogInv => ListedInOrder
    BY RankOrder DEF LogInv, AckedInOrder, ListedInOrder
  <1> QED
    BY <1>1, LogInvCorrect, PTL

-----------------------------------------------------------------------------
(* The tail of the WAL in the manifests of a composite backend             *)

Covers(m, t) ==
    m # <<>> /\ m[1] \in Segs /\ \A n \in Segs : Holds(n, t) => n <= m[1]

\* A manifest covers every commit acknowledged up to its time.
DatedCover ==
    \A ts \in Time, t \in Acked : version[t] <= ts =>
        /\ man[ts] # <<>> => Covers(man[ts], t)
        /\ manSafe[ts] # <<>> => Covers(manSafe[ts], t)

\* No manifest and no thread is ahead of the clock.
NotAhead ==
    /\ \A ts \in Time : man[ts] # <<>> \/ manSafe[ts] # <<>> => ts <= now
    /\ \A x \in Threads : thread[x].ts <= now

\* Snapshots and commits take turns.
TakeTurns == ~ (Busy(Writers) /\ Busy(Snappers))

\* A commit that has its tail covers everything there is; with its time, no
\* manifest is later; and after the rename its manifest has that tail.
WriterCovers(w) ==
    /\ thread[w].pc \in {"clock", "base", "publish", "sync"} =>
          thread[w].tail \in Segs /\ \A n \in Existing : n <= thread[w].tail
    /\ thread[w].pc \in {"base", "publish", "sync"} =>
          \A ts \in Time : man[ts] # <<>> \/ manSafe[ts] # <<>> => ts <= thread[w].ts
    /\ thread[w].pc = "sync" => man[thread[w].ts] = <<thread[w].tail>>

\* A snapshot repeats a tail that covers every acknowledged commit.
SnapperCovers(x) ==
    /\ thread[x].pc # "idle" => thread[x].tail = Absent
    /\ thread[x].pc = "publish" => \A t \in Acked : Covers(thread[x].base, t)

CoverInv ==
    /\ TakeTurns
    /\ DatedCover
    /\ \A w \in Writers : WriterCovers(w)
    /\ \A x \in Snappers : SnapperCovers(x)

TailInv == NotAhead /\ (composite /\ ~overlap => CoverInv)

\* The records of acknowledged commits are nowhere they were not before.
LEMMA AckedStayPut ==
    ASSUME PublishInv, SyncedOnce, [Next]_vars
    PROVE  \A t \in Acked, n \in Segs : Holds(n, t)' => Holds(n, t)
  <1> USE DEF PublishInv
  <1> SUFFICES ASSUME NEW t \in Acked, NEW n \in Segs, Holds(n, t)' PROVE Holds(n, t)
    OBVIOUS
  <1>0. t # 0 /\ data'[n] # Absent /\ \E i \in DOMAIN data'[n] : data'[n][i] = t
    BY Constants DEF Holds, TypeOK, Acked, Txs
  <1>1. SUFFICES ASSUME data'[n] # data[n]
                 PROVE  data[n] # Absent /\ \E i \in DOMAIN data[n] : data[n][i] = t
    BY <1>0 DEF Holds
  <1>2. ASSUME NEW w \in Writers, NEW u \in Txs, Begin(w, u) PROVE FALSE
    <2>1. data'[n] = <<>>
      BY <1>1, <1>2 DEF Begin, TypeOK
    <2> QED
      BY <1>0, <2>1
  <1>3. ASSUME NEW w \in Writers, WriteRecord(w)
        PROVE  data[n] # Absent /\ \E i \in DOMAIN data[n] : data[n][i] = t
    <2>0. PICK k \in Segs, u \in Txs : k = thread[w].seq /\ u = thread[w].tx /\ u # t
      BY <1>3 DEF WriteRecord, TypeOK, BusyWriters, ThreadState, Threads
    <2>1. data[k] \in Seq(Record) /\ data[k] # Absent
      BY <1>3, <2>0 DEF WriteRecord, TypeOK, BusyWriters
    <2>2. CASE Len(data[k]) < Cap
      <3>1. data' = [data EXCEPT ![k] = Append(@, u)]
        BY <1>3, <2>0, <2>2 DEF WriteRecord
      <3>2. n = k /\ data'[n] = Append(data[k], u)
        BY <1>1, <3>1 DEF TypeOK
      <3>3. u \in Record
        BY DEF Record
      <3>4. PICK i \in DOMAIN data'[n] : data'[n][i] = t
        BY <1>0
      <3>5. /\ DOMAIN data'[n] = 1..(Len(data[k]) + 1) /\ DOMAIN data[k] = 1..Len(data[k])
            /\ \A j \in 1..Len(data[k]) : data'[n][j] = data[k][j]
            /\ data'[n][Len(data[k]) + 1] = u /\ Len(data[k]) \in Nat
        <4>1. /\ data'[n] \in Seq(Record) /\ Len(data'[n]) = Len(data[k]) + 1
              /\ \A j \in 1..Len(data[k]) : data'[n][j] = data[k][j]
              /\ data'[n][Len(data[k]) + 1] = u
          BY <2>1, <3>2, <3>3, AppendProperties
        <4> QED
          BY <2>1, <4>1, LenProperties
      <3>6. i \in DOMAIN data[k]
        BY <2>0, <3>4, <3>5
      <3> QED
        BY <2>1, <3>2, <3>4, <3>5, <3>6
    <2>3. CASE ~ Len(data[k]) < Cap
      <3>1. data' = [data EXCEPT ![k + 1] = <<>>]
        BY <1>3, <2>0, <2>3 DEF WriteRecord
      <3>2. data'[n] = <<>>
        BY <1>1, <3>1 DEF TypeOK
      <3> QED
        BY <1>0, <3>2
    <2> QED
      BY <2>2, <2>3
  <1>4. ASSUME Crash
        PROVE  data[n] # Absent /\ \E i \in DOMAIN data[n] : data[n][i] = t
    <2>1. data'[n] \in Survivors(safe[n], data[n]) /\ data[n] # safe[n]
      BY <1>1, <1>4 DEF Crash
    <2>2. safe[n] = Absent /\ data[n] \in Seq(Record) /\ data[n] # Absent
      BY <2>1 DEF SyncedOnce, TypeOK
    <2>3. data'[n] \in Survivors(Absent, data[n])
      BY <2>1, <2>2
    <2>4. \A i \in DOMAIN data'[n] : data'[n][i] = 0 \/ \E j \in DOMAIN data[n] : data'[n][i] = data[n][j]
      BY <1>0, <2>2, <2>3, SurvivorsShort
    <2> QED
      BY <1>0, <2>2, <2>4
  <1>5. ASSUME UNCHANGED data PROVE FALSE
    BY <1>1, <1>5
  <1> QED
    BY <1>2, <1>3, <1>4, <1>5 DEF Next, CommitStep, PublishStep, Tick, Flush, ReadTail,
       BeginSnapshot, ReadBase, ReadClock, Publish, SyncDir, Fails, vars, files

\* With a commit acknowledged, the latest manifest covers it.
LEMMA LatestCovers ==
    ASSUME PublishInv, DatedCover, NEW t \in Acked
    PROVE  Covers(Latest, t)
  <1>1. /\ man \in [Time -> Manifest] /\ version[t] \in Time /\ man[version[t]] # <<>>
    BY DEF PublishInv, TypeOK, PublishedIsSafe, Acked
  <1>2. PICK h \in Time : /\ Latest = man[h] /\ man[h] # <<>>
                          /\ \A u \in Time : man[u] # <<>> => u <= h
    BY <1>1, LatestIsHighest
  <1> QED
    BY <1>1, <1>2 DEF DatedCover

LEMMA NotAheadStep ==
    ASSUME PublishInv, NotAhead, [Next]_vars
    PROVE  NotAhead'
  <1> USE Constants DEF PublishInv, TypeOK, NotAhead
  <1>0. now \in Nat /\ \A ts \in Time : ts \in Nat
    BY DEF Time
  <1>1. CASE Tick
    <2>1. now' = now + 1 /\ UNCHANGED <<man, manSafe, thread>>
      BY <1>1 DEF Tick, mans
    <2>2. \A ts \in Nat : ts <= now => ts <= now'
      BY <1>0, <2>1
    <2>3. \A x \in Threads : thread[x].ts \in Nat
      BY <1>0 DEF ThreadState
    <2> QED
      BY <1>0, <2>1, <2>2, <2>3
  <1>2. ASSUME NEW w \in Writers, NEW t \in Txs, Begin(w, t) PROVE NotAhead'
    <2>1. thread'[w].ts = 0 /\ \A y \in Threads : y # w => thread'[y] = thread[y]
      BY <1>2, Began
    <2>2. UNCHANGED <<now, man, manSafe>>
      BY <1>2 DEF Begin, mans
    <2>3. \A y \in Threads : thread'[y].ts <= now
      BY <1>0, <2>1
    <2> QED
      BY <2>2, <2>3
  <1>3. ASSUME NEW w \in Writers, WriteRecord(w) PROVE NotAhead'
    <2>1. thread'[w].ts = thread[w].ts /\ \A y \in Threads : y # w => thread'[y] = thread[y]
      BY <1>3, Wrote
    <2>2. UNCHANGED <<now, man, manSafe>>
      BY <1>3 DEF WriteRecord, mans
    <2> QED
      BY <2>1, <2>2 DEF Threads
  <1>4. ASSUME NEW w \in Writers, Flush(w) PROVE NotAhead'
    <2>1. PICK pc \in {"tail", "base"} : Goto(w, pc)
      BY <1>4 DEF Flush
    <2>2. thread'[w].ts = thread[w].ts /\ \A y \in Threads : y # w => thread'[y] = thread[y]
      BY <2>1, MovedOn DEF PC, Threads
    <2>3. UNCHANGED <<now, man, manSafe>>
      BY <1>4 DEF Flush, mans
    <2> QED
      BY <2>2, <2>3 DEF Threads
  <1>5. ASSUME NEW w \in Writers, ReadTail(w) PROVE NotAhead'
    <2>1. thread'[w].ts = thread[w].ts /\ \A y \in Threads : y # w => thread'[y] = thread[y]
      BY <1>5, TailRead
    <2>2. UNCHANGED <<now, man, manSafe>>
      BY <1>5 DEF ReadTail, mans
    <2> QED
      BY <2>1, <2>2 DEF Threads
  <1>6. ASSUME NEW x \in Snappers, BeginSnapshot(x) PROVE NotAhead'
    <2>1. thread'[x].ts = 0 /\ \A y \in Threads : y # x => thread'[y] = thread[y]
      BY <1>6, SnapshotBegan
    <2>2. UNCHANGED <<now, man, manSafe>>
      BY <1>6 DEF BeginSnapshot, mans
    <2> QED
      BY <1>0, <2>1, <2>2
  <1>7. ASSUME NEW x \in Threads, ReadBase(x) PROVE NotAhead'
    <2>1. thread'[x].ts = thread[x].ts /\ \A y \in Threads : y # x => thread'[y] = thread[y]
      BY <1>7, LatestTyped, BaseRead
    <2>2. UNCHANGED <<now, man, manSafe>>
      BY <1>7 DEF ReadBase, mans
    <2> QED
      BY <2>1, <2>2
  <1>8. ASSUME NEW x \in Threads, ReadClock(x) PROVE NotAhead'
    <2>1. thread'[x].ts = now /\ \A y \in Threads : y # x => thread'[y] = thread[y]
      BY <1>8, ClockRead
    <2>2. UNCHANGED <<now, man, manSafe>>
      BY <1>8 DEF ReadClock, mans
    <2> QED
      BY <1>0, <2>1, <2>2
  <1>9. ASSUME NEW x \in Threads, Publish(x) PROVE NotAhead'
    <2>1. thread'[x].ts = thread[x].ts /\ \A y \in Threads : y # x => thread'[y] = thread[y]
      BY <1>9, MovedOn DEF Publish, PC
    <2>2. UNCHANGED <<now, manSafe>> /\ \A ts \in Time : man'[ts] = man[ts] \/ ts = thread[x].ts
      BY <1>9 DEF Publish
    <2> QED
      BY <2>1, <2>2
  <1>10. ASSUME NEW x \in Threads, SyncDir(x) PROVE NotAhead'
    <2>1. thread'[x] = Idle /\ \A y \in Threads : y # x => thread'[y] = thread[y]
      BY <1>10, Ended DEF SyncDir, Done
    <2>2. UNCHANGED <<now, man>> /\ manSafe' = man
      BY <1>10 DEF SyncDir
    <2> QED
      BY <1>0, <2>1, <2>2 DEF Idle
  <1>11. ASSUME NEW x \in Threads, Fails(x) PROVE NotAhead'
    <2>1. thread'[x] = Idle /\ \A y \in Threads : y # x => thread'[y] = thread[y]
      BY <1>11, Ended DEF Fails
    <2>2. UNCHANGED <<now, man, manSafe>>
      BY <1>11 DEF Fails, mans
    <2> QED
      BY <1>0, <2>1, <2>2 DEF Idle
  <1>12. CASE Crash
    <2>1. \A x \in Threads : thread'[x].ts = 0
      BY <1>12 DEF Crash, Idle
    <2>2. /\ UNCHANGED now /\ manSafe' = man'
          /\ \A ts \in Time : man'[ts] = man[ts] \/ man'[ts] = manSafe[ts]
      BY <1>12 DEF Crash
    <2> QED
      BY <1>0, <2>1, <2>2
  <1>13. CASE UNCHANGED vars
    BY <1>13 DEF vars, mans
  <1> QED
    BY <1>1, <1>2, <1>3, <1>4, <1>5, <1>6, <1>7, <1>8, <1>9, <1>10, <1>11, <1>12,
       <1>13 DEF Next, CommitStep, PublishStep

LEMMA TailInvInit == Init => TailInv
  <1> SUFFICES ASSUME Init PROVE TailInv
    OBVIOUS
  <1> USE Constants
  <1>1. \A x \in Threads : thread[x].pc = "idle" /\ thread[x].ts = 0
    BY DEF Init, Idle
  <1>2. /\ now = 0 /\ manSafe = man /\ Acked = 1..Old /\ 0 \in Time
        /\ \A ts \in Time : man[ts] # <<>> => ts = 0 /\ Old # 0
                            /\ (composite => man[ts] = <<Old - 1>>)
    <2>1. \A ts \in Time : ts > 0 \/ ts = 0
      BY DEF Time
    <2> QED
      BY <2>1 DEF Init, Acked, Time
  <1>3. NotAhead
    BY <1>1, <1>2 DEF NotAhead
  <1>4. TakeTurns /\ (\A w \in Writers : WriterCovers(w)) /\ (\A x \in Snappers : SnapperCovers(x))
    BY <1>1 DEF TakeTurns, Busy, WriterCovers, SnapperCovers, Threads
  <1>5. ASSUME composite PROVE DatedCover
    <2> SUFFICES ASSUME NEW ts \in Time, NEW t \in Acked, man[ts] # <<>>
                 PROVE  Covers(man[ts], t)
      BY <1>2 DEF DatedCover
    <2>1. man[ts] = <<Old - 1>> /\ Old - 1 \in Segs /\ t \in 1..Old
      BY <1>2, <1>5 DEF Segs
    <2>2. ASSUME NEW n \in Segs, Holds(n, t) PROVE n <= Old - 1
      <3>1. n < Old
        BY <2>2 DEF Init, Holds
      <3> QED
        BY <3>1 DEF Segs
    <2> QED
      BY <2>1, <2>2 DEF Covers
  <1> QED
    BY <1>3, <1>4, <1>5 DEF TailInv, CoverInv

\* While the other threads rest, only this writer has to be looked at.
LEMMA WriterAlone ==
    ASSUME NEW w \in Writers, WriterCovers(w)',
           \A y \in Threads : y # w => thread'[y].pc = "idle"
    PROVE  /\ TakeTurns' /\ (\A v \in Writers : WriterCovers(v)')
           /\ (\A x \in Snappers : SnapperCovers(x)')
  <1>1. /\ \A v \in Writers : v # w => thread'[v].pc = "idle"
        /\ \A x \in Snappers : thread'[x].pc = "idle"
    BY Constants DEF Threads
  <1> QED
    BY <1>1 DEF TakeTurns, Busy, WriterCovers, SnapperCovers

\* A writer that acts is the only thread that does not rest.
LEMMA OthersRest ==
    ASSUME PublishInv, TakeTurns, NEW w \in Writers, thread[w].pc # "idle"
    PROVE  \A y \in Threads : y # w => thread[y].pc = "idle"
  BY DEF PublishInv, TypeOK, TakeTurns, Busy, Threads

LEMMA CoverStep ==
    ASSUME MaxSeq <= 9, PublishInv, LogInv, NotAhead, CoverInv, [Next]_vars,
           composite, ~ overlap'
    PROVE  CoverInv'
  <1> USE Constants DEF PublishInv, TypeOK, CoverInv
  <1>0. \A t \in Acked, n \in Segs : Holds(n, t)' => Holds(n, t)
    BY AckedStayPut DEF LogInv
  <1>a. ASSUME UNCHANGED <<man, manSafe, version, order>> PROVE DatedCover'
    <2>1. Acked' = Acked
      BY <1>a DEF Acked
    <2> QED
      BY <1>0, <1>a, <2>1 DEF DatedCover, Covers
  <1>b. ASSUME NEW w \in Writers, UNCHANGED <<man, manSafe, version, order>>,
               thread[w].pc # "idle", WriterCovers(w)',
               \A y \in Threads : y # w => thread'[y] = thread[y]
        PROVE  CoverInv'
    <2>1. \A y \in Threads : y # w => thread'[y].pc = "idle"
      BY <1>b, OthersRest
    <2> QED
      BY <1>a, <1>b, <2>1, WriterAlone
  <1>c. ASSUME NEW x \in Snappers, DatedCover', SnapperCovers(x)', UNCHANGED order,
               \A w \in Writers : thread[w].pc = "idle",
               \A y \in Threads : y # x => thread'[y] = thread[y]
        PROVE  CoverInv'
    <2>1. \A w \in Writers : thread'[w].pc = "idle"
      BY <1>c DEF Threads
    <2>2. TakeTurns' /\ \A w \in Writers : WriterCovers(w)'
      BY <2>1 DEF TakeTurns, Busy, WriterCovers
    <2>3. ASSUME NEW y \in Snappers, y # x PROVE SnapperCovers(y)'
      <3>1. thread'[y] = thread[y] /\ Acked' = Acked
        BY <1>c, <2>3 DEF Threads, Acked
      <3> QED
        BY <1>0, <3>1 DEF SnapperCovers, Covers
    <2> QED
      BY <1>c, <2>2, <2>3
  <1>d. ASSUME NEW x \in Snappers, thread[x].pc # "idle"
        PROVE  \A w \in Writers : thread[w].pc = "idle"
    BY <1>d DEF TakeTurns, Busy
  <1>1. CASE Tick \/ UNCHANGED vars
    <2>1. UNCHANGED <<data, man, manSafe, version, order, thread>>
      BY <1>1 DEF Tick, vars, files, mans, history
    <2>2. Acked' = Acked /\ Existing' = Existing
      BY <2>1 DEF Acked, Existing
    <2> QED
      BY <1>0, <1>a, <2>1, <2>2 DEF TakeTurns, Busy, WriterCovers, SnapperCovers, Covers
  <1>2. ASSUME NEW w \in Writers, NEW t \in Txs, Begin(w, t) PROVE CoverInv'
    <2>1. /\ thread'[w].pc = "write" /\ \A y \in Threads : y # w => thread'[y] = thread[y]
      BY <1>2, Began
    <2>2. writer = Nobody /\ ~ Busy(Snappers) /\ UNCHANGED <<man, manSafe, version, order>>
      BY <1>2 DEF Begin, mans
    <2>3. \A y \in Threads : y # w => thread'[y].pc = "idle"
      BY <2>1, <2>2 DEF Busy, Threads
    <2>4. WriterCovers(w)'
      BY <2>1 DEF WriterCovers
    <2> QED
      BY <1>a, <2>2, <2>3, <2>4, WriterAlone
  <1>3. ASSUME NEW w \in Writers, WriteRecord(w) PROVE CoverInv'
    <2>1. /\ thread'[w].pc = "write" /\ \A y \in Threads : y # w => thread'[y] = thread[y]
      BY <1>3, Wrote
    <2>2. thread[w].pc = "write" /\ UNCHANGED <<man, manSafe, version, order>>
      BY <1>3 DEF WriteRecord, mans, history
    <2>3. WriterCovers(w)'
      BY <2>1 DEF WriterCovers
    <2> QED
      BY <1>b, <2>1, <2>2, <2>3
  <1>4. ASSUME NEW w \in Writers, Flush(w) PROVE CoverInv'
    <2>1. /\ thread'[w].pc = "tail" /\ \A y \in Threads : y # w => thread'[y] = thread[y]
      BY <1>4, MovedOn DEF Flush, PC, Threads
    <2>2. thread[w].pc = "write" /\ UNCHANGED <<man, manSafe, version, order>>
      BY <1>4 DEF Flush, mans, history
    <2>3. WriterCovers(w)'
      BY <2>1 DEF WriterCovers
    <2> QED
      BY <1>b, <2>1, <2>2, <2>3
  <1>5. ASSUME NEW w \in Writers, ReadTail(w) PROVE CoverInv'
    <2>1. /\ thread'[w].pc = "clock" /\ thread'[w].tail \in Segs /\ IsLast(thread'[w].tail)
          /\ \A y \in Threads : y # w => thread'[y] = thread[y]
      BY <1>5, TailRead
    <2>2. thread[w].pc = "tail" /\ UNCHANGED <<data, man, manSafe, version, order>>
      BY <1>5 DEF ReadTail, mans, files, history
    <2>3. \A n \in Existing' : n <= thread'[w].tail
      <3>1. Existing' = Existing
        BY <2>2 DEF Existing
      <3>2. PICK l \in Segs : l = thread'[w].tail /\ IsLast(l)
        BY <2>1
      <3>3. \A n \in Existing : n <= l
        BY <3>2, LastIsHighest
      <3> QED
        BY <3>1, <3>2, <3>3
    <2>4. WriterCovers(w)'
      BY <2>1, <2>3 DEF WriterCovers
    <2> QED
      BY <1>b, <2>1, <2>2, <2>4
  <1>6. ASSUME NEW x \in Snappers, BeginSnapshot(x) PROVE CoverInv'
    <2>1. /\ thread'[x].pc = "clock" /\ thread'[x].tail = Absent
          /\ \A y \in Threads : y # x => thread'[y] = thread[y]
      BY <1>6, SnapshotBegan
    <2>2. ~ Busy(Writers) /\ UNCHANGED <<man, manSafe, version, order>>
      BY <1>6 DEF BeginSnapshot, mans
    <2>3. SnapperCovers(x)'
      BY <2>1 DEF SnapperCovers
    <2> QED
      BY <1>a, <1>c, <2>1, <2>2, <2>3 DEF Busy
  <1>7. ASSUME NEW x \in Threads, ReadBase(x) PROVE CoverInv'
    <2>1. /\ thread'[x].pc = "publish" /\ thread'[x].tail = thread[x].tail
          /\ thread'[x].base = Latest /\ thread'[x].ts = thread[x].ts
          /\ \A y \in Threads : y # x => thread'[y] = thread[y]
      BY <1>7, LatestTyped, BaseRead
    <2>2. thread[x].pc = "base" /\ UNCHANGED <<data, man, manSafe, version, order>>
      BY <1>7 DEF ReadBase, mans, files, history
    <2>3. Existing' = Existing /\ Acked' = Acked
      BY <2>2 DEF Existing, Acked
    <2>4. CASE x \in Writers
      <3>1. WriterCovers(x)'
        BY <2>1, <2>2, <2>3, <2>4 DEF WriterCovers
      <3> QED
        BY <1>b, <2>1, <2>2, <2>4, <3>1
    <2>5. CASE x \in Snappers
      <3>1. \A t \in Acked : Covers(Latest, t)
        BY LatestCovers
      <3>2. SnapperCovers(x)'
        BY <1>0, <2>1, <2>2, <2>3, <2>5, <3>1 DEF SnapperCovers, Covers
      <3> QED
        BY <1>a, <1>c, <1>d, <2>1, <2>2, <2>5, <3>2
    <2> QED
      BY <2>4, <2>5 DEF Threads
  <1>8. ASSUME NEW x \in Threads, ReadClock(x) PROVE CoverInv'
    <2>1. /\ thread'[x].pc = "base" /\ thread'[x].tail = thread[x].tail
          /\ thread'[x].ts = now
          /\ \A y \in Threads : y # x => thread'[y] = thread[y]
      BY <1>8, ClockRead
    <2>2. thread[x].pc = "clock" /\ UNCHANGED <<data, man, manSafe, version, order>>
      BY <1>8 DEF ReadClock, mans, files, history
    <2>3. Existing' = Existing
      BY <2>2 DEF Existing
    <2>4. CASE x \in Writers
      <3>1. WriterCovers(x)'
        BY <2>1, <2>2, <2>3, <2>4 DEF WriterCovers, NotAhead
      <3> QED
        BY <1>b, <2>1, <2>2, <2>4, <3>1
    <2>5. CASE x \in Snappers
      <3>1. SnapperCovers(x)'
        BY <2>1, <2>2, <2>5 DEF SnapperCovers
      <3> QED
        BY <1>a, <1>c, <1>d, <2>1, <2>2, <2>5, <3>1
    <2> QED
      BY <2>4, <2>5 DEF Threads
  <1>9. ASSUME NEW x \in Threads, Publish(x) PROVE CoverInv'
    <2>1. /\ thread'[x].pc = "sync" /\ thread'[x].tail = thread[x].tail
          /\ thread'[x].ts = thread[x].ts
          /\ \A y \in Threads : y # x => thread'[y] = thread[y]
      BY <1>9, MovedOn DEF Publish, PC
    <2>2. /\ thread[x].pc = "publish" /\ man' = [man EXCEPT ![thread[x].ts] = <<NewTail(x)>>]
          /\ thread[x].ts \in Time /\ UNCHANGED <<data, manSafe, version, order>>
      BY <1>9 DEF Publish, files, history, ThreadState
    <2>3. Existing' = Existing /\ Acked' = Acked /\ \A t, n : Holds(n, t)' = Holds(n, t)
      BY <2>2 DEF Existing, Acked, Holds
    <2>4. ASSUME \A t \in Acked : Covers(<<NewTail(x)>>, t) PROVE DatedCover'
      <3>1. \A ts \in Time : man'[ts] = man[ts] \/ man'[ts] = <<NewTail(x)>>
        BY <2>2
      <3> QED
        BY <1>0, <2>2, <2>3, <2>4, <3>1 DEF DatedCover, Covers
    <2>5. CASE x \in Writers
      <3>1. /\ thread[x].tail \in Segs /\ \A n \in Existing : n <= thread[x].tail
            /\ \A ts \in Time : man[ts] # <<>> \/ manSafe[ts] # <<>> => ts <= thread[x].ts
        BY <2>2, <2>5 DEF WriterCovers
      <3>2. NewTail(x) = thread[x].tail
        BY <3>1 DEF NewTail, Segs
      <3>3. DatedCover'
        <4>1. \A t \in Acked : Covers(<<NewTail(x)>>, t)
          BY <3>1, <3>2 DEF Covers, Existing, Holds
        <4> QED
          BY <2>4, <4>1
      <3>4. WriterCovers(x)'
        <4>1. man'[thread[x].ts] = <<thread[x].tail>>
          BY <2>2, <3>2
        <4>2. \A ts \in Time : man'[ts] # <<>> \/ manSafe'[ts] # <<>> => ts <= thread[x].ts
          <5>1. thread[x].ts <= thread[x].ts
            BY <2>2 DEF Time
          <5> QED
            BY <2>2, <3>1, <5>1
        <4> QED
          BY <2>1, <2>3, <3>1, <4>1, <4>2 DEF WriterCovers
      <3>5. \A y \in Threads : y # x => thread'[y].pc = "idle"
        BY <2>1, <2>2, <2>5, OthersRest
      <3> QED
        BY <2>5, <3>3, <3>4, <3>5, WriterAlone
    <2>6. CASE x \in Snappers
      <3>1. thread[x].tail = Absent /\ \A t \in Acked : Covers(thread[x].base, t)
        BY <2>2, <2>6 DEF SnapperCovers
      <3>2. \A t \in Acked : Covers(<<NewTail(x)>>, t)
        <4>1. ASSUME NEW t \in Acked PROVE Covers(<<NewTail(x)>>, t)
          <5>1. Covers(thread[x].base, t)
            BY <3>1
          <5>2. NewTail(x) = thread[x].base[1]
            BY <3>1, <5>1 DEF NewTail, TailOf, Covers
          <5> QED
            BY <5>1, <5>2 DEF Covers
        <4> QED
          BY <4>1
      <3>3. SnapperCovers(x)'
        BY <2>1, <3>1 DEF SnapperCovers
      <3> QED
        BY <1>c, <1>d, <2>1, <2>2, <2>4, <2>6, <3>2, <3>3
    <2> QED
      BY <2>5, <2>6 DEF Threads
  <1>10. ASSUME NEW x \in Threads, SyncDir(x) PROVE CoverInv'
    <2>1. /\ thread'[x].pc = "idle" /\ \A y \in Threads : y # x => thread'[y] = thread[y]
      BY <1>10, Ended DEF SyncDir, Done
    <2>2. thread[x].pc = "sync" /\ manSafe' = man /\ UNCHANGED <<data, man>>
      BY <1>10 DEF SyncDir, files
    <2>3. \A t, n : Holds(n, t)' = Holds(n, t)
      BY <2>2 DEF Holds
    <2>4. CASE x \in Writers
      <3>1. /\ thread[x].tail \in Segs /\ \A n \in Existing : n <= thread[x].tail
            /\ \A ts \in Time : man[ts] # <<>> \/ manSafe[ts] # <<>> => ts <= thread[x].ts
            /\ man[thread[x].ts] = <<thread[x].tail>>
        BY <2>2, <2>4 DEF WriterCovers
      <3>2. PICK t \in Txs : t = thread[x].tx /\ t \notin Acked
        BY <2>2, <2>4 DEF BusyWriters, Threads, ThreadState
      <3>3. /\ Acked' = Acked \cup {t}
            /\ version' = [version EXCEPT ![t] = thread[x].ts]
        <4>1. order' = Append(order, t) /\ version' = [version EXCEPT ![t] = thread[x].ts]
          BY <1>10, <2>4, <3>2 DEF SyncDir, Done
        <4> QED
          BY <4>1, Acknowledged
      <3>4. DatedCover'
        <4>1. ASSUME NEW ts \in Time, NEW u \in Acked', version'[u] <= ts, man[ts] # <<>>
              PROVE  Covers(man[ts], u)
          <5>1. CASE u = t
            <6>1. version'[u] = thread[x].ts /\ ts <= thread[x].ts /\ thread[x].ts \in Time
              BY <3>1, <3>3, <4>1, <5>1 DEF ThreadState
            <6>2. ts = thread[x].ts
              BY <4>1, <6>1 DEF Time
            <6>3. man[ts] # <<>> /\ man[ts][1] = thread[x].tail
              <7>1. man[ts] = <<thread[x].tail>>
                BY <3>1, <6>2
              <7> QED
                BY <4>1, <7>1
            <6>4. \A n \in Segs : Holds(n, u) => n \in Existing
              BY DEF Holds, Existing
            <6> QED
              BY <3>1, <6>3, <6>4 DEF Covers
          <5>2. CASE u # t
            <6>1. u \in Acked /\ version'[u] = version[u]
              BY <3>3, <5>2 DEF Acked
            <6> QED
              BY <4>1, <6>1 DEF DatedCover
          <5> QED
            BY <5>1, <5>2
        <4> QED
          BY <2>2, <2>3, <4>1 DEF DatedCover, Covers
      <3>5. \A y \in Threads : y # x => thread'[y].pc = "idle"
        BY <2>1, <2>2, <2>4, OthersRest
      <3>6. WriterCovers(x)'
        BY <2>1 DEF WriterCovers
      <3> QED
        BY <2>4, <3>4, <3>5, <3>6, WriterAlone
    <2>5. CASE x \in Snappers
      <3>1. UNCHANGED <<version, order>>
        BY <1>10, <2>5 DEF SyncDir, Done
      <3>2. Acked' = Acked
        BY <3>1 DEF Acked
      <3>3. DatedCover'
        BY <2>2, <2>3, <3>1, <3>2 DEF DatedCover, Covers
      <3>4. thread'[x].tail = Absent
        BY <1>10, Ended DEF SyncDir, Done, Idle
      <3>5. SnapperCovers(x)'
        BY <2>1, <3>4 DEF SnapperCovers
      <3> QED
        BY <1>c, <1>d, <2>1, <2>2, <2>5, <3>1, <3>3, <3>5
    <2> QED
      BY <2>4, <2>5 DEF Threads
  <1>11. ASSUME NEW x \in Threads, Fails(x) PROVE CoverInv'
    <2>1. /\ thread'[x].pc = "idle" /\ \A y \in Threads : y # x => thread'[y] = thread[y]
      BY <1>11, Ended DEF Fails
    <2>2. thread[x].pc # "idle" /\ UNCHANGED <<man, manSafe, version, order>>
      BY <1>11 DEF Fails, mans, history
    <2>3. CASE x \in Writers
      <3>1. WriterCovers(x)'
        BY <2>1 DEF WriterCovers
      <3> QED
        BY <1>b, <2>1, <2>2, <2>3, <3>1
    <2>4. CASE x \in Snappers
      <3>1. SnapperCovers(x)'
        BY <2>1 DEF SnapperCovers
      <3> QED
        BY <1>a, <1>c, <1>d, <2>1, <2>2, <2>4, <3>1
    <2> QED
      BY <2>3, <2>4 DEF Threads
  <1>12. CASE Crash
    <2>1. \A x \in Threads : thread'[x].pc = "idle"
      BY <1>12 DEF Crash, Idle
    <2>2. /\ manSafe' = man' /\ UNCHANGED <<version, order>>
          /\ \A ts \in Time : man'[ts] = man[ts] \/ man'[ts] = manSafe[ts]
      BY <1>12 DEF Crash, history
    <2>3. Acked' = Acked
      BY <2>2 DEF Acked
    <2>4. DatedCover'
      BY <1>0, <2>2, <2>3 DEF DatedCover, Covers
    <2> QED
      BY <2>1, <2>4 DEF TakeTurns, Busy, WriterCovers, SnapperCovers, Threads
  <1> QED
    BY <1>1, <1>2, <1>3, <1>4, <1>5, <1>6, <1>7, <1>8, <1>9, <1>10, <1>11, <1>12
       DEF Next, CommitStep, PublishStep

LEMMA TailInvStep ==
    ASSUME MaxSeq <= 9, PublishInv, LogInv, TailInv, [Next]_vars
    PROVE  TailInv'
  <1>1. NotAhead'
    BY NotAheadStep DEF TailInv
  <1>2. composite' = composite /\ (overlap => overlap')
    <2> USE DEF history
    <2>1. ASSUME Tick \/ Crash \/ UNCHANGED vars PROVE composite' = composite /\ overlap' = overlap
      BY <2>1 DEF Tick, Crash, vars
    <2>2. ASSUME NEW w \in Writers, CommitStep(w)
          PROVE  composite' = composite /\ (overlap => overlap')
      <3>1. ASSUME NEW t \in Txs, Begin(w, t) PROVE composite' = composite /\ (overlap => overlap')
        BY <3>1 DEF Begin
      <3>2. ASSUME WriteRecord(w) \/ Flush(w) \/ ReadTail(w)
            PROVE  composite' = composite /\ overlap' = overlap
        BY <3>2 DEF WriteRecord, Flush, ReadTail
      <3> QED
        BY <2>2, <3>1, <3>2 DEF CommitStep
    <2>3. ASSUME NEW x \in Snappers, BeginSnapshot(x)
          PROVE  composite' = composite /\ (overlap => overlap')
      BY <2>3 DEF BeginSnapshot
    <2>4. ASSUME NEW x \in Threads, PublishStep(x)
          PROVE  composite' = composite /\ overlap' = overlap
      BY <2>4 DEF PublishStep, ReadBase, ReadClock, Publish, SyncDir, Done, Fails
    <2> QED
      BY <2>1, <2>2, <2>3, <2>4 DEF Next
  <1> QED
    BY <1>1, <1>2, CoverStep DEF TailInv

\* Over a composite backend the wal_tail of the latest manifest covers every
\* acknowledged commit, unless a snapshot and a commit have overlapped.
THEOREM LatestTailCovers == ASSUME MaxSeq <= 9 PROVE Spec => []TailCovers
  <1>1. PublishInv /\ LogInv /\ TailInv /\ [Next]_vars => TailInv'
    BY TailInvStep
  <1>2. PublishInv /\ TailInv => TailCovers
    <2> SUFFICES ASSUME PublishInv, TailInv, composite, ~ overlap,
                        NEW t \in Acked, NEW n \in Segs, Holds(n, t)
                 PROVE  Rank(n) <= Rank(TailOf(Latest))
      BY DEF TailCovers
    <2>1. Covers(Latest, t)
      BY LatestCovers DEF TailInv, CoverInv
    <2>2. PICK m \in Segs : m = TailOf(Latest) /\ n <= m
      BY <2>1 DEF Covers, TailOf
    <2> QED
      BY <2>2, RankOrder
  <1> QED
    BY <1>1, <1>2, TailInvInit, PublishInvCorrect, LogInvCorrect, PTL DEF Spec
=============================================================================
