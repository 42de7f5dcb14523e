--------------------------- MODULE PitrExactProofs ---------------------------
(***************************************************************************)
(* Proof that a restore nothing interferes with is exact, for any queries, *)
(* snapshots, restores, clock resolution and expired leases, with one      *)
(* worker and no failing call.                                             *)
(*                                                                         *)
(* StampInv: a mutation is stamped once, after its execution, and filed    *)
(* under its stamp.  FreshInv, until a directory is first replaced: the    *)
(* database is the order of the executions, the past, the copies and the   *)
(* WAL follow it.  PlanInv: what a quiet restore has found stays so while  *)
(* it works.  ReplayInv: the loop over the objects and their entries.      *)
(*                                                                         *)
(* And that the preview, the branch and the plan of PitrViews agree with   *)
(* it, whatever was logged.  ViewInv: the content so far is what a preview *)
(* has after the objects read so far, by induction over the seconds and    *)
(* over the entries of an object.  NearestInv: its snapshot is the nearest *)
(* still.  DetectedInv: only mutations are logged.                         *)
(***************************************************************************)
EXTENDS PitrProofs, PitrViews, Induction, FiniteSetTheorems

OneWorker == \A v, w \in Workers : v = w

\* Each at most once; and the order of two of them.
Once(s) == \A i, j \in DOMAIN s : s[i] = s[j] => i = j
Precedes(s, a, b) == \E i, j \in DOMAIN s : i < j /\ s[i] = a /\ s[j] = b

Prefix(c, s) == Len(c) <= Len(s) /\ \A i \in 1..Len(c) : c[i] = s[i]

Executed(q) == execAt[q] <= MaxTime
Stamped(q) == stampAt[q] <= MaxTime

-----------------------------------------------------------------------------
(* Sequences                                                                *)

LEMMA AppendedAt ==
    ASSUME NEW S, NEW s \in Seq(S), NEW x \in S
    PROVE  /\ Append(s, x) \in Seq(S) /\ Len(s) \in Nat
           /\ Len(Append(s, x)) = Len(s) + 1
           /\ DOMAIN s = 1..Len(s) /\ DOMAIN Append(s, x) = 1..(Len(s) + 1)
           /\ Append(s, x)[Len(s) + 1] = x
           /\ \A i \in 1..Len(s) : Append(s, x)[i] = s[i] /\ s[i] \in S
  OBVIOUS

LEMMA PrefixAppend ==
    ASSUME NEW S, NEW s \in Seq(S), NEW c \in Seq(S), NEW x \in S, Prefix(c, s)
    PROVE  Prefix(c, Append(s, x))
  <1>1. Len(c) \in Nat /\ Len(c) <= Len(s) /\ \A i \in 1..Len(c) : c[i] = s[i]
    BY DEF Prefix
  <1>2. \A i \in 1..Len(c) : i \in 1..Len(s)
    BY <1>1, AppendedAt
  <1> QED
    BY <1>1, <1>2, AppendedAt DEF Prefix

LEMMA PrecedesAppend ==
    ASSUME NEW S, NEW s \in Seq(S), NEW x \in S
    PROVE  /\ \A a, b : Precedes(s, a, b) => Precedes(Append(s, x), a, b)
           /\ \A a \in Values(s) : Precedes(Append(s, x), a, x)
  <1>1. ASSUME NEW a, NEW b, Precedes(s, a, b)
        PROVE  Precedes(Append(s, x), a, b)
    <2>1. PICK i, j \in 1..Len(s) : i < j /\ s[i] = a /\ s[j] = b
      BY <1>1, AppendedAt DEF Precedes
    <2>2. /\ i \in DOMAIN Append(s, x) /\ j \in DOMAIN Append(s, x)
          /\ Append(s, x)[i] = a /\ Append(s, x)[j] = b
      BY <2>1, AppendedAt
    <2> QED
      BY <2>1, <2>2 DEF Precedes
  <1>2. ASSUME NEW a \in Values(s)
        PROVE  Precedes(Append(s, x), a, x)
    <2>1. PICK i \in 1..Len(s) : s[i] = a
      BY AppendedAt DEF Values
    <2>2. /\ i \in DOMAIN Append(s, x) /\ Len(s) + 1 \in DOMAIN Append(s, x)
          /\ i < Len(s) + 1 /\ Append(s, x)[i] = a
          /\ Append(s, x)[Len(s) + 1] = x
      BY <2>1, AppendedAt
    <2> QED
      BY <2>2 DEF Precedes
  <1> QED
    BY <1>1, <1>2

LEMMA OnceAppend ==
    ASSUME NEW S, NEW s \in Seq(S), NEW x \in S, Once(s), x \notin Values(s)
    PROVE  Once(Append(s, x))
  <1>1. \A i \in 1..Len(s) : s[i] # x
    BY AppendedAt DEF Values
  <1>2. \A i, j \in 1..Len(s) : s[i] = s[j] => i = j
    BY AppendedAt DEF Once
  <1> QED
    BY <1>1, <1>2, AppendedAt DEF Once

LEMMA PrecedesIn ==
    ASSUME NEW s, NEW a, NEW b, Precedes(s, a, b)
    PROVE  a \in Values(s) /\ b \in Values(s)
  BY DEF Precedes, Values

\* What has the values of s in the order of s is s.
LEMMA SameOrder ==
    ASSUME NEW S, NEW s \in Seq(S), NEW c \in Seq(S), Once(s), Values(c) = Values(s),
           \A i, j \in DOMAIN c : i < j => Precedes(s, c[i], c[j])
    PROVE  c = s
  <1>1. /\ DOMAIN c = 1..Len(c) /\ Len(c) \in Nat
        /\ DOMAIN s = 1..Len(s) /\ Len(s) \in Nat
    OBVIOUS
  <1>2. Once(c)
    <2>1. ASSUME NEW i \in DOMAIN c, NEW j \in DOMAIN c, c[i] = c[j], i < j
          PROVE  FALSE
      BY <2>1 DEF Precedes, Once
    <2> QED
      BY <1>1, <2>1 DEF Once
  <1> DEFINE Agree(n) == \A i \in 1..n : i \in DOMAIN c \/ i \in DOMAIN s =>
                           i \in DOMAIN c /\ i \in DOMAIN s /\ c[i] = s[i]
             N == {n \in Nat : Agree(n)}
  <1>3. ASSUME NEW n \in Nat, Agree(n)
        PROVE  Agree(n + 1)
    <2> DEFINE k == n + 1
    <2>1. ASSUME k \in DOMAIN s
          PROVE  \E m \in DOMAIN c : c[m] = s[k] /\ m >= k
      <3>1. PICK m \in DOMAIN c : c[m] = s[k]
        BY <2>1 DEF Values
      <3>2. ASSUME m <= n
            PROVE  FALSE
        <4>1. m \in DOMAIN s /\ s[m] = s[k] /\ m # k
          BY <1>1, <1>3, <3>1, <3>2
        <4> QED
          BY <2>1, <4>1 DEF Once
      <3> QED
        BY <1>1, <3>1, <3>2
    <2>2. ASSUME k \in DOMAIN c
          PROVE  \E p \in DOMAIN s : s[p] = c[k] /\ p >= k
      <3>1. PICK p \in DOMAIN s : s[p] = c[k]
        BY <2>2 DEF Values
      <3>2. ASSUME p <= n
            PROVE  FALSE
        <4>1. p \in DOMAIN c /\ c[p] = c[k] /\ p # k
          BY <1>1, <1>3, <3>1, <3>2
        <4> QED
          BY <1>2, <2>2, <4>1 DEF Once
      <3> QED
        BY <1>1, <3>1, <3>2
    <2>3. ASSUME k \in DOMAIN c \/ k \in DOMAIN s
          PROVE  k \in DOMAIN c /\ k \in DOMAIN s
      BY <1>1, <2>1, <2>2, <2>3
    <2>4. ASSUME k \in DOMAIN c, k \in DOMAIN s
          PROVE  c[k] = s[k]
      <3>1. PICK m \in DOMAIN c : c[m] = s[k] /\ m >= k
        BY <2>1, <2>4
      <3>2. PICK p \in DOMAIN s : s[p] = c[k] /\ p >= k
        BY <2>2, <2>4
      <3>3. ASSUME k < m
            PROVE  FALSE
        <4>1. PICK x, y \in DOMAIN s : x < y /\ s[x] = c[k] /\ s[y] = c[m]
          BY <2>4, <3>3 DEF Precedes
        <4>2. x = p /\ y = k
          BY <2>4, <3>1, <3>2, <4>1 DEF Once
        <4> QED
          BY <1>1, <3>2, <4>1, <4>2
      <3> QED
        BY <1>1, <3>1, <3>3
    <2> QED
      BY <1>3, <2>3, <2>4
  <1>4. Agree(0)
    OBVIOUS
  <1>5. Nat \subseteq N
    <2> HIDE DEF Agree
    <2>1. 0 \in N
      BY <1>4
    <2>2. \A n \in Nat : n \in N => n + 1 \in N
      BY <1>3
    <2> HIDE DEF N
    <2> QED
      BY <2>1, <2>2, NatBySteps
  <1>6. Agree(Len(c)) /\ Agree(Len(s))
    BY <1>1, <1>5
  <1>7. Len(c) = Len(s) /\ \A i \in 1..Len(s) : c[i] = s[i]
    <2>1. \A i \in DOMAIN c : i \in DOMAIN s
      BY <1>1, <1>6
    <2>2. \A i \in DOMAIN s : i \in DOMAIN c /\ c[i] = s[i]
      BY <1>1, <1>6
    <2>3. Len(c) <= Len(s) /\ Len(s) <= Len(c)
      <3>1. Len(c) = 0 \/ Len(c) \in DOMAIN c
        BY <1>1
      <3>2. Len(s) = 0 \/ Len(s) \in DOMAIN s
        BY <1>1
      <3> QED
        BY <1>1, <2>1, <2>2, <3>1, <3>2
    <2> HIDE DEF Agree, N
    <2>4. \A x, y \in Nat : x <= y /\ y <= x => x = y
      OBVIOUS
    <2>5. Len(c) = Len(s)
      BY <1>1, <2>3, <2>4
    <2> QED
      BY <1>1, <2>2, <2>5
  <1> HIDE DEF Agree, N
  <1> QED
    BY <1>1, <1>7

\* Two values of s have one order.
LEMMA PrecedesTotal ==
    ASSUME NEW S, NEW s \in Seq(S), NEW a \in Values(s), NEW b \in Values(s), a # b
    PROVE  Precedes(s, a, b) \/ Precedes(s, b, a)
  <1>1. PICK i, j \in 1..Len(s) : s[i] = a /\ s[j] = b
    BY DEF Values
  <1>2. i < j \/ j < i
    BY <1>1
  <1> QED
    BY <1>1, <1>2 DEF Precedes

LEMMA PrefixPrecedes ==
    ASSUME NEW S, NEW s \in Seq(S), NEW c \in Seq(S), Prefix(c, s)
    PROVE  /\ Values(c) \subseteq Values(s)
           /\ \A a, b : Precedes(c, a, b) => Precedes(s, a, b)
           /\ Once(s) => Once(c)
           /\ Once(s) => \A a, b : Precedes(s, a, b) /\ b \in Values(c) =>
                 Precedes(c, a, b)
  <1>1. /\ DOMAIN c = 1..Len(c) /\ DOMAIN s = 1..Len(s)
        /\ Len(c) \in Nat /\ Len(s) \in Nat
        /\ \A i \in 1..Len(c) : i \in 1..Len(s) /\ c[i] = s[i]
    BY DEF Prefix
  <1>2. Values(c) \subseteq Values(s)
    BY <1>1 DEF Values
  <1>3. \A a, b : Precedes(c, a, b) => Precedes(s, a, b)
    BY <1>1 DEF Precedes
  <1>4. Once(s) => Once(c)
    BY <1>1 DEF Once
  <1>5. ASSUME Once(s), NEW a, NEW b, Precedes(s, a, b), b \in Values(c)
        PROVE  Precedes(c, a, b)
    <2>1. PICK i, j \in 1..Len(s) : i < j /\ s[i] = a /\ s[j] = b
      BY <1>1, <1>5 DEF Precedes
    <2>2. PICK k \in 1..Len(c) : c[k] = b
      BY <1>1, <1>5 DEF Values
    <2>3. k = j
      BY <1>1, <1>5, <2>1, <2>2 DEF Once
    <2>4. i \in 1..Len(c) /\ j \in 1..Len(c) /\ c[i] = a /\ c[j] = b
      BY <1>1, <2>1, <2>2, <2>3
    <2> QED
      BY <1>1, <2>1, <2>4 DEF Precedes
  <1> QED
    BY <1>2, <1>3, <1>4, <1>5

LEMMA TailAt ==
    ASSUME NEW S, NEW s \in Seq(S), s # <<>>
    PROVE  /\ Len(s) \in Nat /\ Len(s) > 0 /\ s[1] = Head(s)
           /\ DOMAIN s = 1..Len(s) /\ DOMAIN Tail(s) = 1..(Len(s) - 1)
           /\ \A i \in 1..(Len(s) - 1) : Tail(s)[i] = s[i + 1]
           /\ Tail(s) \in Seq(S) /\ Head(s) \in S
           /\ \A x \in Values(s) : x = Head(s) \/ x \in Values(Tail(s))
  <1>1. /\ Len(s) \in Nat /\ Len(s) > 0 /\ s[1] = Head(s)
        /\ DOMAIN s = 1..Len(s) /\ DOMAIN Tail(s) = 1..(Len(s) - 1)
        /\ \A i \in 1..(Len(s) - 1) : Tail(s)[i] = s[i + 1]
        /\ Tail(s) \in Seq(S) /\ Head(s) \in S
    OBVIOUS
  <1>2. ASSUME NEW x \in Values(s), x # Head(s)
        PROVE  x \in Values(Tail(s))
    <2>1. PICK i \in 1..Len(s) : s[i] = x
      BY <1>1 DEF Values
    <2>2. i - 1 \in 1..(Len(s) - 1) /\ s[(i - 1) + 1] = x
      BY <1>1, <1>2, <2>1
    <2>3. Tail(s)[i - 1] = x /\ i - 1 \in DOMAIN Tail(s)
      BY <1>1, <2>2
    <2> QED
      BY <2>3 DEF Values
  <1> QED
    BY <1>1, <1>2

\* A later tick lies in the same second or in a later one.
LEMMA FloorMonotone ==
    ASSUME NEW t \in Time, NEW u \in Time, t <= u
    PROVE  Floor(t) <= Floor(u)
  <1>1. t \in Nat /\ u \in Nat /\ Res \in Nat \ {0}
    BY PitrAssumption DEF Time
  <1> DEFINE d == t \div Res
             e == u \div Res
  <1>2. d \in Nat /\ t = Res * d + (t % Res) /\ 0 <= t % Res
    BY <1>1
  <1>3. e \in Nat /\ u = Res * e + (u % Res) /\ u % Res < Res /\ u % Res \in Nat /\ t % Res \in Nat
    BY <1>1
  <1> HIDE DEF d, e
  <1>4. d <= e
    <2> SUFFICES ASSUME d > e PROVE FALSE
      BY <1>2, <1>3
    <2>1. PICK k \in Nat : d = e + 1 + k
      <3>1. d - e - 1 \in Nat /\ d = e + 1 + (d - e - 1)
        BY <1>2, <1>3
      <3> QED
        BY <3>1
    <2>2. Res * d = Res * e + Res + Res * k
      BY <1>1, <1>2, <1>3, <2>1
    <2>3. Res * k \in Nat
      BY <1>1, <2>1
    <2> QED
      BY <1>1, <1>2, <1>3, <2>2, <2>3
  <1>5. Res * d <= Res * e
    <2>1. PICK k \in Nat : e = d + k
      <3>1. e - d \in Nat /\ e = d + (e - d)
        BY <1>2, <1>3, <1>4
      <3> QED
        BY <3>1
    <2>2. Res * e = Res * d + Res * k /\ Res * k \in Nat /\ Res * d \in Nat
      BY <1>1, <1>2, <2>1
    <2> QED
      BY <2>2
  <1> QED
    BY <1>1, <1>2, <1>3, <1>5 DEF Floor

-----------------------------------------------------------------------------
(* Stamps                                                                   *)

\* A mutation is stamped after it was executed, and neither in the future.
StampsFollow ==
    \A q \in Queries :
        /\ Executed(q) => execAt[q] <= now
        /\ Stamped(q) => execAt[q] <= stampAt[q] /\ stampAt[q] <= now

\* The worker's locals are the mutation and its stamp.
WorkerStamps ==
    \A w \in Workers :
        /\ worker[w].pc # "idle" => Executed(worker[w].q)
        /\ worker[w].pc = "stamp" => stampAt[worker[w].q] = MaxTime + 1
        /\ worker[w].pc \in {"acquire", "read", "upload"} =>
              stampAt[worker[w].q] = worker[w].ts

\* An entry carries the stamp of its mutation and lies in that second.
Filed(es, s) ==
    \A e \in Values(es) : stampAt[e.q] = e.ts /\ Floor(e.ts) = s

EntriesFiled ==
    /\ \A s \in Seconds : Filed(wal[s], s)
    /\ \A w \in Workers : worker[w].pc = "upload" =>
          Filed(worker[w].prior, Floor(worker[w].ts))

StampInv == StampsFollow /\ WorkerStamps /\ EntriesFiled

LEMMA FloorTyped ==
    ASSUME NEW t \in Time
    PROVE  Floor(t) \in Seconds /\ Floor(t) \in Nat /\ Floor(t) <= t
  BY FloorIsSecond, PitrAssumption DEF Floor, Time

LEMMA Clocks ==
    ASSUME TypeInv
    PROVE  /\ now \in Nat /\ now \in Time /\ MaxTime \in Nat /\ now <= MaxTime
           /\ \A q \in Queries : execAt[q] \in Nat /\ stampAt[q] \in Nat
           /\ \A q \in Queries : Executed(q) \/ execAt[q] = MaxTime + 1
           /\ \A q \in Queries : Stamped(q) \/ stampAt[q] = MaxTime + 1
  <1>1. MaxTime \in Nat /\ \A t \in Time : t \in Nat /\ t <= MaxTime
    BY PitrAssumption DEF Time
  <1>2. /\ now \in Time
        /\ \A q \in Queries : execAt[q] \in Time \cup {MaxTime + 1}
        /\ \A q \in Queries : stampAt[q] \in Time \cup {MaxTime + 1}
    BY DEF TypeInv, StoreTyped, TimesTyped
  <1> QED
    BY <1>1, <1>2 DEF Executed, Stamped

\* The steps of the other processes: they may move the connection and empty a
\* WAL object.
StampsRest ==
    /\ UNCHANGED <<execAt, stampAt>> /\ now <= now'
    /\ \A s \in Seconds : wal'[s] = wal[s] \/ wal'[s] = <<>>
    /\ \A w \in Workers :
          /\ worker'[w].pc = worker[w].pc /\ worker'[w].q = worker[w].q
          /\ worker'[w].ts = worker[w].ts /\ worker'[w].prior = worker[w].prior

LEMMA StampInvInit == Init => StampInv
  <1> SUFFICES ASSUME Init PROVE StampInv
    OBVIOUS
  <1> USE PitrAssumption DEF Init
  <1>1. \A q \in Queries : ~ Executed(q) /\ ~ Stamped(q)
    BY DEF Executed, Stamped
  <1>2. StampsFollow
    BY <1>1 DEF StampsFollow
  <1>3. \A w \in Workers : worker[w].pc = "idle"
    BY DEF Resting
  <1>4. WorkerStamps
    BY <1>3 DEF WorkerStamps
  <1>5. \A s \in Seconds : wal[s] = <<>>
    OBVIOUS
  <1>6. EntriesFiled
    BY <1>3, <1>5, ValuesEmpty DEF EntriesFiled, Filed
  <1> QED
    BY <1>2, <1>4, <1>6 DEF StampInv

\* A stamp is never changed.
StampsStay == \A q \in Queries : Stamped(q) => stampAt'[q] = stampAt[q]

LEMMA StampInvRests ==
    ASSUME TypeInv, TypeInv', StampInv, StampsRest
    PROVE  StampInv' /\ StampsStay
  <1>1. StampsFollow' /\ StampsStay
    <2>1. now \in Nat /\ now' \in Nat /\ now <= now'
      BY PitrAssumption DEF TypeInv, StoreTyped, Time, StampsRest
    <2>2. \A q \in Queries : execAt'[q] = execAt[q] /\ stampAt'[q] = stampAt[q]
      BY DEF StampsRest
    <2> QED
      BY <2>1, <2>2, Clocks
      DEF StampInv, StampsFollow, StampsStay, Executed, Stamped
  <1>2. WorkerStamps'
    BY DEF StampInv, WorkerStamps, StampsRest, Executed
  <1>3. EntriesFiled'
    BY ValuesEmpty DEF StampInv, EntriesFiled, Filed, StampsRest
  <1> QED
    BY <1>1, <1>2, <1>3 DEF StampInv

LEMMA StampInvWorker ==
    ASSUME OneWorker, TypeInv, TypeInv', StampInv, NEW w \in Workers, WorkerStep(w)
    PROVE  StampInv' /\ StampsStay
  <1>0. /\ worker \in [Workers -> WorkerState] /\ worker[w] \in WorkerState
        /\ wal \in [Seconds -> Seq(Entry)] /\ now \in Time
        /\ worker[w].ts \in Time /\ worker[w].prior \in Seq(Entry)
        /\ execAt \in [Queries -> Time \cup {MaxTime + 1}]
        /\ stampAt \in [Queries -> Time \cup {MaxTime + 1}]
        /\ MaxTime \in Nat /\ Time \subseteq Nat /\ \A t \in Time : t <= MaxTime
        /\ worker[w].pc # "idle" => worker[w].q \in Queries
        /\ \A v \in Workers : v = w
    BY PitrAssumption
    DEF TypeInv, StoreTyped, WorkersTyped, TimesTyped, WorkerState, Time, OneWorker
  <1> USE DEF StampInv
  <1>1. ASSUME NEW q \in Queries, Execute(w, q)
        PROVE  StampInv' /\ StampsStay
    <2>1. /\ execAt[q] > MaxTime /\ execAt' = [execAt EXCEPT ![q] = now]
          /\ UNCHANGED <<now, wal, stampAt>>
      BY <1>1 DEF Execute
    <2>2. /\ worker'[w].pc \in {"idle", "stamp"}
          /\ worker'[w].pc = "stamp" => worker'[w].q = q
      BY <1>0, <1>1 DEF Execute, Resting
    <2>3. ~ Stamped(q) /\ stampAt[q] = MaxTime + 1
      <3>1. ~ Stamped(q)
        <4>1. Stamped(q) => execAt[q] <= stampAt[q] /\ stampAt[q] <= now
          BY DEF StampsFollow
        <4> QED
          BY <2>1, <4>1, Clocks
      <3> QED
        BY <1>0, <3>1 DEF Stamped
    <2>4. StampsFollow' /\ StampsStay
      BY <1>0, <2>1, <2>3 DEF StampsFollow, StampsStay, Executed, Stamped
    <2>5. WorkerStamps'
      BY <1>0, <2>1, <2>2, <2>3 DEF WorkerStamps, Executed
    <2>6. EntriesFiled'
      BY <1>0, <2>1, <2>2 DEF EntriesFiled, Filed
    <2> QED
      BY <2>4, <2>5, <2>6
  <1>2. CASE Stamp(w)
    <2> DEFINE q == worker[w].q
    <2>1. /\ worker' = [worker EXCEPT ![w].pc = "acquire", ![w].ts = now]
          /\ stampAt' = [stampAt EXCEPT ![q] = now] /\ worker[w].pc = "stamp"
          /\ UNCHANGED <<now, wal, execAt>>
      BY <1>2 DEF Stamp, storage
    <2>2. q \in Queries /\ ~ Stamped(q) /\ Executed(q)
      BY <1>0, <2>1 DEF WorkerStamps, Stamped
    <2>3. StampsFollow' /\ StampsStay
      BY <1>0, <2>1, <2>2 DEF StampsFollow, StampsStay, Executed, Stamped
    <2>4. worker'[w].pc = "acquire" /\ worker'[w].ts = now /\ worker'[w].q = q
      BY <1>0, <2>1 DEF WorkerState
    <2>5. WorkerStamps'
      BY <1>0, <2>1, <2>2, <2>4 DEF WorkerStamps, Executed
    <2>6. ASSUME NEW s \in Seconds, NEW e \in Values(wal[s])
          PROVE  stampAt'[e.q] = e.ts /\ Floor(e.ts) = s
      <3>1. e \in Entry /\ stampAt[e.q] = e.ts /\ Floor(e.ts) = s
        BY <1>0, ValuesTyped DEF EntriesFiled, Filed
      <3>2. e.q \in Queries /\ e.ts \in Time
        BY <3>1 DEF Entry
      <3>3. e.q # q
        BY <1>0, <2>2, <3>1, <3>2 DEF Stamped
      <3> QED
        BY <1>0, <2>1, <3>1, <3>2, <3>3
    <2>7. EntriesFiled'
      BY <1>0, <2>1, <2>4, <2>6 DEF EntriesFiled, Filed
    <2> QED
      BY <2>3, <2>5, <2>7
  <1>3. CASE AcquireWal(w)
    <2>1. UNCHANGED <<now, wal, execAt, stampAt>>
      BY <1>3 DEF AcquireWal, storage, times
    <2>2. /\ worker[w].pc = "acquire"
          /\ \/ worker' = [worker EXCEPT ![w].pc = "read"]
             \/ worker' = [worker EXCEPT ![w] = Resting(worker[w].conn)]
      BY <1>3 DEF AcquireWal
    <2>3. \/ worker'[w].pc = "read" /\ worker'[w].ts = worker[w].ts
                /\ worker'[w].q = worker[w].q
          \/ worker'[w].pc = "idle"
      BY <1>0, <2>2 DEF Resting, WorkerState
    <2>4. StampsFollow' /\ StampsStay
      BY <2>1 DEF StampsFollow, StampsStay, Executed, Stamped
    <2>5. WorkerStamps' /\ EntriesFiled'
      BY <1>0, <2>1, <2>2, <2>3 DEF WorkerStamps, EntriesFiled, Filed, Executed
    <2> QED
      BY <2>4, <2>5
  <1>4. CASE ReadPrior(w)
    <2>1. UNCHANGED <<now, wal, execAt, stampAt>>
      BY <1>4 DEF ReadPrior, storage, times
    <2>2. PICK c \in {wal[Floor(worker[w].ts)], <<>>} :
             worker' = [worker EXCEPT ![w].pc = "upload", ![w].prior = c]
      BY <1>4 DEF ReadPrior
    <2>3. /\ worker[w].pc = "read" /\ worker'[w].pc = "upload"
          /\ worker'[w].ts = worker[w].ts
          /\ worker'[w].q = worker[w].q /\ worker'[w].prior = c
      BY <1>0, <1>4, <2>2 DEF ReadPrior, WorkerState
    <2>4. StampsFollow' /\ StampsStay
      BY <2>1 DEF StampsFollow, StampsStay, Executed, Stamped
    <2>5. WorkerStamps'
      BY <1>0, <2>1, <2>3 DEF WorkerStamps, Executed
    <2>6. Filed(c, Floor(worker[w].ts))
      BY <1>0, <2>2, FloorTyped, ValuesEmpty DEF EntriesFiled, Filed
    <2>7. EntriesFiled'
      BY <1>0, <2>1, <2>3, <2>6 DEF EntriesFiled, Filed
    <2> QED
      BY <2>4, <2>5, <2>7
  <1>5. CASE Upload(w)
    <2> DEFINE e == [q |-> worker[w].q, ts |-> worker[w].ts]
               s == Floor(worker[w].ts)
    <2>1. UNCHANGED <<now, execAt, stampAt>> /\ worker' = [worker EXCEPT ![w].pc = "release"]
          /\ worker[w].pc = "upload"
      BY <1>5 DEF Upload, times
    <2>2. wal' = wal \/ wal' = [wal EXCEPT ![s] = Append(worker[w].prior, e)]
      BY <1>5 DEF Upload
    <2>3. StampsFollow' /\ StampsStay
      BY <2>1 DEF StampsFollow, StampsStay, Executed, Stamped
    <2>4. worker'[w].pc = "release" /\ worker'[w].q = worker[w].q
      BY <1>0, <2>1 DEF WorkerState
    <2>5. WorkerStamps'
      BY <1>0, <2>1, <2>4 DEF WorkerStamps, Executed
    <2>6. e \in Entry /\ e.q = worker[w].q /\ e.ts = worker[w].ts /\ s \in Seconds
      BY <1>0, <2>1, FloorTyped DEF Entry
    <2>7. stampAt[worker[w].q] = worker[w].ts /\ Filed(worker[w].prior, s)
      BY <1>0, <2>1 DEF WorkerStamps, EntriesFiled
    <2> HIDE DEF e, s
    <2>8. Filed(Append(worker[w].prior, e), s)
      <3>1. \A x \in Values(Append(worker[w].prior, e)) : x = e \/ x \in Values(worker[w].prior)
        BY <1>0, <2>6, ValuesAppend
      <3> QED
        BY <2>6, <2>7, <3>1 DEF Filed, s
    <2>9. EntriesFiled'
      BY <1>0, <2>1, <2>2, <2>4, <2>6, <2>8 DEF EntriesFiled, Filed
    <2> QED
      BY <2>3, <2>5, <2>9
  <1>6. CASE ReleaseWal(w) \/ WorkerDies(w)
    <2>1. UNCHANGED <<now, wal, execAt, stampAt>> /\ worker'[w].pc = "idle"
      BY <1>0, <1>6 DEF ReleaseWal, WorkerDies, Resting, storage, times
    <2>2. StampsFollow' /\ StampsStay
      BY <2>1 DEF StampsFollow, StampsStay, Executed, Stamped
    <2>3. WorkerStamps' /\ EntriesFiled'
      BY <1>0, <2>1 DEF WorkerStamps, EntriesFiled, Filed
    <2> QED
      BY <2>2, <2>3
  <1> QED
    BY <1>1, <1>2, <1>3, <1>4, <1>5, <1>6 DEF WorkerStep

-----------------------------------------------------------------------------
(* What the steps leave alone                                               *)

LEMMA SnapFrame ==
    ASSUME NEW p \in SnapReqs, SnapStep(p)
    PROVE  UNCHANGED <<now, db, wal, worker, restorer, past, execAt, stampAt,
                       logged, swaps>>
  BY DEF SnapStep, SnapStart, SnapCopy, SnapSave, SnapFails, SnapRelease,
     storage, times, walHist

LEMMA LeaseFrame ==
    ASSUME NEW n \in Locks, LeaseExpires(n)
    PROVE  UNCHANGED <<now, db, wal, snaps, worker, snapper, restorer, past,
                       execAt, stampAt, logged, swaps, faults>>
  BY DEF LeaseExpires, storage, procs, times, walHist

LEMMA StutterFrame ==
    ASSUME UNCHANGED vars
    PROVE  UNCHANGED <<now, db, wal, snaps, worker, snapper, restorer, past,
                       execAt, stampAt, logged, swaps, faults>>
  BY DEF vars, storage, procs, times, walHist, bounds

LEMMA TickFrame ==
    ASSUME Tick
    PROVE  /\ UNCHANGED <<db, wal, snaps, worker, snapper, restorer, execAt,
                          stampAt, logged, swaps, faults>>
           /\ now < MaxTime /\ now' = now + 1 /\ past' = [past EXCEPT ![now + 1] = db]
  BY DEF Tick, storage, procs, times, walHist, bounds

LEMMA RestoreFrame ==
    ASSUME NEW r \in Restorers, RestoreStep(r)
    PROVE  /\ UNCHANGED <<now, snaps, execAt, stampAt, logged>>
           /\ worker' = worker \/ Swap(r)
           /\ wal' = wal \/ DeleteWal(r)
  BY DEF RestoreStep, FindSnapshot, AcquireRestore, Swap, ListWal, ReadFile,
     ReplayEntry, Archived, DeleteWal, ReleaseRestore, RestoreFails, storage,
     times, walHist

LEMMA RestoreAlone ==
    ASSUME TypeInv, NEW r \in Restorers, NEW v \in Restorers, r # v, RestoreStep(v)
    PROVE  restorer'[r] = restorer[r]
  BY DEF TypeInv, RestorersTyped, RestoreStep, FindSnapshot, AcquireRestore,
     Swap, ListWal, ReadFile, ReplayEntry, Archived, DeleteWal, ReleaseRestore,
     RestoreFails

LEMMA WorkerFrame ==
    ASSUME NEW w \in Workers, WorkerStep(w)
    PROVE  UNCHANGED <<now, snaps, snapper, restorer, swaps>>
  BY DEF WorkerStep, Execute, Stamp, AcquireWal, ReadPrior, Upload, ReleaseWal,
     WorkerDies, storage, times, walHist

\* No call has failed, and this one does not.
LEMMA NoFault ==
    ASSUME TypeInv, [Next]_vars, faults' = 0
    PROVE  faults = 0 /\ ~ Fault
  <1>1. faults \in Nat
    BY PitrAssumption DEF TypeInv, CountsTyped
  <1>2. ~ Fault
    BY <1>1 DEF Fault
  <1>3. faults' = faults
    <2>1. ASSUME NEW w \in Workers, WorkerStep(w)
          PROVE  faults' = faults
      BY <1>2, <2>1 DEF WorkerStep, Execute, Stamp, AcquireWal, ReadPrior,
         Upload, ReleaseWal, WorkerDies, bounds
    <2>2. ASSUME NEW p \in SnapReqs, SnapStep(p)
          PROVE  faults' = faults
      BY <1>2, <2>2 DEF SnapStep, SnapStart, SnapCopy, SnapSave, SnapFails,
         SnapRelease, bounds
    <2>3. ASSUME NEW r \in Restorers, RestoreStep(r)
          PROVE  faults' = faults
      BY <1>2, <2>3 DEF RestoreStep, FindSnapshot, AcquireRestore, Swap,
         ListWal, ReadFile, ReplayEntry, Archived, DeleteWal, ReleaseRestore,
         RestoreFails, bounds
    <2> QED
      BY <2>1, <2>2, <2>3, TickFrame, LeaseFrame, StutterFrame DEF Next
  <1> QED
    BY <1>2, <1>3

LEMMA StampsRestHolds ==
    ASSUME TypeInv, [Next]_vars, \A w \in Workers : ~ WorkerStep(w)
    PROVE  StampsRest
  <1>0. /\ now \in Nat /\ worker \in [Workers -> WorkerState]
        /\ wal \in [Seconds -> Seq(Entry)]
    BY PitrAssumption DEF TypeInv, StoreTyped, WorkersTyped, Time
  <1>1. ASSUME NEW r \in Restorers, RestoreStep(r)
        PROVE  StampsRest
    <2>1. UNCHANGED <<execAt, stampAt>> /\ now <= now'
      BY <1>0, <1>1, RestoreFrame
    <2>2. ASSUME NEW s \in Seconds
          PROVE  wal'[s] = wal[s] \/ wal'[s] = <<>>
      <3>1. wal' = wal \/ DeleteWal(r)
        BY <1>1, RestoreFrame
      <3> QED
        BY <1>0, <3>1 DEF DeleteWal
    <2>3. ASSUME NEW w \in Workers
          PROVE  /\ worker'[w].pc = worker[w].pc /\ worker'[w].q = worker[w].q
                 /\ worker'[w].ts = worker[w].ts /\ worker'[w].prior = worker[w].prior
      <3>1. worker' = worker \/ Swap(r)
        BY <1>1, RestoreFrame
      <3>2. CASE Swap(r)
        <4>1. worker[w] \in WorkerState
          BY <1>0
        <4>2. worker'[w] = [worker[w] EXCEPT
                               !.conn = IF @ = "path" THEN "moved" ELSE @]
          BY <3>2 DEF Swap
        <4> QED
          BY <4>1, <4>2 DEF WorkerState
      <3> QED
        BY <3>1, <3>2
    <2> QED
      BY <2>1, <2>2, <2>3 DEF StampsRest
  <1>2. ASSUME NEW p \in SnapReqs, SnapStep(p)
        PROVE  StampsRest
    BY <1>0, <1>2, SnapFrame DEF StampsRest
  <1>3. CASE Tick
    BY <1>0, <1>3, TickFrame DEF StampsRest
  <1>4. CASE UNCHANGED vars
    BY <1>0, <1>4, StutterFrame DEF StampsRest
  <1>5. ASSUME NEW n \in Locks, LeaseExpires(n)
        PROVE  StampsRest
    BY <1>0, <1>5, LeaseFrame DEF StampsRest
  <1> QED
    BY <1>1, <1>2, <1>3, <1>4, <1>5 DEF Next

LEMMA StampInvStep ==
    ASSUME OneWorker, TypeInv, TypeInv', StampInv, [Next]_vars
    PROVE  StampInv' /\ StampsStay
  BY StampInvWorker, StampsRestHolds, StampInvRests

LEMMA StampCorrect == ASSUME OneWorker PROVE Spec => []StampInv
  <1>1. ASSUME TypeInv, TypeInv', StampInv, [Next]_vars
        PROVE  StampInv'
    BY <1>1, StampInvStep
  <1> QED
    BY <1>1, StampInvInit, TypeInvCorrect, PTL DEF Spec

-----------------------------------------------------------------------------
(* One restore at a time                                                    *)

\* The directory was replaced by r.
Swapped(r) == \/ restorer[r].pc \in {"list", "file", "entry", "archive", "delete", "release"}
              \/ restorer[r].ok

SwapInv ==
    faults = 0 =>
        /\ \A r \in Restorers : restorer[r].ok => restorer[r].pc \in {"delete", "release", "done"}
        /\ \A r \in Restorers : restorer[r].pc \in {"delete", "release"} => restorer[r].ok
        /\ swaps = 0 => \A r \in Restorers : ~ Swapped(r)
        /\ swaps = 1 => \A r, u \in Restorers : Swapped(r) /\ Swapped(u) => r = u

\* Where a restore that no call fails goes, and what it keeps.
Moves(r) ==
    LET old == restorer[r]
        new == restorer'[r]
    IN  /\ old.pc = "idle" => new.pc = "acquire"
        /\ old.pc = "acquire" => new.pc \in {"swap", "done"}
        /\ old.pc = "swap" => new.pc = "list"
        /\ old.pc = "list" => new.pc = "file"
        /\ old.pc = "file" => new.pc \in {"entry", "archive"}
        /\ old.pc = "entry" => new.pc \in {"entry", "file", "archive"}
        /\ old.pc = "archive" => new.pc \in {"delete", "release"}
        /\ old.pc = "delete" => new.pc \in {"delete", "release"}
        /\ old.pc = "release" => new.pc = "done"
        /\ old.pc # "done"
        /\ new.ok = IF old.pc = "archive" THEN TRUE ELSE old.ok
        /\ swaps' = IF old.pc = "swap" THEN swaps + 1 ELSE swaps
        /\ old.pc # "idle" =>
              new.target = old.target /\ new.snap = old.snap /\ new.quiet = old.quiet
        /\ old.pc \notin {"swap", "entry"} => new.got = old.got
        /\ Swap(r) <=> old.pc = "swap"

LEMMA RestoreMoves ==
    ASSUME TypeInv, NEW r \in Restorers, RestoreStep(r), ~ Fault
    PROVE  Moves(r)
  <1>0. /\ restorer \in [Restorers -> RestorerState] /\ restorer[r] \in RestorerState
        /\ swaps \in Nat
    BY DEF TypeInv, RestorersTyped, CountsTyped
  <1>a. Swap(r) => restorer[r].pc = "swap"
    BY DEF Swap
  <1>1. ASSUME NEW t \in Time, FindSnapshot(r, t)
        PROVE  Moves(r)
    <2>1. PICK x : restorer' = [restorer EXCEPT ![r].pc = "acquire", ![r].snap = x,
                ![r].target = t, ![r].quiet = Quiet /\ t < now]
      BY <1>1 DEF FindSnapshot
    <2> DEFINE b == Quiet /\ t < now
    <2>2. restorer' = [restorer EXCEPT ![r].pc = "acquire", ![r].snap = x,
                ![r].target = t, ![r].quiet = b]
      BY <2>1
    <2> HIDE DEF b
    <2>3. /\ restorer'[r].pc = "acquire" /\ restorer'[r].ok = restorer[r].ok
          /\ restorer'[r].got = restorer[r].got
      BY <1>0, <2>2 DEF RestorerState
    <2>4. swaps' = swaps /\ restorer[r].pc = "idle"
      BY <1>1 DEF FindSnapshot
    <2> QED
      BY <1>a, <2>3, <2>4 DEF Moves
  <1>2. CASE AcquireRestore(r)
    <2>1. PICK c \in {"swap", "done"} : restorer' = [restorer EXCEPT ![r].pc = c]
      BY <1>2 DEF AcquireRestore
    <2>2. /\ restorer'[r].pc = c /\ restorer'[r].ok = restorer[r].ok
          /\ restorer'[r].got = restorer[r].got /\ restorer'[r].snap = restorer[r].snap
          /\ restorer'[r].target = restorer[r].target
          /\ restorer'[r].quiet = restorer[r].quiet
      BY <1>0, <2>1 DEF RestorerState
    <2>3. swaps' = swaps /\ restorer[r].pc = "acquire"
      BY <1>2 DEF AcquireRestore
    <2> QED
      BY <1>a, <2>2, <2>3 DEF Moves
  <1>3. CASE Swap(r)
    <2>1. /\ restorer'[r].pc = "list" /\ restorer'[r].ok = restorer[r].ok
          /\ restorer'[r].snap = restorer[r].snap
          /\ restorer'[r].target = restorer[r].target
          /\ restorer'[r].quiet = restorer[r].quiet
      BY <1>0, <1>3 DEF Swap, RestorerState
    <2>2. swaps' = swaps + 1 /\ restorer[r].pc = "swap"
      BY <1>3 DEF Swap
    <2> QED
      BY <1>3, <2>1, <2>2 DEF Moves
  <1>4. CASE ListWal(r)
    <2>1. PICK F, G : restorer' = [restorer EXCEPT ![r].pc = "file",
                                       ![r].files = F, ![r].todo = G]
      BY <1>4 DEF ListWal
    <2>2. /\ restorer'[r].pc = "file" /\ restorer'[r].ok = restorer[r].ok
          /\ restorer'[r].got = restorer[r].got /\ restorer'[r].snap = restorer[r].snap
          /\ restorer'[r].target = restorer[r].target
          /\ restorer'[r].quiet = restorer[r].quiet
      BY <1>0, <2>1 DEF RestorerState
    <2>3. swaps' = swaps /\ restorer[r].pc = "list"
      BY <1>4 DEF ListWal
    <2> QED
      BY <1>a, <2>2, <2>3 DEF Moves
  <1>5. CASE ReadFile(r)
    <2>1. \/ restorer' = [restorer EXCEPT ![r].pc = "archive"]
          \/ \E T, es : restorer' = [restorer EXCEPT ![r].pc = "entry",
                              ![r].todo = T, ![r].entries = es]
      BY <1>5 DEF ReadFile
    <2>2. /\ restorer'[r].pc \in {"entry", "archive"} /\ restorer'[r].ok = restorer[r].ok
          /\ restorer'[r].got = restorer[r].got /\ restorer'[r].snap = restorer[r].snap
          /\ restorer'[r].target = restorer[r].target
          /\ restorer'[r].quiet = restorer[r].quiet
      <3>1. CASE restorer' = [restorer EXCEPT ![r].pc = "archive"]
        BY <1>0, <3>1 DEF RestorerState
      <3>2. ASSUME NEW T, NEW es, restorer' = [restorer EXCEPT ![r].pc = "entry",
                                          ![r].todo = T, ![r].entries = es]
            PROVE  /\ restorer'[r].pc = "entry" /\ restorer'[r].ok = restorer[r].ok
                   /\ restorer'[r].got = restorer[r].got
                   /\ restorer'[r].snap = restorer[r].snap
                   /\ restorer'[r].target = restorer[r].target
                   /\ restorer'[r].quiet = restorer[r].quiet
        BY <1>0, <3>2 DEF RestorerState
      <3> QED
        BY <2>1, <3>1, <3>2
    <2>3. swaps' = swaps /\ restorer[r].pc = "file"
      BY <1>5 DEF ReadFile
    <2> QED
      BY <1>a, <2>2, <2>3 DEF Moves
  <1>6. CASE ReplayEntry(r)
    <2>1. \/ \E c \in {"file", "archive"} :
                restorer' = [restorer EXCEPT ![r].pc = c, ![r].entries = <<>>]
          \/ \E es, g : restorer' = [restorer EXCEPT ![r].entries = es, ![r].got = g]
          \/ \E es : restorer' = [restorer EXCEPT ![r].entries = es]
      BY <1>6 DEF ReplayEntry
    <2>2. /\ restorer'[r].pc \in {restorer[r].pc, "file", "archive"}
          /\ restorer'[r].ok = restorer[r].ok /\ restorer'[r].snap = restorer[r].snap
          /\ restorer'[r].target = restorer[r].target
          /\ restorer'[r].quiet = restorer[r].quiet
      <3>1. ASSUME NEW c \in {"file", "archive"},
                   restorer' = [restorer EXCEPT ![r].pc = c, ![r].entries = <<>>]
            PROVE  <2>2!:
        BY <1>0, <3>1 DEF RestorerState
      <3>2. ASSUME NEW es, NEW g,
                   restorer' = [restorer EXCEPT ![r].entries = es, ![r].got = g]
            PROVE  <2>2!:
        BY <1>0, <3>2 DEF RestorerState
      <3>3. ASSUME NEW es, restorer' = [restorer EXCEPT ![r].entries = es]
            PROVE  <2>2!:
        BY <1>0, <3>3 DEF RestorerState
      <3> QED
        BY <2>1, <3>1, <3>2, <3>3
    <2>3. swaps' = swaps /\ restorer[r].pc = "entry"
      BY <1>6 DEF ReplayEntry
    <2> QED
      BY <1>a, <2>2, <2>3 DEF Moves
  <1>7. CASE Archived(r)
    <2>1. PICK c \in {"delete", "release"} :
             restorer' = [restorer EXCEPT ![r].pc = c, ![r].ok = TRUE]
      BY <1>7 DEF Archived
    <2>2. /\ restorer'[r].pc = c /\ restorer'[r].ok = TRUE
          /\ restorer'[r].got = restorer[r].got /\ restorer'[r].snap = restorer[r].snap
          /\ restorer'[r].target = restorer[r].target
          /\ restorer'[r].quiet = restorer[r].quiet
      BY <1>0, <2>1 DEF RestorerState
    <2>3. swaps' = swaps /\ restorer[r].pc = "archive"
      BY <1>7 DEF Archived
    <2> QED
      BY <1>a, <2>2, <2>3 DEF Moves
  <1>8. CASE DeleteWal(r)
    <2>1. \/ restorer' = [restorer EXCEPT ![r].pc = "release"]
          \/ \E s : restorer' = [restorer EXCEPT ![r].files = @ \ {s}]
      BY <1>8 DEF DeleteWal
    <2>2. /\ restorer[r].pc = "delete" => restorer'[r].pc \in {"delete", "release"}
          /\ restorer'[r].ok = restorer[r].ok
          /\ restorer'[r].got = restorer[r].got /\ restorer'[r].snap = restorer[r].snap
          /\ restorer'[r].target = restorer[r].target
          /\ restorer'[r].quiet = restorer[r].quiet
      BY <1>0, <2>1 DEF RestorerState
    <2>3. swaps' = swaps /\ restorer[r].pc = "delete"
      BY <1>8 DEF DeleteWal
    <2> QED
      BY <1>a, <2>2, <2>3 DEF Moves
  <1>9. CASE ReleaseRestore(r)
    <2>1. /\ restorer'[r].pc = "done" /\ restorer'[r].ok = restorer[r].ok
          /\ restorer'[r].got = restorer[r].got /\ restorer'[r].snap = restorer[r].snap
          /\ restorer'[r].target = restorer[r].target
          /\ restorer'[r].quiet = restorer[r].quiet
      BY <1>0, <1>9 DEF ReleaseRestore, RestorerState
    <2>2. swaps' = swaps /\ restorer[r].pc = "release"
      BY <1>9 DEF ReleaseRestore
    <2> QED
      BY <1>a, <2>1, <2>2 DEF Moves
  <1> QED
    BY <1>1, <1>2, <1>3, <1>4, <1>5, <1>6, <1>7, <1>8, <1>9
    DEF RestoreStep, RestoreFails

LEMMA SwapInvInit == Init => SwapInv
  BY DEF Init, SwapInv, Swapped

LEMMA SwapInvStep ==
    ASSUME TypeInv, SwapInv, [Next]_vars
    PROVE  SwapInv'
  <1> SUFFICES ASSUME faults' = 0
               PROVE  SwapInv'
    BY DEF SwapInv
  <1>1. faults = 0 /\ ~ Fault /\ swaps \in Nat
    BY NoFault DEF TypeInv, CountsTyped
  <1>2. ASSUME UNCHANGED <<restorer, swaps>>
        PROVE  SwapInv'
    BY <1>1, <1>2 DEF SwapInv, Swapped
  <1>3. ASSUME NEW v \in Restorers, RestoreStep(v)
        PROVE  SwapInv'
    <2>1. Moves(v)
      BY <1>1, <1>3, RestoreMoves
    <2>2. \A r \in Restorers : r # v => restorer'[r] = restorer[r]
      BY <1>3, RestoreAlone
    <2>3. /\ \A r \in Restorers : restorer'[r].ok =>
                restorer'[r].pc \in {"delete", "release", "done"}
          /\ \A r \in Restorers : restorer'[r].pc \in {"delete", "release"} =>
                restorer'[r].ok
      BY <1>1, <2>1, <2>2 DEF Moves, SwapInv, RestorerState, TypeInv, RestorersTyped
    <2>4. \A r \in Restorers : Swapped(r)' => Swapped(r) \/ (r = v /\ restorer[v].pc = "swap")
      <3>1. ASSUME NEW r \in Restorers, r # v
            PROVE  Swapped(r)' => Swapped(r)
        BY <2>2, <3>1 DEF Swapped
      <3>2. Swapped(v)' => Swapped(v) \/ restorer[v].pc = "swap"
        <4>1. /\ restorer[v].pc \in {"idle", "acquire", "swap", "list", "file", "entry",
                                    "archive", "delete", "release", "done"}
              /\ restorer[v].ok \in BOOLEAN
          BY DEF TypeInv, RestorersTyped, RestorerState
        <4> QED
          BY <2>1, <4>1 DEF Moves, Swapped
      <3> QED
        BY <3>1, <3>2
    <2>5. swaps' = IF restorer[v].pc = "swap" THEN swaps + 1 ELSE swaps
      BY <2>1 DEF Moves
    <2> QED
      BY <1>1, <2>3, <2>4, <2>5 DEF SwapInv
  <1> QED
    BY <1>2, <1>3, TickFrame, LeaseFrame, StutterFrame, SnapFrame, WorkerFrame
    DEF Next

LEMMA SwapCorrect == Spec => []SwapInv
  BY SwapInvInit, SwapInvStep, TypeInvCorrect, PTL DEF Spec

-----------------------------------------------------------------------------
(* Before the first restore                                                 *)

Fresh == faults = 0 /\ swaps = 0

\* The database has what was executed and not refused, once, in that order.
DbIsHistory ==
    /\ Once(db)
    /\ \A q \in Queries : q \in Values(db) <=> Executed(q) /\ q \notin Refused
    /\ \A i, j \in DOMAIN db : i < j =>
          /\ execAt[db[i]] <= execAt[db[j]]
          /\ Stamped(db[i]) => stampAt[db[i]] <= execAt[db[j]]

\* The past is as much of it as was executed by then.
PastIsHistory ==
    \A t \in 0..now :
        /\ Prefix(past[t], db)
        /\ \A i \in DOMAIN db : i <= Len(past[t]) <=> execAt[db[i]] <= t

\* A copy made at t has what was executed before t, and perhaps at t.
CopyAt(c, t) ==
    /\ Prefix(c, db)
    /\ \A i \in DOMAIN db :
          /\ i <= Len(c) => execAt[db[i]] <= t
          /\ execAt[db[i]] < t => i <= Len(c)

CopiesAreHistory ==
    /\ \A p \in SnapReqs : snapper[p].pc = "save" =>
          snapper[p].copied <= now /\ CopyAt(snapper[p].content, snapper[p].copied)
    /\ \A s \in snaps : s.copied <= s.at /\ s.at <= now /\ CopyAt(s.content, s.copied)

\* The worker is at the last mutation, and every connection is to the database.
WorkerAtEnd ==
    \A w \in Workers :
        /\ worker[w].conn # "moved"
        /\ worker[w].pc # "idle" /\ worker[w].q \notin Refused =>
              db # <<>> /\ db[Len(db)] = worker[w].q
        /\ worker[w].pc = "upload" => worker[w].prior = wal[Floor(worker[w].ts)]

\* The WAL objects have the order of the executions and all that was logged,
\* what was refused included.
WalIsHistory ==
    /\ \A s \in Seconds : \A k, l \in DOMAIN wal[s] : k < l =>
          /\ wal[s][k].ts <= wal[s][l].ts
          /\ {wal[s][k].q, wal[s][l].q} \cap Refused = {} =>
                Precedes(db, wal[s][k].q, wal[s][l].q)
    /\ \A s \in Seconds : \A e \in Values(wal[s]) :
          /\ e.q \notin Refused => e.q \in Values(db)
          /\ \A w \in Workers :
                worker[w].pc \in {"stamp", "acquire", "read", "upload"} =>
                    e.q # worker[w].q /\ e.ts <= execAt[worker[w].q]
    /\ \A q \in logged : Stamped(q)
          /\ \E e \in Values(wal[Floor(stampAt[q])]) : e.q = q

History == /\ DbIsHistory /\ PastIsHistory /\ CopiesAreHistory
           /\ WorkerAtEnd /\ WalIsHistory

FreshInv == Fresh => History

LEMMA Types ==
    ASSUME TypeInv
    PROVE  /\ db \in Seq(Queries) /\ past \in [Time -> Seq(Queries)]
           /\ wal \in [Seconds -> Seq(Entry)] /\ logged \subseteq Queries
           /\ worker \in [Workers -> WorkerState]
           /\ snapper \in [SnapReqs -> SnapperState]
           /\ restorer \in [Restorers -> RestorerState]
           /\ execAt \in [Queries -> Time \cup {MaxTime + 1}]
           /\ stampAt \in [Queries -> Time \cup {MaxTime + 1}]
           /\ \A t \in Time : t \in Nat /\ t <= MaxTime
           /\ \A t \in 0..now : t \in Time
           /\ \A s \in snaps : s.content \in Seq(Queries) /\ s.at \in Time /\ s.copied \in Time
           /\ \A p \in SnapReqs : snapper[p].content \in Seq(Queries) /\ snapper[p].copied \in Time
  <1>1. \A t \in Time : t \in Nat /\ t <= MaxTime
    BY PitrAssumption DEF Time
  <1>2. \A t \in 0..now : t \in Time
    <2>1. now \in Nat /\ now <= MaxTime
      BY Clocks
    <2> QED
      BY <2>1, PitrAssumption DEF Time
  <1>3. /\ \A s \in snaps : s.content \in Seq(Queries) /\ s.at \in Time /\ s.copied \in Time
        /\ \A p \in SnapReqs : snapper[p].content \in Seq(Queries) /\ snapper[p].copied \in Time
    BY DEF TypeInv, StoreTyped, SnappersTyped, Snapshot, SnapperState, Content
  <1> QED
    BY <1>1, <1>2, <1>3
    DEF TypeInv, StoreTyped, WorkersTyped, SnappersTyped, RestorersTyped, LogTyped,
        TimesTyped, Content

LEMMA HistoryInit == Init => History
  <1> SUFFICES ASSUME Init PROVE History
    OBVIOUS
  <1>1. /\ db = <<>> /\ now = 0 /\ past[0] = <<>> /\ snaps = {FirstSnapshot}
        /\ \A q \in Queries : ~ Executed(q)
        /\ \A w \in Workers : worker[w].pc = "idle" /\ worker[w].conn = "none"
        /\ \A p \in SnapReqs : snapper[p].pc = "idle"
        /\ \A s \in Seconds : wal[s] = <<>>
        /\ logged = {}
    BY PitrAssumption DEF Init, Executed, Resting, Time
  <1>2. DbIsHistory
    BY <1>1, ValuesEmpty DEF DbIsHistory, Once
  <1>3. PastIsHistory
    BY <1>1 DEF PastIsHistory, Prefix
  <1>4. CopiesAreHistory
    BY <1>1 DEF CopiesAreHistory, CopyAt, Prefix, FirstSnapshot
  <1>5. WorkerAtEnd
    BY <1>1 DEF WorkerAtEnd
  <1>6. WalIsHistory
    BY <1>1, ValuesEmpty DEF WalIsHistory
  <1> QED
    BY <1>2, <1>3, <1>4, <1>5, <1>6 DEF History

\* Steps that touch neither the contents nor the worker.
LEMMA HistoryRests ==
    ASSUME History,
           UNCHANGED <<now, db, wal, snaps, worker, snapper, past, execAt,
                       stampAt, logged>>
    PROVE  History'
  BY DEF History, DbIsHistory, PastIsHistory, CopiesAreHistory, CopyAt,
     WorkerAtEnd, WalIsHistory, Stamped, Executed

LEMMA HistoryTick ==
    ASSUME TypeInv, StampInv, History, Tick
    PROVE  History'
  <1>0. /\ db \in Seq(Queries) /\ past \in [Time -> Seq(Queries)] /\ now \in Nat
        /\ \A t \in 0..now : t \in Time /\ t \in Nat
        /\ now + 1 \in Time
    BY Types, Clocks, TickFrame, PitrAssumption DEF Time
  <1>1. /\ UNCHANGED <<db, wal, snaps, worker, snapper, execAt, stampAt, logged>>
        /\ now' = now + 1 /\ past' = [past EXCEPT ![now + 1] = db]
    BY TickFrame
  <1>2. DbIsHistory' /\ WorkerAtEnd' /\ WalIsHistory'
    BY <1>1 DEF History, DbIsHistory, WorkerAtEnd, WalIsHistory, Stamped, Executed
  <1>3. ASSUME NEW t \in 0..now'
        PROVE  /\ Prefix(past'[t], db')
               /\ \A i \in DOMAIN db' : i <= Len(past'[t]) <=> execAt'[db'[i]] <= t
    <2>1. CASE t = now + 1
      <3>1. past'[t] = db /\ Prefix(db, db) /\ DOMAIN db = 1..Len(db) /\ Len(db) \in Nat
        BY <1>0, <1>1, <2>1 DEF Prefix
      <3>2. ASSUME NEW i \in DOMAIN db
            PROVE  execAt[db[i]] <= now + 1
        <4>1. db[i] \in Queries /\ db[i] \in Values(db)
          BY <1>0 DEF Values
        <4>2. execAt[db[i]] <= now /\ execAt[db[i]] \in Nat
          BY <4>1, Clocks DEF History, DbIsHistory, StampInv, StampsFollow
        <4> QED
          BY <1>0, <4>2
      <3> QED
        BY <1>1, <2>1, <3>1, <3>2
    <2>2. CASE t # now + 1
      <3>1. t \in 0..now /\ past'[t] = past[t]
        BY <1>0, <1>1, <2>2
      <3> QED
        BY <1>1, <3>1 DEF History, PastIsHistory
    <2> QED
      BY <2>1, <2>2
  <1>4. PastIsHistory'
    BY <1>3 DEF PastIsHistory
  <1>5. CopiesAreHistory'
    <2>1. \A t \in Nat : t <= now => t <= now'
      BY <1>0, <1>1
    <2>2. /\ \A p \in SnapReqs : snapper[p].copied \in Nat
          /\ \A s \in snaps : s.at \in Nat
      BY Types
    <2> QED
      BY <1>1, <2>1, <2>2 DEF History, CopiesAreHistory, CopyAt
  <1> QED
    BY <1>2, <1>4, <1>5 DEF History

\* What the WAL has was executed and stamped by now.
LEMMA LoggedBefore ==
    ASSUME TypeInv, StampInv, NEW s \in Seconds, NEW e \in Values(wal[s])
    PROVE  /\ e \in Entry /\ e.q \in Queries /\ e.ts \in Nat
           /\ Stamped(e.q) /\ Executed(e.q) /\ stampAt[e.q] = e.ts
           /\ execAt[e.q] <= e.ts /\ e.ts <= now
  <1>1. wal[s] \in Seq(Entry)
    BY Types
  <1>2. e \in Entry
    BY <1>1 DEF Values
  <1>3. e.q \in Queries /\ e.ts \in Time /\ e.ts \in Nat /\ e.ts <= MaxTime
    BY <1>2, Types DEF Entry
  <1>4. stampAt[e.q] = e.ts
    BY DEF StampInv, EntriesFiled, Filed
  <1>5. Stamped(e.q)
    BY <1>3, <1>4 DEF Stamped
  <1>6. execAt[e.q] <= e.ts /\ e.ts <= now
    BY <1>3, <1>4, <1>5 DEF StampInv, StampsFollow
  <1>7. Executed(e.q)
    BY <1>3, <1>6, Clocks DEF Executed
  <1> QED
    BY <1>2, <1>3, <1>4, <1>5, <1>6, <1>7

\* Where the worker is after an execution, and that nothing of it is logged.
LEMMA ExecuteWorker ==
    ASSUME OneWorker, TypeInv, StampInv, History,
           NEW w \in Workers, NEW q \in Queries, Execute(w, q)
    PROVE  /\ worker'[w].conn # "moved" /\ worker'[w].pc \in {"idle", "stamp"}
           /\ worker'[w].pc = "stamp" => worker'[w].q = q
           /\ \A s \in Seconds : \A e \in Values(wal[s]) : e.q # q /\ e.ts <= now
  <1> DEFINE conn == IF worker[w].conn = "none" THEN "path" ELSE worker[w].conn
  <1>1. conn # "moved"
    BY DEF History, WorkerAtEnd
  <1>2. /\ worker' = [worker EXCEPT ![w] =
              IF q \in Detected
              THEN [Resting(conn) EXCEPT !.pc = "stamp", !.q = q]
              ELSE Resting(conn)]
        /\ ~ Executed(q)
    BY Clocks DEF Execute, Executed
  <1>3. worker \in [Workers -> WorkerState]
    BY Types
  <1> HIDE DEF conn
  <1>4. /\ worker'[w].conn # "moved" /\ worker'[w].pc \in {"idle", "stamp"}
        /\ worker'[w].pc = "stamp" => worker'[w].q = q
    BY <1>1, <1>2, <1>3 DEF Resting
  <1> QED
    BY <1>2, <1>4, LoggedBefore

LEMMA HistoryRefused ==
    ASSUME OneWorker, TypeInv, StampInv, History, ~ Fault,
           NEW w \in Workers, NEW q \in Refused, Execute(w, q)
    PROVE  History'
  <1>0. /\ db \in Seq(Queries) /\ worker \in [Workers -> WorkerState] /\ q \in Queries
        /\ execAt \in [Queries -> Time \cup {MaxTime + 1}]
        /\ \A v \in Workers : v = w
    BY Types, PitrAssumption DEF OneWorker
  <1>1. /\ execAt' = [execAt EXCEPT ![q] = now]
        /\ UNCHANGED <<now, db, past, wal, snaps, snapper, stampAt, logged>>
    BY DEF Execute, walHist
  <1>2. \A x \in Values(db) : x \in Queries /\ x # q /\ execAt'[x] = execAt[x]
    BY <1>0, <1>1 DEF Values, History, DbIsHistory
  <1>3. \A i \in DOMAIN db : db[i] \in Values(db)
    BY DEF Values
  <1>4. DbIsHistory' /\ PastIsHistory' /\ CopiesAreHistory'
    <2>1. \A x \in Queries : x # q => (Executed(x)' <=> Executed(x))
      BY <1>0, <1>1 DEF Executed
    <2>2. DbIsHistory'
      BY <1>1, <1>2, <1>3, <2>1 DEF History, DbIsHistory, Stamped
    <2>3. PastIsHistory'
      BY <1>1, <1>2, <1>3 DEF History, PastIsHistory
    <2>4. CopiesAreHistory'
      BY <1>1, <1>2, <1>3 DEF History, CopiesAreHistory, CopyAt
    <2> QED
      BY <2>2, <2>3, <2>4
  <1>5. WorkerAtEnd'
    BY <1>0, <1>1, ExecuteWorker DEF WorkerAtEnd
  <1>6. WalIsHistory'
    <2>1. execAt'[q] = now
      BY <1>0, <1>1
    <2>2. ASSUME NEW s \in Seconds, NEW e \in Values(wal[s]), NEW v \in Workers,
                 worker'[v].pc \in {"stamp", "acquire", "read", "upload"}
          PROVE  e.q # worker'[v].q /\ e.ts <= execAt'[worker'[v].q]
      BY <1>0, <2>1, <2>2, ExecuteWorker
    <2> QED
      BY <1>1, <2>2 DEF History, WalIsHistory, Stamped
  <1> QED
    BY <1>4, <1>5, <1>6 DEF History

LEMMA HistoryExecute ==
    ASSUME OneWorker, TypeInv, StampInv, History, ~ Fault,
           NEW w \in Workers, NEW q \in Queries, q \notin Refused, Execute(w, q)
    PROVE  History'
  <1>0. /\ db \in Seq(Queries) /\ past \in [Time -> Seq(Queries)] /\ now \in Nat
        /\ now \in Time /\ worker \in [Workers -> WorkerState] /\ worker[w] \in WorkerState
        /\ \A t \in 0..now : t \in Time /\ t \in Nat
        /\ execAt \in [Queries -> Time \cup {MaxTime + 1}]
        /\ \A v \in Workers : v = w
    BY Types, Clocks DEF OneWorker
  <1>1. /\ db' = Append(db, q) /\ past' = [past EXCEPT ![now] = Append(db, q)]
        /\ execAt' = [execAt EXCEPT ![q] = now] /\ execAt[q] > MaxTime
        /\ UNCHANGED <<now, wal, snaps, snapper, stampAt, logged>>
    <2>1. worker[w].conn # "moved"
      BY DEF History, WorkerAtEnd
    <2> QED
      BY <2>1 DEF Execute, SetDb, walHist
  <1>2. q \notin Values(db) /\ ~ Executed(q)
    BY <1>1, Clocks DEF History, DbIsHistory, Executed
  <1> DEFINE n == Len(db)
  <1>3. /\ n \in Nat /\ DOMAIN db = 1..n /\ DOMAIN db' = 1..(n + 1) /\ db'[n + 1] = q
        /\ execAt'[q] = now /\ db' \in Seq(Queries)
        /\ \A i \in 1..n : db'[i] = db[i] /\ db[i] \in Queries /\ db[i] \in Values(db)
    BY <1>0, <1>1, AppendedAt DEF Values
  <1>4. \A i \in 1..n : /\ db[i] # q /\ execAt'[db[i]] = execAt[db[i]]
                        /\ execAt[db[i]] \in Nat /\ execAt[db[i]] <= now
    BY <1>0, <1>1, <1>2, <1>3, Clocks DEF History, DbIsHistory, StampInv, StampsFollow
  <1>5. \A x \in Queries : Stamped(x)' <=> Stamped(x)
    BY <1>1 DEF Stamped
  <1>6. DbIsHistory'
    <2>1. Once(db')
      BY <1>0, <1>1, <1>2, OnceAppend DEF History, DbIsHistory
    <2>2. ASSUME NEW x \in Queries
          PROVE  x \in Values(db') <=> Executed(x)' /\ x \notin Refused
      <3>1. x \in Values(db') <=> x = q \/ x \in Values(db)
        BY <1>0, <1>1, ValuesAppend, ValuesAppended
      <3>2. Executed(x)' <=> x = q \/ Executed(x)
        BY <1>0, <1>1, Clocks DEF Executed
      <3> QED
        BY <3>1, <3>2 DEF History, DbIsHistory
    <2>3. ASSUME NEW i \in DOMAIN db', NEW j \in DOMAIN db', i < j
          PROVE  /\ execAt'[db'[i]] <= execAt'[db'[j]]
                 /\ Stamped(db[i])' => stampAt'[db'[i]] <= execAt'[db'[j]]
      <3>1. CASE j = n + 1
        <4>1. i \in 1..n /\ db'[j] = q
          BY <1>3, <2>3, <3>1
        <4>2. Stamped(db[i]) => stampAt[db[i]] <= now
          BY <1>3, <4>1 DEF StampInv, StampsFollow
        <4> QED
          BY <1>1, <1>3, <1>4, <1>5, <4>1, <4>2
      <3>2. CASE j # n + 1
        <4>1. i \in 1..n /\ j \in 1..n
          BY <1>3, <2>3, <3>2
        <4> QED
          BY <1>1, <1>3, <1>4, <1>5, <2>3, <4>1 DEF History, DbIsHistory
      <3> QED
        BY <3>1, <3>2
    <2> QED
      BY <2>1, <2>2, <2>3 DEF DbIsHistory
  <1>7. ASSUME NEW t \in 0..now'
        PROVE  /\ Prefix(past'[t], db')
               /\ \A i \in DOMAIN db' : i <= Len(past'[t]) <=> execAt'[db'[i]] <= t
    <2>1. CASE t = now
      <3>1. past'[t] = db' /\ Prefix(db', db') /\ Len(db') = n + 1
        BY <1>0, <1>1, <1>3, <2>1, AppendedAt DEF Prefix
      <3>2. \A i \in 1..(n + 1) : execAt'[db'[i]] <= now
        <4>1. \A i \in 1..n : execAt'[db'[i]] <= now
          BY <1>3, <1>4
        <4>2. execAt'[db'[n + 1]] <= now
          BY <1>0, <1>3
        <4>3. \A i \in 1..(n + 1) : i \in 1..n \/ i = n + 1
          BY <1>3
        <4> QED
          BY <4>1, <4>2, <4>3
      <3> QED
        BY <1>3, <2>1, <3>1, <3>2
    <2>2. CASE t # now
      <3>1. t \in 0..now /\ t \in Nat /\ t < now /\ past'[t] = past[t] /\ past[t] \in Seq(Queries)
        BY <1>0, <1>1, <2>2
      <3>2. Prefix(past[t], db) /\ \A i \in 1..n : i <= Len(past[t]) <=> execAt[db[i]] <= t
        BY <1>3, <3>1 DEF History, PastIsHistory
      <3>3. Prefix(past[t], db')
        BY <1>0, <1>1, <3>1, <3>2, PrefixAppend
      <3>4. ~ (n + 1 <= Len(past[t]))
        BY <1>3, <3>1, <3>2 DEF Prefix
      <3>5. ~ (execAt'[q] <= t)
        BY <1>0, <1>3, <3>1
      <3> QED
        BY <1>3, <1>4, <3>1, <3>2, <3>3, <3>4, <3>5
    <2> QED
      BY <2>1, <2>2
  <1>8. PastIsHistory'
    BY <1>7 DEF PastIsHistory
  <1>9. ASSUME NEW c \in Seq(Queries), NEW t \in Nat, t <= now, CopyAt(c, t)
        PROVE  CopyAt(c, t)'
    <2>1. Prefix(c, db')
      BY <1>0, <1>1, <1>9, PrefixAppend DEF CopyAt
    <2>2. ~ (n + 1 <= Len(c))
      BY <1>3, <1>9 DEF CopyAt, Prefix
    <2>3. ~ (execAt'[q] < t)
      BY <1>0, <1>3, <1>9
    <2> QED
      BY <1>3, <1>4, <1>9, <2>1, <2>2, <2>3 DEF CopyAt
  <1>10. CopiesAreHistory'
    <2>1. ASSUME NEW p \in SnapReqs, snapper[p].pc = "save"
          PROVE  snapper[p].copied <= now /\ CopyAt(snapper[p].content, snapper[p].copied)'
      <3>1. snapper[p].copied \in Nat /\ snapper[p].content \in Seq(Queries)
        BY Types
      <3>2. snapper[p].copied <= now /\ CopyAt(snapper[p].content, snapper[p].copied)
        BY <2>1 DEF History, CopiesAreHistory
      <3> QED
        BY <1>1, <1>9, <3>1, <3>2
    <2>2. ASSUME NEW s \in snaps
          PROVE  s.copied <= s.at /\ s.at <= now /\ CopyAt(s.content, s.copied)'
      <3>1. s.copied \in Nat /\ s.at \in Nat /\ s.content \in Seq(Queries)
        BY Types
      <3>2. s.copied <= s.at /\ s.at <= now /\ CopyAt(s.content, s.copied)
        BY DEF History, CopiesAreHistory
      <3> QED
        BY <1>0, <1>9, <3>1, <3>2
    <2> QED
      BY <1>1, <2>1, <2>2 DEF CopiesAreHistory
  <1>11. /\ worker'[w].conn # "moved" /\ worker'[w].pc \in {"idle", "stamp"}
         /\ worker'[w].pc = "stamp" => worker'[w].q = q
         /\ \A s \in Seconds : \A e \in Values(wal[s]) : e.q # q /\ e.ts <= now
    BY ExecuteWorker
  <1>12. WorkerAtEnd'
    <2>1. db' # <<>> /\ Len(db') = n + 1
      <3>1. Len(db') = n + 1 /\ n \in Nat
        BY <1>0, <1>1, AppendedAt
      <3> QED
        BY <3>1
    <2> QED
      BY <1>0, <1>3, <1>11, <2>1 DEF WorkerAtEnd
  <1>13. WalIsHistory'
    <2>1. \A a, b : Precedes(db, a, b) => Precedes(db', a, b)
      BY <1>0, <1>1, PrecedesAppend
    <2>2. Values(db) \subseteq Values(db')
      BY <1>0, <1>1, ValuesAppended
    <2>3. ASSUME NEW s \in Seconds, NEW e \in Values(wal[s]), NEW v \in Workers,
                 worker'[v].pc \in {"stamp", "acquire", "read", "upload"}
          PROVE  e.q # worker'[v].q /\ e.ts <= execAt'[worker'[v].q]
      BY <1>0, <1>3, <1>11, <2>3
    <2>4. \A x \in logged : Stamped(x)'
      BY <1>5, Types DEF History, WalIsHistory
    <2> QED
      BY <1>0, <1>1, <1>11, <2>1, <2>2, <2>3, <2>4 DEF History, WalIsHistory
  <1> QED
    BY <1>6, <1>8, <1>10, <1>12, <1>13 DEF History

LEMMA HistoryStamp ==
    ASSUME OneWorker, TypeInv, StampInv, History, NEW w \in Workers, Stamp(w)
    PROVE  History'
  <1> DEFINE q == worker[w].q
  <1>0. /\ db \in Seq(Queries) /\ worker \in [Workers -> WorkerState]
        /\ worker[w] \in WorkerState
        /\ stampAt \in [Queries -> Time \cup {MaxTime + 1}]
        /\ \A v \in Workers : v = w
    BY Types DEF OneWorker
  <1>1. /\ worker' = [worker EXCEPT ![w].pc = "acquire", ![w].ts = now]
        /\ stampAt' = [stampAt EXCEPT ![q] = now] /\ worker[w].pc = "stamp"
        /\ UNCHANGED <<now, db, wal, snaps, snapper, past, execAt, logged>>
    BY DEF Stamp, storage, walHist
  <1>2. /\ worker'[w].pc = "acquire" /\ worker'[w].q = q
        /\ worker'[w].conn = worker[w].conn
    BY <1>0, <1>1 DEF WorkerState
  <1>3. q \in Queries /\ (q \notin Refused => db # <<>> /\ db[Len(db)] = q)
    BY <1>1 DEF History, WorkerAtEnd, TypeInv, WorkersTyped
  <1>4. DbIsHistory'
    <2>1. ASSUME NEW i \in DOMAIN db, NEW j \in DOMAIN db, i < j
          PROVE  Stamped(db[i])' => stampAt'[db[i]] <= execAt[db[j]]
      <3>1. db[i] # q
        <4>1. CASE q \in Refused
          BY <1>3, <4>1 DEF History, DbIsHistory, Values
        <4>2. CASE q \notin Refused
          <5>1. Len(db) \in DOMAIN db /\ i # Len(db)
            BY <1>0, <1>3, <2>1, <4>2
          <5> QED
            BY <1>3, <4>2, <5>1 DEF History, DbIsHistory, Once
        <4> QED
          BY <4>1, <4>2
      <3>2. stampAt'[db[i]] = stampAt[db[i]]
        BY <1>0, <1>1, <3>1
      <3>3. Stamped(db[i])' <=> Stamped(db[i])
        BY <3>2, <1>1 DEF Stamped
      <3>4. Stamped(db[i]) => stampAt[db[i]] <= execAt[db[j]]
        BY <2>1 DEF History, DbIsHistory
      <3> QED
        BY <3>2, <3>3, <3>4
    <2> QED
      BY <1>1, <2>1 DEF History, DbIsHistory, Executed
  <1>5. PastIsHistory' /\ CopiesAreHistory'
    BY <1>1 DEF History, PastIsHistory, CopiesAreHistory, CopyAt
  <1>6. WorkerAtEnd'
    BY <1>0, <1>1, <1>2, <1>3 DEF History, WorkerAtEnd
  <1>7. WalIsHistory'
    <2>1. \A x \in logged : Stamped(x)' /\ stampAt'[x] = stampAt[x]
      <3>1. ASSUME NEW x \in logged
            PROVE  Stamped(x)' /\ stampAt'[x] = stampAt[x]
        <4>1. x \in Queries /\ Stamped(x)
          BY Types DEF History, WalIsHistory
        <4>2. ~ Stamped(q)
          BY <1>1, <1>3, Clocks DEF StampInv, WorkerStamps, Stamped
        <4> QED
          BY <1>0, <1>1, <4>1, <4>2 DEF Stamped
      <3> QED
        BY <3>1
    <2>2. \A s \in Seconds : \A e \in Values(wal[s]) : e.q # q
      BY <1>1 DEF History, WalIsHistory
    <2> QED
      BY <1>0, <1>1, <1>2, <2>1, <2>2 DEF History, WalIsHistory
  <1> QED
    BY <1>4, <1>5, <1>6, <1>7 DEF History

LEMMA HistoryAppend ==
    ASSUME OneWorker, TypeInv, StampInv, History, ~ Fault, NEW w \in Workers, Upload(w)
    PROVE  History'
  <1> DEFINE q == worker[w].q
             f == Floor(worker[w].ts)
             e == [q |-> q, ts |-> worker[w].ts]
  <1>0. /\ db \in Seq(Queries) /\ worker \in [Workers -> WorkerState]
        /\ worker[w] \in WorkerState /\ worker[w].ts \in Time
        /\ wal \in [Seconds -> Seq(Entry)]
        /\ \A v \in Workers : v = w
    BY Types DEF OneWorker, WorkerState
  <1>1. /\ worker' = [worker EXCEPT ![w].pc = "release"] /\ worker[w].pc = "upload"
        /\ wal' = [wal EXCEPT ![f] = Append(worker[w].prior, e)]
        /\ logged' = logged \cup {q}
        /\ UNCHANGED <<now, db, snaps, snapper, past, execAt, stampAt>>
    BY DEF Upload, times
  <1>2. /\ worker'[w].pc = "release" /\ worker'[w].q = q
        /\ worker'[w].conn = worker[w].conn
    BY <1>0, <1>1 DEF WorkerState
  <1>3. /\ q \in Queries /\ worker[w].prior = wal[f]
        /\ q \notin Refused => db # <<>> /\ db[Len(db)] = q
        /\ stampAt[q] = worker[w].ts
    BY <1>1 DEF History, WorkerAtEnd, TypeInv, WorkersTyped, StampInv, WorkerStamps
  <1>4. f \in Seconds /\ e \in Entry /\ e.q = q /\ wal'[f] = Append(wal[f], e)
    BY <1>0, <1>1, <1>3, FloorTyped DEF Entry
  <1>5. \A s \in Seconds : s # f => wal'[s] = wal[s]
    BY <1>0, <1>1
  <1> HIDE DEF e, f
  <1>6. DbIsHistory' /\ PastIsHistory' /\ CopiesAreHistory'
    BY <1>1 DEF History, DbIsHistory, PastIsHistory, CopiesAreHistory, CopyAt,
       Stamped, Executed
  <1>7. WorkerAtEnd'
    BY <1>0, <1>1, <1>2, <1>3 DEF History, WorkerAtEnd
  <1>8. ASSUME q \notin Refused
        PROVE  q \in Values(db) /\ \A x \in Values(db) : x = q \/ Precedes(db, x, q)
    <2>1. Len(db) \in 1..Len(db) /\ DOMAIN db = 1..Len(db)
      BY <1>0, <1>3, <1>8
    <2>2. q \in Values(db)
      BY <1>3, <1>8, <2>1 DEF Values
    <2>3. ASSUME NEW x \in Values(db), x # q
          PROVE  Precedes(db, x, q)
      <3>1. PICK i \in 1..Len(db) : db[i] = x
        BY <2>1 DEF Values
      <3>2. i < Len(db)
        BY <1>3, <1>8, <2>1, <2>3, <3>1
      <3> QED
        BY <1>3, <1>8, <2>1, <3>1, <3>2 DEF Precedes
    <2> QED
      BY <2>2, <2>3
  <1>9. ASSUME NEW k \in DOMAIN wal'[f], NEW l \in DOMAIN wal'[f], k < l
        PROVE  /\ wal'[f][k].ts <= wal'[f][l].ts
               /\ {wal'[f][k].q, wal'[f][l].q} \cap Refused = {} =>
                     Precedes(db, wal'[f][k].q, wal'[f][l].q)
    <2> DEFINE n == Len(wal[f])
    <2>1. /\ wal[f] \in Seq(Entry) /\ n \in Nat /\ DOMAIN wal[f] = 1..n
          /\ DOMAIN wal'[f] = 1..(n + 1)
          /\ wal'[f][n + 1] = e /\ \A i \in 1..n : wal'[f][i] = wal[f][i]
      BY <1>0, <1>4, AppendedAt
    <2>2. CASE l = n + 1
      <3>1. k \in 1..n /\ wal'[f][l] = e /\ wal'[f][k] = wal[f][k]
        BY <1>9, <2>1, <2>2
      <3>2. wal[f][k] \in Values(wal[f])
        BY <2>1, <3>1 DEF Values
      <3>3. /\ wal[f][k].q \notin Refused => wal[f][k].q \in Values(db)
            /\ wal[f][k].q # q /\ wal[f][k].ts <= execAt[q]
        BY <1>1, <1>4, <3>2 DEF History, WalIsHistory
      <3>4. wal[f][k].ts <= e.ts
        <4>1. e.ts = stampAt[q] /\ Stamped(q)
          BY <1>0, <1>3, Types DEF Stamped, e
        <4>2. execAt[q] <= e.ts
          BY <1>3, <4>1 DEF StampInv, StampsFollow
        <4>3. wal[f][k].ts \in Nat /\ execAt[q] \in Nat /\ e.ts \in Nat
          BY <1>3, <1>4, <3>2, <4>1, LoggedBefore, Clocks
        <4> QED
          BY <3>3, <4>2, <4>3
      <3> QED
        BY <1>4, <1>8, <3>1, <3>3, <3>4
    <2>3. CASE l # n + 1
      <3>1. k \in 1..n /\ l \in 1..n
        BY <1>9, <2>1, <2>3
      <3>2. wal'[f][k] = wal[f][k] /\ wal'[f][l] = wal[f][l]
        BY <2>1, <3>1
      <3> QED
        BY <1>4, <1>9, <2>1, <3>1, <3>2 DEF History, WalIsHistory
    <2> QED
      BY <2>2, <2>3
  <1>10. \A s \in Seconds : \A k, l \in DOMAIN wal'[s] : k < l =>
            /\ wal'[s][k].ts <= wal'[s][l].ts
            /\ {wal'[s][k].q, wal'[s][l].q} \cap Refused = {} =>
                  Precedes(db, wal'[s][k].q, wal'[s][l].q)
    BY <1>5, <1>9 DEF History, WalIsHistory
  <1>11. \A s \in Seconds : \A x \in Values(wal'[s]) :
            x.q \notin Refused => x.q \in Values(db)
    <2>1. \A x \in Values(wal'[f]) : x = e \/ x \in Values(wal[f])
      BY <1>0, <1>4, ValuesAppend
    <2> QED
      BY <1>4, <1>5, <1>8, <2>1 DEF History, WalIsHistory
  <1>12. ASSUME NEW x \in logged'
         PROVE  Stamped(x) /\ \E y \in Values(wal'[Floor(stampAt[x])]) : y.q = x
    <2>1. CASE x = q
      <3>1. Floor(stampAt[x]) = f /\ e \in Values(wal'[f]) /\ e.q = x
        BY <1>0, <1>3, <1>4, <2>1, ValuesAppended DEF f
      <3> QED
        BY <1>0, <1>3, <2>1, <3>1, Types DEF Stamped
    <2>2. CASE x # q
      <3>1. x \in logged /\ x \in Queries /\ Stamped(x)
        BY <1>1, <1>12, <2>2, Types DEF History, WalIsHistory
      <3>2. PICK y \in Values(wal[Floor(stampAt[x])]) : y.q = x
        BY <3>1 DEF History, WalIsHistory
      <3>3. stampAt[x] \in Time
        BY <3>1, Types, Clocks DEF Stamped
      <3>4. Floor(stampAt[x]) \in Seconds
        BY <3>3, FloorTyped
      <3>5. y \in Values(wal'[Floor(stampAt[x])])
        <4>1. CASE Floor(stampAt[x]) = f
          <5>1. Values(wal[f]) \subseteq Values(Append(wal[f], e))
            BY <1>0, <1>4, ValuesAppended
          <5> QED
            BY <1>4, <4>1, <5>1
        <4>2. CASE Floor(stampAt[x]) # f
          BY <1>5, <3>4, <4>2
        <4> QED
          BY <4>1, <4>2
      <3> QED
        BY <3>1, <3>2, <3>5
    <2> QED
      BY <2>1, <2>2
  <1>13. WalIsHistory'
    BY <1>0, <1>1, <1>2, <1>10, <1>11, <1>12 DEF WalIsHistory, Stamped
  <1> QED
    BY <1>6, <1>7, <1>13 DEF History

LEMMA HistoryWorker ==
    ASSUME OneWorker, TypeInv, StampInv, History, ~ Fault,
           NEW w \in Workers, WorkerStep(w)
    PROVE  History'
  <1>0. /\ worker \in [Workers -> WorkerState] /\ worker[w] \in WorkerState
        /\ \A v \in Workers : v = w
    BY Types DEF OneWorker
  <1>1. ASSUME UNCHANGED <<now, db, wal, snaps, snapper, past, execAt, stampAt, logged>>,
               worker'[w].conn = worker[w].conn,
               \/ worker'[w].pc = "idle"
               \/ /\ worker[w].pc \in {"acquire", "read"}
                  /\ worker'[w].pc \in {"read", "upload"}
                  /\ worker'[w].q = worker[w].q /\ worker'[w].ts = worker[w].ts
                  /\ worker'[w].pc = "upload" =>
                        worker'[w].prior = wal[Floor(worker[w].ts)]
        PROVE  History'
    <2>1. DbIsHistory' /\ PastIsHistory' /\ CopiesAreHistory'
      BY <1>1 DEF History, DbIsHistory, PastIsHistory, CopiesAreHistory, CopyAt,
         Stamped, Executed
    <2>2. WorkerAtEnd' /\ WalIsHistory'
      BY <1>0, <1>1 DEF History, WorkerAtEnd, WalIsHistory, Stamped
    <2> QED
      BY <2>1, <2>2 DEF History
  <1>2. CASE AcquireWal(w)
    <2>1. /\ worker[w].pc = "acquire"
          /\ \/ worker' = [worker EXCEPT ![w].pc = "read"]
             \/ worker' = [worker EXCEPT ![w] = Resting(worker[w].conn)]
          /\ UNCHANGED <<now, db, wal, snaps, snapper, past, execAt, stampAt, logged>>
      BY <1>2 DEF AcquireWal, storage, times, walHist
    <2>2. /\ worker'[w].conn = worker[w].conn
          /\ \/ worker'[w].pc = "idle"
             \/ /\ worker'[w].pc = "read"
                /\ worker'[w].q = worker[w].q /\ worker'[w].ts = worker[w].ts
      BY <1>0, <2>1 DEF Resting, WorkerState
    <2> QED
      BY <1>1, <2>1, <2>2
  <1>3. CASE ReadPrior(w)
    <2>1. /\ worker[w].pc = "read"
          /\ worker' = [worker EXCEPT ![w].pc = "upload",
                                      ![w].prior = wal[Floor(worker[w].ts)]]
          /\ UNCHANGED <<now, db, wal, snaps, snapper, past, execAt, stampAt, logged>>
      BY <1>3 DEF ReadPrior, storage, times
    <2>2. /\ worker'[w].conn = worker[w].conn /\ worker'[w].pc = "upload"
          /\ worker'[w].q = worker[w].q /\ worker'[w].ts = worker[w].ts
          /\ worker'[w].prior = wal[Floor(worker[w].ts)]
      BY <1>0, <2>1 DEF WorkerState
    <2> QED
      BY <1>1, <2>1, <2>2
  <1>4. CASE ReleaseWal(w)
    <2>1. /\ worker' = [worker EXCEPT ![w] = Resting(worker[w].conn)]
          /\ UNCHANGED <<now, db, wal, snaps, snapper, past, execAt, stampAt, logged>>
      BY <1>4 DEF ReleaseWal, storage, times, walHist
    <2>2. worker'[w].conn = worker[w].conn /\ worker'[w].pc = "idle"
      BY <1>0, <2>1 DEF Resting
    <2> QED
      BY <1>1, <2>1, <2>2
  <1> QED
    BY <1>2, <1>3, <1>4, HistoryExecute, HistoryRefused, HistoryStamp, HistoryAppend
    DEF WorkerStep, WorkerDies

LEMMA HistorySnap ==
    ASSUME TypeInv, StampInv, History, ~ Fault, NEW p \in SnapReqs, SnapStep(p)
    PROVE  History'
  <1>0. /\ snapper \in [SnapReqs -> SnapperState] /\ snapper[p] \in SnapperState
        /\ now \in Nat /\ db \in Seq(Queries)
    BY Types, Clocks
  <1>1. UNCHANGED <<now, db, wal, worker, past, execAt, stampAt, logged>>
    BY SnapFrame
  <1>2. DbIsHistory' /\ PastIsHistory' /\ WorkerAtEnd' /\ WalIsHistory'
    BY <1>1 DEF History, DbIsHistory, PastIsHistory, WorkerAtEnd, WalIsHistory,
       Stamped, Executed
  <1>3. \A c, t : CopyAt(c, t) => CopyAt(c, t)'
    BY <1>1 DEF CopyAt
  <1>4. ASSUME UNCHANGED snaps, snapper'[p].pc # "save",
               \A v \in SnapReqs : v # p => snapper'[v] = snapper[v]
        PROVE  CopiesAreHistory'
    BY <1>1, <1>3, <1>4 DEF History, CopiesAreHistory
  <1>5. CASE SnapCopy(p)
    <2>1. snapper' = [snapper EXCEPT ![p].pc = "save", ![p].content = db, ![p].copied = now]
          /\ UNCHANGED snaps
      BY <1>5 DEF SnapCopy, storage
    <2>2. snapper'[p].content = db /\ snapper'[p].copied = now
      BY <1>0, <2>1 DEF SnapperState
    <2>3. CopyAt(db, now)
      <3>1. Prefix(db, db) /\ DOMAIN db = 1..Len(db)
        BY <1>0 DEF Prefix
      <3>2. ASSUME NEW i \in DOMAIN db
            PROVE  execAt[db[i]] <= now
        <4>1. db[i] \in Queries /\ db[i] \in Values(db)
          BY <1>0 DEF Values
        <4> QED
          BY <4>1 DEF History, DbIsHistory, StampInv, StampsFollow
      <3> QED
        BY <1>0, <3>1, <3>2 DEF CopyAt
    <2>4. CopyAt(db, now)'
      BY <1>3, <2>3, <1>1 DEF CopyAt
    <2>5. \A v \in SnapReqs : v # p => snapper'[v] = snapper[v]
      BY <1>0, <2>1
    <2>6. ASSUME NEW v \in SnapReqs, snapper'[v].pc = "save"
          PROVE  snapper'[v].copied <= now' /\ CopyAt(snapper[v].content, snapper[v].copied)'
      <3>1. CASE v = p
        BY <1>0, <1>1, <2>2, <2>4, <3>1 DEF CopyAt
      <3>2. CASE v # p
        BY <1>1, <1>3, <2>5, <2>6, <3>2 DEF History, CopiesAreHistory, CopyAt
      <3> QED
        BY <3>1, <3>2
    <2> QED
      BY <1>1, <1>2, <1>3, <2>1, <2>6 DEF History, CopiesAreHistory
  <1>6. CASE SnapSave(p)
    <2> DEFINE s == [at |-> now, copied |-> snapper[p].copied,
                     content |-> snapper[p].content]
    <2>1. /\ snaps' = snaps \cup {s} /\ snapper[p].pc = "save"
          /\ snapper' = [snapper EXCEPT ![p].pc = "release", ![p].ok = TRUE]
      BY <1>6 DEF SnapSave
    <2>2. s.copied <= now /\ s.at = now /\ CopyAt(s.content, s.copied)
      BY <2>1 DEF History, CopiesAreHistory
    <2> HIDE DEF s
    <2>3. /\ \A v \in SnapReqs : v # p => snapper'[v] = snapper[v]
          /\ snapper'[p].pc = "release"
      BY <1>0, <2>1 DEF SnapperState
    <2>4. \A u \in snaps' : u.copied <= u.at /\ u.at <= now /\ CopyAt(u.content, u.copied)
      BY <1>0, <2>1, <2>2 DEF History, CopiesAreHistory
    <2>5. ASSUME NEW v \in SnapReqs, snapper'[v].pc = "save"
          PROVE  snapper'[v].copied <= now' /\ CopyAt(snapper[v].content, snapper[v].copied)'
      <3>1. v # p
        BY <2>3, <2>5
      <3> QED
        BY <1>1, <1>3, <2>3, <2>5, <3>1 DEF History, CopiesAreHistory, CopyAt
    <2>6. \A u \in snaps' : CopyAt(u.content, u.copied)'
      BY <1>3, <2>4
    <2> QED
      BY <1>1, <1>2, <2>4, <2>5, <2>6 DEF History, CopiesAreHistory
  <1>7. CASE SnapStart(p)
    <2>1. /\ UNCHANGED snaps
          /\ \E c \in {"copy", "done"} : snapper' = [snapper EXCEPT ![p].pc = c]
      BY <1>7 DEF SnapStart, storage
    <2>2. /\ snapper'[p].pc # "save"
          /\ \A v \in SnapReqs : v # p => snapper'[v] = snapper[v]
      BY <1>0, <2>1 DEF SnapperState
    <2> QED
      BY <1>2, <1>4, <2>1, <2>2 DEF History
  <1>8. CASE SnapRelease(p)
    <2>1. /\ UNCHANGED snaps
          /\ snapper' = [snapper EXCEPT ![p].pc = "done", ![p].content = <<>>,
                                        ![p].copied = 0]
      BY <1>8 DEF SnapRelease, storage
    <2>2. /\ snapper'[p].pc # "save"
          /\ \A v \in SnapReqs : v # p => snapper'[v] = snapper[v]
      BY <1>0, <2>1 DEF SnapperState
    <2> QED
      BY <1>2, <1>4, <2>1, <2>2 DEF History
  <1> QED
    BY <1>2, <1>4, <1>5, <1>6, <1>7, <1>8 DEF History, SnapStep, SnapFails

LEMMA FreshInvStep ==
    ASSUME OneWorker, TypeInv, StampInv, SwapInv, FreshInv, [Next]_vars
    PROVE  FreshInv'
  <1> SUFFICES ASSUME faults' = 0, swaps' = 0
               PROVE  History'
    BY DEF FreshInv, Fresh
  <1>1. faults = 0 /\ ~ Fault /\ swaps \in Nat
    BY NoFault DEF TypeInv, CountsTyped
  <1>2. ASSUME swaps = 0, NEW r \in Restorers, RestoreStep(r)
        PROVE  UNCHANGED <<now, db, wal, snaps, worker, snapper, past, execAt,
                           stampAt, logged>>
    <2>1. Moves(r) /\ ~ Swapped(r)
      BY <1>1, <1>2, RestoreMoves DEF SwapInv
    <2>2. restorer[r].pc \in {"idle", "acquire"}
      <3>1. restorer[r].pc \in {"idle", "acquire", "swap", "list", "file", "entry",
                                "archive", "delete", "release", "done"}
        BY DEF TypeInv, RestorersTyped, RestorerState
      <3> QED
        BY <1>2, <2>1, <3>1 DEF Moves, Swapped
    <2>3. \/ \E t \in Time : FindSnapshot(r, t)
          \/ AcquireRestore(r)
      BY <1>1, <1>2, <2>2 DEF RestoreStep, Swap, ListWal, ReadFile, ReplayEntry,
         Archived, DeleteWal, ReleaseRestore, RestoreFails
    <2> QED
      BY <2>3 DEF FindSnapshot, AcquireRestore, storage, times, walHist
  <1>3. swaps = 0
    <2>1. ASSUME NEW r \in Restorers, RestoreStep(r)
          PROVE  swaps = 0
      <3>1. Moves(r)
        BY <1>1, <2>1, RestoreMoves
      <3>2. swaps' = IF restorer[r].pc = "swap" THEN swaps + 1 ELSE swaps
        BY <3>1 DEF Moves
      <3> QED
        BY <1>1, <3>2
    <2> QED
      BY <2>1, TickFrame, LeaseFrame, StutterFrame, SnapFrame, WorkerFrame DEF Next
  <1>4. History
    BY <1>1, <1>3 DEF FreshInv, Fresh
  <1> QED
    BY <1>1, <1>2, <1>3, <1>4, HistoryTick, HistoryWorker, HistorySnap,
       HistoryRests, LeaseFrame, StutterFrame DEF Next

LEMMA FreshCorrect == ASSUME OneWorker PROVE Spec => []FreshInv
  <1>1. Init => FreshInv
    BY HistoryInit DEF FreshInv
  <1>2. ASSUME TypeInv, StampInv, SwapInv, FreshInv, [Next]_vars
        PROVE  FreshInv'
    BY <1>2, FreshInvStep
  <1> QED
    BY <1>1, <1>2, TypeInvCorrect, StampCorrect, SwapCorrect, PTL DEF Spec

-----------------------------------------------------------------------------
(* What a quiet restore has found                                           *)

Whole(r) == past[restorer[r].target]

\* The restore is under way, and no other has replaced the directory.
UnderWay(r) ==
    /\ faults = 0 /\ restorer[r].quiet
    /\ \/ restorer[r].pc \in {"acquire", "swap"} /\ swaps = 0
       \/ restorer[r].pc \in {"list", "file", "entry", "archive"} /\ swaps = 1

\* It is over, or has got to its archive.
Replaced(r) ==
    /\ faults = 0 /\ restorer[r].quiet /\ swaps = 1
    /\ restorer[r].pc = "archive" \/ restorer[r].ok

\* What the worker has in hand was executed after t.
Behind(t) == \A w \in Workers : worker[w].pc # "idle" => execAt[worker[w].q] > t

BehindTarget(r) == restorer[r].target < now /\ Behind(restorer[r].target)

\* What was there at the target, in its order.
WholeKnown(r) ==
    LET P == Whole(r)
        T == restorer[r].target
    IN  /\ Once(P)
        /\ \A q \in Queries : q \in Values(P) <=> execAt[q] <= T /\ q \notin Refused
        /\ \A i, j \in DOMAIN P : i < j /\ Stamped(P[i]) =>
              stampAt[P[i]] <= execAt[P[j]]

SnapKnown(r) ==
    LET P == Whole(r)
        T == restorer[r].target
        s == restorer[r].snap
    IN  /\ Prefix(s.content, P)
        /\ s.copied <= s.at /\ s.at <= T
        /\ \A q \in Values(s.content) : execAt[q] <= s.copied
        /\ \A q \in Values(P) : execAt[q] < s.copied => q \in Values(s.content)

\* The entries up to t come first, and each follows in s those before it, except
\* what was refused.
Sorted(es, s, t) ==
    \A k, l \in DOMAIN es : k < l /\ es[l].ts <= t =>
        /\ es[k].ts <= t
        /\ {es[k].q, es[l].q} \cap Refused = {} => Precedes(s, es[k].q, es[l].q)

\* The worker appends to what it has read.
PriorRead == \A w \in Workers : worker[w].pc = "upload" =>
                worker[w].prior = wal[Floor(worker[w].ts)]

WalKnown(r) ==
    /\ \A s \in Seconds : Sorted(wal[s], Whole(r), restorer[r].target)
    /\ \A q \in logged : execAt[q] <= restorer[r].target =>
          Stamped(q) /\ \E e \in Values(wal[Floor(stampAt[q])]) : e.q = q
    /\ PriorRead

PlanInv ==
    \A r \in Restorers :
        /\ UnderWay(r) \/ Replaced(r) => BehindTarget(r) /\ WholeKnown(r) /\ SnapKnown(r)
        /\ UnderWay(r) => WalKnown(r)

\* The restore goes on with the plan it has.
Kept(r) ==
    /\ UnderWay(r) \/ Replaced(r)
    /\ UnderWay(r)' => UnderWay(r)
    /\ restorer'[r].target = restorer[r].target
    /\ restorer'[r].snap = restorer[r].snap

LEMMA KeptOrFound ==
    ASSUME TypeInv, SwapInv, [Next]_vars, NEW r \in Restorers,
           UnderWay(r)' \/ Replaced(r)'
    PROVE  Kept(r) \/ (UnderWay(r)' /\ \E t \in Time : FindSnapshot(r, t))
  <1>0. faults' = 0
    BY DEF UnderWay, Replaced
  <1>1. faults = 0 /\ ~ Fault /\ swaps \in Nat
    BY <1>0, NoFault DEF TypeInv, CountsTyped
  <1>2. ASSUME restorer'[r] = restorer[r], swaps' = swaps
        PROVE  Kept(r)
    BY <1>0, <1>1, <1>2 DEF Kept, UnderWay, Replaced
  <1>3. CASE RestoreStep(r)
    <2>1. Moves(r)
      BY <1>1, <1>3, RestoreMoves
    <2>2. restorer[r].ok => restorer[r].pc \in {"delete", "release", "done"}
      BY <1>1 DEF SwapInv
    <2>3. /\ restorer[r].pc \in {"idle", "acquire", "swap", "list", "file", "entry",
                                 "archive", "delete", "release", "done"}
          /\ restorer[r].ok \in BOOLEAN
      BY DEF TypeInv, RestorersTyped, RestorerState
    <2>4. CASE restorer[r].pc = "idle"
      <3>1. \E t \in Time : FindSnapshot(r, t)
        BY <1>1, <1>3, <2>4 DEF RestoreStep, AcquireRestore, Swap, ListWal,
           ReadFile, ReplayEntry, Archived, DeleteWal, ReleaseRestore, RestoreFails
      <3>2. restorer'[r].pc = "acquire" /\ ~ restorer'[r].ok
        BY <2>1, <2>2, <2>4 DEF Moves
      <3>3. ~ Replaced(r)'
        BY <3>2 DEF Replaced
      <3> QED
        BY <3>1, <3>3
    <2>5. CASE restorer[r].pc = "swap"
      <3>1. /\ restorer'[r].pc = "list" /\ ~ restorer'[r].ok /\ swaps' = swaps + 1
            /\ restorer'[r].target = restorer[r].target
            /\ restorer'[r].snap = restorer[r].snap
            /\ restorer'[r].quiet = restorer[r].quiet
        BY <2>1, <2>2, <2>5 DEF Moves
      <3> QED
        BY <1>0, <1>1, <2>5, <3>1 DEF Kept, UnderWay, Replaced
    <2>6. CASE restorer[r].pc \notin {"idle", "swap"}
      <3>1. /\ restorer'[r].target = restorer[r].target
            /\ restorer'[r].snap = restorer[r].snap
            /\ restorer'[r].quiet = restorer[r].quiet
            /\ swaps' = swaps
        BY <2>1, <2>6 DEF Moves
      <3>2. UnderWay(r)' => UnderWay(r)
        BY <1>0, <1>1, <2>1, <2>3, <2>6, <3>1 DEF UnderWay, Moves
      <3>3. Replaced(r)' => UnderWay(r) \/ Replaced(r)
        <4>1. ASSUME restorer'[r].ok
              PROVE  restorer[r].pc = "archive" \/ restorer[r].ok
          BY <2>1, <4>1 DEF Moves
        <4>2. ASSUME restorer'[r].pc = "archive"
              PROVE  restorer[r].pc \in {"file", "entry"}
          BY <2>1, <2>3, <2>6, <4>2 DEF Moves
        <4> QED
          BY <1>1, <3>1, <4>1, <4>2 DEF UnderWay, Replaced
      <3> QED
        BY <3>1, <3>2, <3>3 DEF Kept
    <2> QED
      BY <2>4, <2>5, <2>6
  <1>4. ASSUME NEW v \in Restorers, v # r, RestoreStep(v)
        PROVE  Kept(r)
    <2>1. Moves(v) /\ restorer'[r] = restorer[r]
      BY <1>1, <1>4, RestoreMoves, RestoreAlone
    <2>2. CASE restorer[v].pc = "swap"
      <3>1. swaps' = swaps + 1
        BY <2>1, <2>2 DEF Moves
      <3>2. swaps = 0 /\ Swapped(r)
        BY <1>1, <2>1, <3>1 DEF UnderWay, Replaced, Swapped
      <3> QED
        BY <1>1, <3>2 DEF SwapInv
    <2>3. CASE restorer[v].pc # "swap"
      <3>1. swaps' = swaps
        BY <2>1, <2>3 DEF Moves
      <3> QED
        BY <1>2, <2>1, <3>1
    <2> QED
      BY <2>2, <2>3
  <1> QED
    BY <1>2, <1>3, <1>4, TickFrame, LeaseFrame, StutterFrame, SnapFrame, WorkerFrame
    DEF Next

\* Nothing is deleted under a restore that is under way.
LEMMA NoDelete ==
    ASSUME SwapInv, NEW r \in Restorers, NEW v \in Restorers, UnderWay(r)
    PROVE  ~ DeleteWal(v)
  BY DEF SwapInv, UnderWay, Swapped, DeleteWal

\* What was executed by t is settled.
Settled(t) ==
    /\ past'[t] = past[t]
    /\ \A q \in Queries : execAt[q] <= t \/ execAt'[q] <= t =>
          /\ execAt'[q] = execAt[q] /\ stampAt'[q] = stampAt[q]
          /\ q \in logged' <=> q \in logged

LEMMA SettledWorker ==
    ASSUME OneWorker, TypeInv, NEW t \in Time, t < now, Behind(t),
           NEW w \in Workers, WorkerStep(w)
    PROVE  Settled(t) /\ Behind(t)'
  <1>0. /\ worker \in [Workers -> WorkerState] /\ worker[w] \in WorkerState
        /\ execAt \in [Queries -> Time \cup {MaxTime + 1}]
        /\ stampAt \in [Queries -> Time \cup {MaxTime + 1}]
        /\ past \in [Time -> Seq(Queries)]
        /\ \A v \in Workers : v = w
        /\ t \in Nat /\ t # now /\ now \in Nat /\ MaxTime \in Nat /\ t <= MaxTime
        /\ \A q \in Queries : execAt[q] \in Nat
    BY Types, Clocks DEF OneWorker
  <1>1. ASSUME NEW q \in Queries, Execute(w, q)
        PROVE  Settled(t) /\ Behind(t)'
    <2>1. /\ execAt' = [execAt EXCEPT ![q] = now] /\ execAt[q] > MaxTime
          /\ UNCHANGED <<stampAt, logged>>
          /\ worker'[w].pc # "idle" => worker'[w].q = q
          /\ past' = past \/ \E c : past' = [past EXCEPT ![now] = c]
      BY <1>0, <1>1 DEF Execute, SetDb, walHist, Resting
    <2>2. past'[t] = past[t]
      BY <1>0, <2>1
    <2>3. execAt'[q] = now /\ ~ (execAt[q] <= t)
          /\ \A x \in Queries : x # q => execAt'[x] = execAt[x]
      BY <1>0, <2>1
    <2>4. Settled(t)
      BY <1>0, <2>1, <2>2, <2>3 DEF Settled
    <2>5. Behind(t)'
      BY <1>0, <2>1, <2>3 DEF Behind
    <2> QED
      BY <2>4, <2>5
  <1>2. CASE Stamp(w)
    <2>1. /\ stampAt' = [stampAt EXCEPT ![worker[w].q] = now] /\ worker[w].pc = "stamp"
          /\ UNCHANGED <<past, execAt, logged>>
          /\ worker'[w].q = worker[w].q
      BY <1>0, <1>2 DEF Stamp, walHist, WorkerState
    <2>2. worker[w].q \in Queries /\ ~ (execAt[worker[w].q] <= t)
      BY <1>0, <2>1 DEF Behind, TypeInv, WorkersTyped
    <2>3. \A x \in Queries : x # worker[w].q => stampAt'[x] = stampAt[x]
      BY <1>0, <2>1
    <2> QED
      BY <1>0, <2>1, <2>2, <2>3 DEF Settled, Behind
  <1>3. CASE Upload(w)
    <2>1. /\ UNCHANGED <<past, execAt, stampAt>> /\ worker[w].pc = "upload"
          /\ logged' = logged \/ logged' = logged \cup {worker[w].q}
          /\ worker'[w].q = worker[w].q
      BY <1>0, <1>3 DEF Upload, times, WorkerState
    <2>2. worker[w].q \in Queries /\ ~ (execAt[worker[w].q] <= t)
      BY <1>0, <2>1 DEF Behind, TypeInv, WorkersTyped
    <2> QED
      BY <1>0, <2>1, <2>2 DEF Settled, Behind
  <1>4. CASE AcquireWal(w) \/ ReadPrior(w) \/ ReleaseWal(w) \/ WorkerDies(w)
    <2>1. UNCHANGED <<past, execAt, stampAt, logged>>
      BY <1>4 DEF AcquireWal, ReadPrior, ReleaseWal, WorkerDies, times, walHist
    <2>2. \/ worker'[w].pc = "idle"
          \/ worker[w].pc # "idle" /\ worker'[w].q = worker[w].q
      BY <1>0, <1>4 DEF AcquireWal, ReadPrior, ReleaseWal, WorkerDies, Resting, WorkerState
    <2> QED
      BY <1>0, <2>1, <2>2 DEF Settled, Behind
  <1> QED
    BY <1>1, <1>2, <1>3, <1>4 DEF WorkerStep

LEMMA SettledStays ==
    ASSUME OneWorker, TypeInv, NEW t \in Time, t < now, Behind(t), [Next]_vars
    PROVE  Settled(t) /\ Behind(t)' /\ t < now'
  <1>0. /\ past \in [Time -> Seq(Queries)] /\ now \in Nat /\ t \in Nat
        /\ worker \in [Workers -> WorkerState]
    BY Types, Clocks
  <1>1. ASSUME UNCHANGED <<execAt, stampAt, logged>>, past'[t] = past[t],
               \A w \in Workers :
                  worker'[w].pc = worker[w].pc /\ worker'[w].q = worker[w].q
        PROVE  Settled(t) /\ Behind(t)'
    BY <1>1 DEF Settled, Behind
  <1>2. ASSUME NEW r \in Restorers, RestoreStep(r)
        PROVE  Settled(t) /\ Behind(t)' /\ t < now'
    <2>1. UNCHANGED <<now, execAt, stampAt, logged>>
      BY <1>2, RestoreFrame
    <2>2. past' = past \/ \E c : past' = [past EXCEPT ![now] = c]
      BY <1>2 DEF RestoreStep, FindSnapshot, AcquireRestore, Swap, ListWal,
         ReadFile, ReplayEntry, Archived, DeleteWal, ReleaseRestore, RestoreFails, SetDb
    <2>3. past'[t] = past[t]
      BY <1>0, <2>2
    <2>4. ASSUME NEW w \in Workers
          PROVE  worker'[w].pc = worker[w].pc /\ worker'[w].q = worker[w].q
      <3>1. worker' = worker \/ Swap(r)
        BY <1>2, RestoreFrame
      <3>2. CASE Swap(r)
        <4>1. worker[w] \in WorkerState
          BY <1>0
        <4>2. worker'[w] = [worker[w] EXCEPT
                               !.conn = IF @ = "path" THEN "moved" ELSE @]
          BY <3>2 DEF Swap
        <4> QED
          BY <4>1, <4>2 DEF WorkerState
      <3> QED
        BY <3>1, <3>2
    <2> QED
      BY <1>1, <2>1, <2>3, <2>4
  <1>3. CASE Tick
    <2>1. /\ past' = [past EXCEPT ![now + 1] = db] /\ now' = now + 1
          /\ UNCHANGED <<execAt, stampAt, logged, worker>>
      BY <1>3, TickFrame
    <2>2. t # now + 1 /\ t < now'
      BY <1>0, <2>1
    <2>3. past'[t] = past[t]
      BY <1>0, <2>1, <2>2
    <2> QED
      BY <1>1, <2>1, <2>2, <2>3
  <1>4. ASSUME UNCHANGED <<now, past, worker, execAt, stampAt, logged>>
        PROVE  Settled(t) /\ Behind(t)' /\ t < now'
    BY <1>1, <1>4
  <1> QED
    BY <1>2, <1>3, <1>4, SettledWorker, WorkerFrame, SnapFrame, LeaseFrame,
       StutterFrame DEF Next

\* What comes into the WAL was stamped after t.
Appended(t) ==
    \A s \in Seconds :
        \/ wal'[s] = wal[s]
        \/ \E e \in Entry : e.ts > t /\ wal'[s] = Append(wal[s], e)

LEMMA AppendedBehind ==
    ASSUME OneWorker, TypeInv, StampInv, NEW t \in Time, Behind(t), PriorRead,
           ~ Fault, [Next]_vars, \A v \in Restorers : ~ DeleteWal(v)
    PROVE  Appended(t) /\ PriorRead'
  <1>0. /\ worker \in [Workers -> WorkerState] /\ wal \in [Seconds -> Seq(Entry)]
        /\ t \in Nat
    BY Types
  <1>1. ASSUME UNCHANGED wal,
               \A w \in Workers :
                  \/ worker'[w].pc # "upload"
                  \/ /\ worker'[w].pc = worker[w].pc /\ worker'[w].ts = worker[w].ts
                     /\ worker'[w].prior = worker[w].prior
        PROVE  Appended(t) /\ PriorRead'
    BY <1>1 DEF Appended, PriorRead
  <1>2. ASSUME NEW r \in Restorers, RestoreStep(r)
        PROVE  Appended(t) /\ PriorRead'
    <2>1. wal' = wal
      BY <1>2, RestoreFrame
    <2>2. ASSUME NEW w \in Workers
          PROVE  /\ worker'[w].pc = worker[w].pc /\ worker'[w].ts = worker[w].ts
                 /\ worker'[w].prior = worker[w].prior
      <3>1. worker' = worker \/ Swap(r)
        BY <1>2, RestoreFrame
      <3>2. CASE Swap(r)
        <4>1. worker[w] \in WorkerState
          BY <1>0
        <4>2. worker'[w] = [worker[w] EXCEPT
                               !.conn = IF @ = "path" THEN "moved" ELSE @]
          BY <3>2 DEF Swap
        <4> QED
          BY <4>1, <4>2 DEF WorkerState
      <3> QED
        BY <3>1, <3>2
    <2> QED
      BY <1>1, <2>1, <2>2
  <1>3. ASSUME NEW w \in Workers, WorkerStep(w)
        PROVE  Appended(t) /\ PriorRead'
    <2>0. worker[w] \in WorkerState /\ \A v \in Workers : v = w
      BY <1>0 DEF OneWorker
    <2>1. CASE Upload(w)
      <3> DEFINE f == Floor(worker[w].ts)
                 e == [q |-> worker[w].q, ts |-> worker[w].ts]
      <3>1. /\ worker' = [worker EXCEPT ![w].pc = "release"] /\ worker[w].pc = "upload"
            /\ wal' = [wal EXCEPT ![f] = Append(worker[w].prior, e)]
        BY <2>1 DEF Upload
      <3>2. /\ worker[w].prior = wal[f] /\ worker[w].q \in Queries
            /\ worker[w].ts \in Time /\ execAt[worker[w].q] > t
            /\ stampAt[worker[w].q] = worker[w].ts
        BY <2>0, <3>1
        DEF PriorRead, Behind, TypeInv, WorkersTyped, WorkerState, StampInv, WorkerStamps
      <3>3. worker[w].ts > t
        <4>1. Stamped(worker[w].q) /\ execAt[worker[w].q] <= stampAt[worker[w].q]
          BY <3>2, Types DEF Stamped, StampInv, StampsFollow
        <4>2. /\ execAt[worker[w].q] \in Nat /\ worker[w].ts \in Nat
          BY <3>2, Clocks, Types
        <4> QED
          BY <1>0, <3>2, <4>1, <4>2
      <3>4. e \in Entry /\ e.ts > t
        BY <3>2, <3>3 DEF Entry
      <3> HIDE DEF e, f
      <3>5. Appended(t)
        BY <1>0, <3>1, <3>2, <3>4 DEF Appended
      <3>6. PriorRead'
        <4>1. worker'[w].pc = "release"
          BY <1>0, <2>0, <3>1 DEF WorkerState
        <4> QED
          BY <2>0, <4>1 DEF PriorRead
      <3> QED
        BY <3>5, <3>6
    <2>2. CASE ReadPrior(w)
      <3>1. /\ wal' = wal
            /\ worker' = [worker EXCEPT ![w].pc = "upload",
                                        ![w].prior = wal[Floor(worker[w].ts)]]
        BY <2>2 DEF ReadPrior, storage
      <3>2. worker'[w].ts = worker[w].ts /\ worker'[w].prior = wal[Floor(worker[w].ts)]
        BY <1>0, <2>0, <3>1 DEF WorkerState
      <3> QED
        BY <2>0, <3>1, <3>2 DEF Appended, PriorRead
    <2>3. ASSUME NEW q \in Queries, Execute(w, q)
          PROVE  Appended(t) /\ PriorRead'
      <3>1. wal' = wal /\ worker'[w].pc \in {"idle", "stamp"}
        BY <1>0, <2>3 DEF Execute, Resting
      <3> QED
        BY <1>1, <2>0, <3>1
    <2>4. CASE Stamp(w) \/ AcquireWal(w) \/ ReleaseWal(w)
      <3>1. wal' = wal
        BY <2>4 DEF Stamp, AcquireWal, ReleaseWal, storage
      <3>2. worker'[w].pc \in {"acquire", "read", "idle"}
        BY <1>0, <2>0, <2>4 DEF Stamp, AcquireWal, ReleaseWal, Resting, WorkerState
      <3> QED
        BY <1>1, <2>0, <3>1, <3>2
    <2> QED
      BY <1>3, <2>1, <2>2, <2>3, <2>4 DEF WorkerStep, WorkerDies
  <1>4. ASSUME UNCHANGED <<wal, worker>>
        PROVE  Appended(t) /\ PriorRead'
    BY <1>1, <1>4
  <1> QED
    BY <1>2, <1>3, <1>4, SnapFrame, LeaseFrame, StutterFrame, TickFrame DEF Next

LEMMA SortedAppend ==
    ASSUME NEW es \in Seq(Entry), NEW e \in Entry, NEW c, NEW t, e.ts > t, t \in Nat,
           Sorted(es, c, t)
    PROVE  Sorted(Append(es, e), c, t)
  <1> DEFINE n == Len(es)
             fs == Append(es, e)
  <1>1. /\ n \in Nat /\ DOMAIN es = 1..n /\ DOMAIN fs = 1..(n + 1) /\ fs[n + 1] = e
        /\ \A i \in 1..n : fs[i] = es[i]
    BY AppendedAt
  <1>2. ~ (e.ts <= t)
    BY PitrAssumption DEF Entry, Time
  <1> HIDE DEF fs
  <1>3. ASSUME NEW i \in DOMAIN fs, NEW j \in DOMAIN fs, i < j /\ fs[j].ts <= t
        PROVE  /\ fs[i].ts <= t
               /\ {fs[i].q, fs[j].q} \cap Refused = {} => Precedes(c, fs[i].q, fs[j].q)
    <2>1. j # n + 1
      BY <1>1, <1>2, <1>3
    <2>2. i \in 1..n /\ j \in 1..n
      BY <1>1, <1>3, <2>1
    <2>3. fs[i] = es[i] /\ fs[j] = es[j]
      BY <1>1, <2>2
    <2> QED
      BY <1>1, <1>3, <2>2, <2>3 DEF Sorted
  <1>4. Sorted(fs, c, t)
    BY <1>3 DEF Sorted
  <1> QED
    BY <1>4 DEF fs

\* What a quiet restore finds before any other is what was at its target.
LEMMA PlanFound ==
    ASSUME TypeInv, StampInv, FreshInv, NEW r \in Restorers, NEW t \in Time,
           FindSnapshot(r, t), UnderWay(r)', faults = 0
    PROVE  BehindTarget(r)' /\ WholeKnown(r)' /\ SnapKnown(r)' /\ WalKnown(r)'
  <1>1. PICK s \in Nearest(t) : restorer' = [restorer EXCEPT ![r].pc = "acquire",
               ![r].snap = s, ![r].target = t, ![r].quiet = Quiet /\ t < now]
    BY DEF FindSnapshot
  <1>2. /\ restorer'[r].pc = "acquire" /\ restorer'[r].snap = s
        /\ restorer'[r].target = t /\ restorer'[r].quiet = (Quiet /\ t < now)
    <2> DEFINE b == Quiet /\ t < now
    <2>1. restorer' = [restorer EXCEPT ![r].pc = "acquire",
               ![r].snap = s, ![r].target = t, ![r].quiet = b]
      BY <1>1
    <2> HIDE DEF b
    <2>2. /\ restorer'[r].pc = "acquire" /\ restorer'[r].snap = s
          /\ restorer'[r].target = t /\ restorer'[r].quiet = b
      BY <2>1, Types DEF RestorerState
    <2> QED
      BY <2>2 DEF b
  <1>3. UNCHANGED <<now, db, wal, worker, past, execAt, stampAt, logged, swaps>>
    BY DEF FindSnapshot, storage, times, walHist
  <1>4. /\ Quiet /\ t < now /\ swaps = 0
        /\ s \in snaps /\ s.at <= t
    <2>1. restorer'[r].quiet /\ swaps' = 0
      BY <1>2 DEF UnderWay
    <2> QED
      BY <1>2, <1>3, <2>1 DEF Nearest
  <1>5. History
    BY <1>4 DEF FreshInv, Fresh
  <1>6. \A w \in Workers : worker[w].pc = "idle"
    BY <1>4 DEF Quiet
  <1> DEFINE P == past[t]
  <1>7. /\ db \in Seq(Queries) /\ P \in Seq(Queries) /\ t \in 0..now /\ t \in Nat
        /\ s.content \in Seq(Queries) /\ s.at \in Nat /\ s.copied \in Nat
    BY <1>4, Types, Clocks
  <1>8. /\ DOMAIN db = 1..Len(db) /\ DOMAIN P = 1..Len(P) /\ Len(db) \in Nat
        /\ Len(P) \in Nat /\ Len(P) <= Len(db) /\ Prefix(P, db)
        /\ \A i \in 1..Len(P) : P[i] = db[i] /\ i \in 1..Len(db)
        /\ \A i \in 1..Len(db) : i <= Len(P) <=> execAt[db[i]] <= t
        /\ \A i \in 1..Len(db) : db[i] \in Queries
    BY <1>5, <1>7 DEF History, PastIsHistory, Prefix
  <1>9. Once(P)
    BY <1>5, <1>7, <1>8, PrefixPrecedes DEF History, DbIsHistory
  <1>10. ASSUME NEW q \in Queries
         PROVE  q \in Values(P) <=> execAt[q] <= t /\ q \notin Refused
    <2>1. ASSUME q \in Values(P)
          PROVE  execAt[q] <= t /\ q \notin Refused
      <3>1. PICK i \in 1..Len(P) : P[i] = q
        BY <1>8, <2>1 DEF Values
      <3>2. execAt[q] <= t /\ q \in Values(db)
        BY <1>8, <3>1 DEF Values
      <3> QED
        BY <1>5, <3>2 DEF History, DbIsHistory
    <2>2. ASSUME execAt[q] <= t, q \notin Refused
          PROVE  q \in Values(P)
      <3>1. Executed(q)
        BY <1>7, <2>2, Clocks, Types DEF Executed
      <3>2. q \in Values(db)
        BY <1>5, <2>2, <3>1 DEF History, DbIsHistory
      <3>3. PICK i \in 1..Len(db) : db[i] = q
        BY <1>8, <3>2 DEF Values
      <3>4. i \in 1..Len(P) /\ P[i] = q
        BY <1>8, <2>2, <3>3
      <3> QED
        BY <1>8, <3>4 DEF Values
    <2> QED
      BY <2>1, <2>2
  <1>11. \A i, j \in DOMAIN P : i < j /\ Stamped(P[i]) => stampAt[P[i]] <= execAt[P[j]]
    BY <1>5, <1>8 DEF History, DbIsHistory
  <1>12. BehindTarget(r)'
    BY <1>2, <1>3, <1>4, <1>6 DEF BehindTarget, Behind
  <1>13. WholeKnown(r)'
    BY <1>2, <1>3, <1>9, <1>10, <1>11 DEF WholeKnown, Whole, Stamped
  <1>14. SnapKnown(r)'
    <2> DEFINE c == s.content
               d == s.copied
    <2>1. /\ d <= s.at /\ s.at <= now /\ Prefix(c, db)
          /\ \A i \in 1..Len(db) : i <= Len(c) => execAt[db[i]] <= d
          /\ \A i \in 1..Len(db) : execAt[db[i]] < d => i <= Len(c)
      BY <1>4, <1>5, <1>8 DEF History, CopiesAreHistory, CopyAt
    <2>2. /\ DOMAIN c = 1..Len(c) /\ Len(c) \in Nat /\ d \in Nat
          /\ \A i \in 1..Len(c) : c[i] = db[i] /\ i \in 1..Len(db)
      BY <1>7, <1>8, <2>1 DEF Prefix
    <2> HIDE DEF c, d
    <2>3. \A i \in 1..Len(c) : i \in 1..Len(P)
      <3>1. ASSUME NEW i \in 1..Len(c)
            PROVE  i \in 1..Len(P)
        <4>1. i \in 1..Len(db) /\ execAt[db[i]] <= d
          <5>1. i \in 1..Len(db) /\ i <= Len(c)
            BY <2>2
          <5> QED
            BY <2>1, <5>1
        <4>2. db[i] \in Queries /\ execAt[db[i]] \in Nat
          BY <1>8, <4>1, Clocks
        <4>3. execAt[db[i]] <= t
          BY <1>4, <1>7, <2>1, <2>2, <4>1, <4>2
        <4> QED
          BY <1>8, <4>1, <4>3
      <3> QED
        BY <3>1
    <2>4. Len(c) <= Len(P)
      <3>1. CASE Len(c) = 0
        BY <1>8, <3>1
      <3>2. CASE Len(c) # 0
        <4>1. Len(c) \in 1..Len(c)
          BY <2>2, <3>2
        <4> QED
          BY <1>8, <2>3, <4>1
      <3> QED
        BY <3>1, <3>2
    <2>5. Prefix(c, P)
      BY <1>8, <2>2, <2>3, <2>4 DEF Prefix
    <2>6. ASSUME NEW q \in Values(c)
          PROVE  execAt[q] <= d
      <3>1. PICK i \in 1..Len(c) : c[i] = q
        BY <2>2 DEF Values
      <3>2. i \in 1..Len(db) /\ i <= Len(c) /\ db[i] = q
        BY <2>2, <3>1
      <3> QED
        BY <2>1, <3>2
    <2>7. ASSUME NEW q \in Values(P), execAt[q] < d
          PROVE  q \in Values(c)
      <3>1. PICK i \in 1..Len(P) : P[i] = q
        BY <1>8 DEF Values
      <3>2. i \in 1..Len(db) /\ db[i] = q
        BY <1>8, <3>1
      <3>3. i \in 1..Len(c) /\ c[i] = q
        BY <1>8, <2>1, <2>2, <2>7, <3>1, <3>2
      <3> QED
        BY <2>2, <3>3 DEF Values
    <2> QED
      BY <1>2, <1>3, <1>4, <2>1, <2>5, <2>6, <2>7 DEF SnapKnown, Whole, c, d
  <1>15. WalKnown(r)'
    <2>1. ASSUME NEW f \in Seconds
          PROVE  Sorted(wal[f], P, t)
      <3>1. ASSUME NEW i \in DOMAIN wal[f], NEW j \in DOMAIN wal[f],
                   i < j /\ wal[f][j].ts <= t
            PROVE  /\ wal[f][i].ts <= t
                   /\ {wal[f][i].q, wal[f][j].q} \cap Refused = {} =>
                         Precedes(P, wal[f][i].q, wal[f][j].q)
        <4> DEFINE d == wal[f][i]
                   e == wal[f][j]
        <4>1. d \in Values(wal[f]) /\ e \in Values(wal[f])
          BY DEF Values
        <4>2. /\ d.q \in Queries /\ d.ts \in Time /\ e.q \in Queries /\ e.ts \in Time
              /\ stampAt[d.q] = d.ts /\ stampAt[e.q] = e.ts
          <5>1. wal[f] \in Seq(Entry)
            BY Types
          <5>2. d \in Entry /\ e \in Entry
            BY <4>1, <5>1, ValuesTyped
          <5> QED
            BY <4>1, <5>2 DEF Entry, StampInv, EntriesFiled, Filed
        <4>3. Stamped(d.q) /\ Stamped(e.q)
          BY <4>2, Types DEF Stamped
        <4>4. /\ d.ts <= e.ts
              /\ {d.q, e.q} \cap Refused = {} => Precedes(db, d.q, e.q)
          BY <1>5, <3>1 DEF History, WalIsHistory
        <4>5. e.ts <= t /\ d.ts <= t
          <5>1. d.ts \in Nat /\ e.ts \in Nat /\ e.ts <= t
            BY <3>1, <4>2, Types
          <5> QED
            BY <1>7, <4>4, <5>1
        <4> HIDE DEF d, e
        <4>6. ASSUME {d.q, e.q} \cap Refused = {}
              PROVE  Precedes(P, d.q, e.q)
          <5>1. execAt[e.q] <= stampAt[e.q] /\ execAt[e.q] \in Nat /\ e.ts \in Nat
            BY <4>2, <4>3, Types, Clocks DEF StampInv, StampsFollow
          <5>2. execAt[e.q] <= t
            BY <1>7, <4>2, <4>5, <5>1
          <5>3. e.q \in Values(P)
            BY <1>10, <4>2, <4>6, <5>2
          <5> QED
            BY <1>5, <1>7, <1>8, <4>4, <4>6, <5>3, PrefixPrecedes DEF History, DbIsHistory
        <4> QED
          BY <4>5, <4>6 DEF d, e
      <3> QED
        BY <3>1 DEF Sorted
    <2>2. \A q \in logged : Stamped(q) /\ \E e \in Values(wal[Floor(stampAt[q])]) : e.q = q
      BY <1>5 DEF History, WalIsHistory
    <2>3. PriorRead'
      BY <1>3, <1>6 DEF PriorRead
    <2> QED
      BY <1>2, <1>3, <2>1, <2>2, <2>3 DEF WalKnown, Whole, Stamped
  <1> QED
    BY <1>12, <1>13, <1>14, <1>15

LEMMA PlanKept ==
    ASSUME OneWorker, TypeInv, TypeInv', StampInv, SwapInv, PlanInv, [Next]_vars,
           NEW r \in Restorers, Kept(r), StampsStay, ~ Fault
    PROVE  /\ BehindTarget(r)' /\ WholeKnown(r)' /\ SnapKnown(r)'
           /\ UnderWay(r)' => WalKnown(r)'
  <1>1. BehindTarget(r) /\ WholeKnown(r) /\ SnapKnown(r)
    BY DEF Kept, PlanInv
  <1>a. PICK t \in Time, s \in Snapshot, P \in Seq(Queries) :
           t = restorer[r].target /\ s = restorer[r].snap /\ P = past[t]
    BY Types DEF RestorerState
  <1>2. t \in Nat /\ s.content \in Seq(Queries)
    BY Types DEF Snapshot, Content
  <1>3. Settled(t) /\ Behind(t)' /\ t < now'
    <2>1. t < now /\ Behind(t)
      BY <1>1, <1>a DEF BehindTarget, Behind
    <2> QED
      BY <2>1, SettledStays
  <1>4. restorer'[r].target = t /\ restorer'[r].snap = s /\ past'[t] = P
    BY <1>a, <1>3 DEF Kept, Settled
  <1>5. BehindTarget(r)'
    BY <1>3, <1>4 DEF BehindTarget, Behind
  <1>6. /\ Once(P)
        /\ \A q \in Queries : q \in Values(P) <=> execAt[q] <= t /\ q \notin Refused
        /\ \A i, j \in DOMAIN P : i < j /\ Stamped(P[i]) => stampAt[P[i]] <= execAt[P[j]]
    BY <1>1, <1>a DEF WholeKnown, Whole
  <1>7. \A i \in DOMAIN P : /\ P[i] \in Values(P) /\ P[i] \in Queries
                            /\ execAt'[P[i]] = execAt[P[i]] /\ stampAt'[P[i]] = stampAt[P[i]]
    <2>1. ASSUME NEW i \in DOMAIN P
          PROVE  P[i] \in Values(P) /\ P[i] \in Queries
      BY <1>2 DEF Values
    <2> QED
      BY <1>3, <1>6, <2>1 DEF Settled
  <1>8. WholeKnown(r)'
    <2>1. \A q \in Queries : q \in Values(P) <=> execAt'[q] <= t /\ q \notin Refused
      BY <1>3, <1>6 DEF Settled
    <2>2. \A i, j \in DOMAIN P : i < j /\ Stamped(P[i])' => stampAt'[P[i]] <= execAt'[P[j]]
      BY <1>6, <1>7 DEF Stamped
    <2> QED
      BY <1>4, <1>6, <2>1, <2>2 DEF WholeKnown, Whole, Stamped
  <1>9. SnapKnown(r)'
    <2>1. /\ Prefix(s.content, P) /\ s.copied <= s.at /\ s.at <= t
          /\ \A q \in Values(s.content) : execAt[q] <= s.copied
          /\ \A q \in Values(P) : execAt[q] < s.copied => q \in Values(s.content)
      BY <1>1, <1>a DEF SnapKnown, Whole
    <2>2. \A q \in Values(P) : execAt'[q] = execAt[q]
      BY <1>7 DEF Values
    <2>3. Values(s.content) \subseteq Values(P)
      BY <1>2, <2>1, PrefixPrecedes
    <2> QED
      BY <1>4, <2>1, <2>2, <2>3 DEF SnapKnown, Whole
  <1>10. ASSUME UnderWay(r)'
         PROVE  WalKnown(r)'
    <2>1. UnderWay(r) /\ WalKnown(r)
      BY <1>10 DEF Kept, PlanInv
    <2>2. Appended(t) /\ PriorRead'
      <3>1. Behind(t) /\ PriorRead
        BY <1>1, <1>a, <2>1 DEF WalKnown, BehindTarget, Behind
      <3>2. \A v \in Restorers : ~ DeleteWal(v)
        BY <2>1, NoDelete
      <3> QED
        BY <3>1, <3>2, AppendedBehind
    <2>3. ASSUME NEW f \in Seconds
          PROVE  Sorted(wal'[f], P, t)
      <3>1. Sorted(wal[f], P, t) /\ wal[f] \in Seq(Entry)
        BY <1>a, <2>1, Types DEF WalKnown, Whole
      <3> QED
        BY <1>2, <2>2, <3>1, SortedAppend DEF Appended
    <2>4. ASSUME NEW q \in logged', execAt'[q] <= t
          PROVE  Stamped(q)' /\ \E e \in Values(wal'[Floor(stampAt'[q])]) : e.q = q
      <3>1. q \in Queries
        BY DEF TypeInv, LogTyped
      <3>2. q \in logged /\ execAt[q] <= t /\ stampAt'[q] = stampAt[q]
        BY <1>3, <2>4, <3>1 DEF Settled
      <3>3. Stamped(q) /\ \E e \in Values(wal[Floor(stampAt[q])]) : e.q = q
        BY <1>a, <2>1, <3>2 DEF WalKnown
      <3>4. PICK e \in Values(wal[Floor(stampAt[q])]) : e.q = q
        BY <3>3
      <3>5. Floor(stampAt[q]) \in Seconds
        BY <3>1, <3>3, Types, Clocks, FloorTyped DEF Stamped
      <3>6. e \in Values(wal'[Floor(stampAt[q])])
        <4> DEFINE f == Floor(stampAt[q])
        <4>1. wal[f] \in Seq(Entry) /\ f \in Seconds
          BY <3>5, Types
        <4> HIDE DEF f
        <4>2. \A x \in Entry : Values(wal[f]) \subseteq Values(Append(wal[f], x))
          BY <4>1, ValuesAppended
        <4>3. Values(wal[f]) \subseteq Values(wal'[f])
          BY <2>2, <4>1, <4>2 DEF Appended
        <4> QED
          BY <3>4, <4>3 DEF f
      <3> QED
        BY <3>2, <3>3, <3>4, <3>6 DEF Stamped
    <2> QED
      BY <1>4, <2>2, <2>3, <2>4 DEF WalKnown, Whole, Stamped
  <1> QED
    BY <1>5, <1>8, <1>9, <1>10

LEMMA PlanInvStep ==
    ASSUME OneWorker, TypeInv, TypeInv', StampInv, FreshInv, SwapInv, PlanInv,
           [Next]_vars
    PROVE  PlanInv'
  <1> SUFFICES ASSUME NEW r \in Restorers, UnderWay(r)' \/ Replaced(r)'
               PROVE  /\ BehindTarget(r)' /\ WholeKnown(r)' /\ SnapKnown(r)'
                      /\ UnderWay(r)' => WalKnown(r)'
    BY DEF PlanInv
  <1>1. faults = 0 /\ ~ Fault
    BY NoFault DEF UnderWay, Replaced
  <1>2. StampsStay
    BY StampInvStep
  <1> QED
    BY <1>1, <1>2, KeptOrFound, PlanFound, PlanKept

LEMMA PlanCorrect == ASSUME OneWorker PROVE Spec => []PlanInv
  <1>1. Init => PlanInv
    BY DEF Init, PlanInv, UnderWay, Replaced
  <1>2. ASSUME TypeInv, TypeInv', StampInv, FreshInv, SwapInv, PlanInv, [Next]_vars
        PROVE  PlanInv'
    BY <1>2, PlanInvStep
  <1> QED
    BY <1>1, <1>2, TypeInvCorrect, StampCorrect, SwapCorrect, FreshCorrect, PTL DEF Spec

-----------------------------------------------------------------------------
(* The replay                                                               *)

\* What CleanRestoreIsExact asks of the mutations up to the target.
Clean(r) ==
    \A q \in Queries \ Refused : execAt[q] <= restorer[r].target =>
        /\ q \in logged
        /\ stampAt[q] <= restorer[r].target
        /\ ApartFrom(q, restorer[r].snap)

\* The mutation is still to come: in the entries at hand or in another object.
Pending(r, q) ==
    \/ Floor(stampAt[q]) \in restorer[r].todo
    \/ restorer[r].pc = "entry" /\ \E e \in Values(restorer[r].entries) : e.q = q

\* An entry up to the target follows all that was brought back.
Follows(r, e) ==
    e.ts <= restorer[r].target /\ e.q \notin Refused =>
        \A q \in Values(restorer[r].got) : Precedes(Whole(r), q, e.q)

\* What was brought back is in order, and of what was there.
GotSorted(r) ==
    /\ \A i, j \in DOMAIN restorer[r].got : i < j =>
          Precedes(Whole(r), restorer[r].got[i], restorer[r].got[j])
    /\ Values(restorer[r].got) \subseteq Values(Whole(r))
    /\ Values(restorer[r].snap.content) \subseteq Values(restorer[r].got)

Remaining(r) ==
    /\ \A q \in Values(Whole(r)) :
          q \in Values(restorer[r].got) \/ Pending(r, q)
    /\ \A s \in restorer[r].todo : \A e \in Values(wal[s]) : Follows(r, e)

Reading(r) ==
    LET es == restorer[r].entries
    IN  /\ Sorted(es, Whole(r), restorer[r].target)
        /\ \A e \in Values(es) :
              /\ stampAt[e.q] = e.ts
              /\ Follows(r, e)
              /\ \A s \in restorer[r].todo : Floor(e.ts) < s

ReplayOf(r) ==
    /\ UnderWay(r) /\ restorer[r].pc = "list" =>
          restorer[r].got = restorer[r].snap.content
    /\ UnderWay(r) /\ restorer[r].pc \in {"file", "entry"} /\ Clean(r) =>
          /\ GotSorted(r) /\ Remaining(r)
          /\ restorer[r].pc = "entry" => Reading(r)
    /\ Replaced(r) /\ Clean(r) => restorer[r].got = Whole(r)

ReplayInv == \A r \in Restorers : ReplayOf(r)

LEMMA EntryWhole ==
    ASSUME TypeInv, StampInv, NEW r \in Restorers, WholeKnown(r),
           NEW e \in Entry, stampAt[e.q] = e.ts, e.ts <= restorer[r].target
    PROVE  /\ e.q \in Queries /\ e.ts \in Time /\ e.ts \in Nat /\ Stamped(e.q)
           /\ execAt[e.q] \in Nat /\ execAt[e.q] <= e.ts
           /\ e.q \notin Refused => e.q \in Values(Whole(r))
  <1>1. e.q \in Queries /\ e.ts \in Time /\ e.ts \in Nat /\ Stamped(e.q)
    BY Types DEF Entry, Stamped
  <1>2. execAt[e.q] \in Nat /\ execAt[e.q] <= e.ts
    BY <1>1, Clocks DEF StampInv, StampsFollow
  <1>3. restorer[r].target \in Nat
    BY Types DEF RestorerState
  <1>4. execAt[e.q] <= restorer[r].target
    BY <1>1, <1>2, <1>3
  <1> QED
    BY <1>1, <1>2, <1>4 DEF WholeKnown

LEMMA WholeTyped ==
    ASSUME TypeInv, NEW r \in Restorers
    PROVE  /\ Whole(r) \in Seq(Queries) /\ restorer[r].target \in Time
           /\ restorer[r].target \in Nat /\ restorer[r].snap \in Snapshot
           /\ restorer[r].snap.content \in Seq(Queries)
           /\ restorer[r].snap.at \in Nat /\ restorer[r].snap.copied \in Nat
           /\ restorer[r].got \in Seq(Queries) /\ restorer[r].entries \in Seq(Entry)
           /\ restorer[r].todo \subseteq Seconds /\ restorer[r] \in RestorerState
  <1>1. restorer[r] \in RestorerState
    BY Types
  <1>2. restorer[r].target \in Time /\ restorer[r].snap \in Snapshot
    BY <1>1 DEF RestorerState
  <1> QED
    BY <1>1, <1>2, Types DEF RestorerState, Whole, Snapshot, Content

\* What was stamped after a was executed comes after a.
LEMMA WholeOrder ==
    ASSUME TypeInv, NEW r \in Restorers, WholeKnown(r),
           NEW a \in Values(Whole(r)), NEW b \in Values(Whole(r)), a # b,
           Stamped(b), execAt[a] < stampAt[b]
    PROVE  Precedes(Whole(r), a, b)
  <1>1. a \in Queries /\ b \in Queries
    BY WholeTyped, ValuesTyped
  <1>2. Precedes(Whole(r), b, a) => stampAt[b] <= execAt[a]
    BY DEF WholeKnown, Precedes
  <1>3. ~ Precedes(Whole(r), b, a)
    BY <1>1, <1>2, Clocks
  <1> QED
    BY <1>3, WholeTyped, PrecedesTotal

LEMMA ReplayList ==
    ASSUME TypeInv, StampInv, NEW r \in Restorers, WholeKnown(r), SnapKnown(r),
           WalKnown(r), Clean(r), restorer[r].got = restorer[r].snap.content,
           ~ Fault, ListWal(r), past'[restorer[r].target] = Whole(r)
    PROVE  restorer'[r].pc = "file" /\ GotSorted(r)' /\ Remaining(r)'
  <1>a. PICK t \in Time, s \in Snapshot, P \in Seq(Queries), g \in Seq(Queries) :
           /\ t = restorer[r].target /\ s = restorer[r].snap /\ P = Whole(r)
           /\ g = restorer[r].got
    BY WholeTyped
  <1> DEFINE F == {f \in Seconds : wal[f] # <<>> /\ s.at <= f /\ f <= t}
  <1>0. /\ t \in Nat /\ s.content = g /\ s.at \in Nat /\ s.copied \in Nat
    BY <1>a, WholeTyped
  <1>1. restorer' = [restorer EXCEPT ![r].pc = "file", ![r].files = F, ![r].todo = F]
        /\ UNCHANGED <<wal, execAt, stampAt, logged>>
    BY <1>a DEF ListWal, storage, times, walHist
  <1> HIDE DEF F
  <1>2. /\ restorer'[r].pc = "file" /\ restorer'[r].todo = F /\ restorer'[r].got = g
        /\ restorer'[r].target = t /\ restorer'[r].snap = s
    BY <1>1, <1>a, WholeTyped, Types DEF RestorerState
  <1>3. past'[t] = P
    BY <1>a
  <1>4. /\ Prefix(g, P) /\ s.copied <= s.at /\ s.at <= t /\ Once(P)
        /\ \A q \in Values(g) : execAt[q] <= s.copied
        /\ \A q \in Values(P) : execAt[q] < s.copied => q \in Values(g)
        /\ \A q \in Queries : q \in Values(P) <=> execAt[q] <= t /\ q \notin Refused
    BY <1>a, <1>0 DEF SnapKnown, WholeKnown
  <1>5. \A q \in Queries \ Refused : execAt[q] <= t =>
           q \in logged /\ stampAt[q] <= t /\ ApartFrom(q, s)
    BY <1>a DEF Clean
  <1>6. GotSorted(r)'
    <2>1. Values(g) \subseteq Values(P) /\ \A a, b : Precedes(g, a, b) => Precedes(P, a, b)
      BY <1>4, PrefixPrecedes
    <2>2. \A i, j \in DOMAIN g : i < j => Precedes(g, g[i], g[j])
      BY DEF Precedes
    <2> QED
      BY <1>0, <1>2, <1>3, <2>1, <2>2 DEF GotSorted, Whole
  <1>7. ASSUME NEW q \in Values(P)
        PROVE  q \in Values(g) \/ Floor(stampAt[q]) \in F
    <2>1. q \in Queries /\ execAt[q] <= t /\ q \notin Refused
      BY <1>4, ValuesTyped
    <2>2. /\ q \in logged /\ stampAt[q] <= t /\ ApartFrom(q, s) /\ Stamped(q)
          /\ \E e \in Values(wal[Floor(stampAt[q])]) : e.q = q
      BY <1>5, <1>a, <2>1 DEF WalKnown
    <2>3. /\ execAt[q] \in Nat /\ stampAt[q] \in Nat /\ stampAt[q] \in Time
          /\ execAt[q] <= stampAt[q] /\ execAt[q] \in Time
      <3>1. stampAt[q] \in Time
        BY <2>1, <2>2, Types, Clocks DEF Stamped
      <3>2. execAt[q] \in Time
        BY <2>1, <1>0, Types, Clocks
      <3> QED
        BY <2>1, <2>2, <3>1, <3>2, Types DEF StampInv, StampsFollow
    <2>4. CASE stampAt[q] < s.copied
      <3>1. execAt[q] < s.copied
        BY <1>0, <2>3, <2>4
      <3> QED
        BY <1>4, <3>1
    <2>5. CASE execAt[q] > s.at /\ Floor(execAt[q]) >= s.at
      <3> DEFINE f == Floor(stampAt[q])
      <3>1. f \in Seconds /\ f \in Nat /\ f <= stampAt[q]
        BY <2>3, FloorTyped
      <3>2. Floor(execAt[q]) <= f /\ Floor(execAt[q]) \in Nat
        BY <2>3, FloorMonotone, FloorTyped
      <3> HIDE DEF f
      <3>3. s.at <= f /\ f <= t
        BY <1>0, <2>2, <2>3, <2>5, <3>1, <3>2
      <3>4. wal[f] # <<>>
        BY <2>2, ValuesEmpty DEF f
      <3> QED
        BY <3>1, <3>3, <3>4 DEF F, f
    <2> QED
      BY <2>2, <2>4, <2>5 DEF ApartFrom
  <1>8. ASSUME NEW f \in F, NEW e \in Values(wal[f]), e.ts <= t, e.q \notin Refused,
               NEW q \in Values(g)
        PROVE  Precedes(P, q, e.q)
    <2>1. f \in Seconds /\ s.at <= f /\ f \in Nat
      BY Types DEF F, Seconds
    <2>2. e \in Entry /\ stampAt[e.q] = e.ts /\ Floor(e.ts) = f
      BY <2>1, Types, ValuesTyped DEF StampInv, EntriesFiled, Filed
    <2>3. /\ e.q \in Queries /\ e.ts \in Time /\ e.ts \in Nat /\ Stamped(e.q)
          /\ execAt[e.q] \in Nat /\ execAt[e.q] <= e.ts /\ e.q \in Values(P)
      BY <1>a, <1>8, <2>2, EntryWhole
    <2>4. f <= e.ts
      BY <2>2, <2>3, FloorTyped
    <2>5. ~ (e.ts < s.copied)
      BY <1>0, <1>4, <2>1, <2>3, <2>4
    <2>6. execAt[e.q] > s.at
      BY <1>4, <1>5, <1>8, <2>2, <2>3, <2>5 DEF ApartFrom
    <2>7. q \in Queries /\ execAt[q] \in Nat /\ execAt[q] <= s.copied /\ q \in Values(P)
      BY <1>4, ValuesTyped, PrefixPrecedes, Clocks
    <2>8. q # e.q /\ execAt[q] < stampAt[e.q]
      BY <1>0, <1>4, <2>2, <2>3, <2>6, <2>7
    <2> QED
      BY <1>a, <2>3, <2>7, <2>8, WholeOrder
  <1>9. Remaining(r)'
    <2>1. \A q \in Values(P) : q \in Values(g) \/ Pending(r, q)'
      BY <1>1, <1>2, <1>7 DEF Pending
    <2>2. \A f \in F : \A e \in Values(wal'[f]) : Follows(r, e)'
      BY <1>1, <1>2, <1>3, <1>8 DEF Follows, Whole
    <2> QED
      BY <1>2, <1>3, <2>1, <2>2 DEF Remaining, Whole
  <1> QED
    BY <1>2, <1>6, <1>9

\* Nothing is to come: what was brought back is all.
LEMMA ReplayComplete ==
    ASSUME TypeInv, NEW r \in Restorers, WholeKnown(r), GotSorted(r),
           \A q \in Values(Whole(r)) : q \in Values(restorer[r].got)
    PROVE  restorer[r].got = Whole(r)
  <1>1. Values(restorer[r].got) = Values(Whole(r))
    BY DEF GotSorted
  <1>2. /\ Once(Whole(r))
        /\ \A i, j \in DOMAIN restorer[r].got : i < j =>
              Precedes(Whole(r), restorer[r].got[i], restorer[r].got[j])
    BY DEF GotSorted, WholeKnown
  <1>3. restorer[r].got \in Seq(Queries) /\ Whole(r) \in Seq(Queries)
    BY WholeTyped
  <1> QED
    BY <1>1, <1>2, <1>3, SameOrder

LEMMA ReplayRead ==
    ASSUME TypeInv, StampInv, NEW r \in Restorers, WholeKnown(r), WalKnown(r),
           Clean(r), GotSorted(r), Remaining(r), ~ Fault, ReadFile(r)
    PROVE  \/ /\ restorer'[r].pc = "archive" /\ restorer'[r].got = restorer[r].got
              /\ restorer[r].got = Whole(r)
           \/ restorer'[r].pc = "entry" /\ GotSorted(r)' /\ Remaining(r)' /\ Reading(r)'
  <1>a. PICK t \in Time, s \in Snapshot, P \in Seq(Queries), g \in Seq(Queries),
             T \in SUBSET Seconds :
           /\ t = restorer[r].target /\ s = restorer[r].snap /\ P = Whole(r)
           /\ g = restorer[r].got /\ T = restorer[r].todo
    BY WholeTyped
  <1>1. UNCHANGED <<wal, past, execAt, stampAt, logged>> /\ restorer[r].pc = "file"
    BY DEF ReadFile, storage, times, walHist
  <1>2. CASE T = {}
    <2>1. restorer' = [restorer EXCEPT ![r].pc = "archive"]
      BY <1>2, <1>a DEF ReadFile
    <2>2. restorer'[r].pc = "archive" /\ restorer'[r].got = restorer[r].got
      BY <2>1, WholeTyped, Types DEF RestorerState
    <2>3. \A q : ~ Pending(r, q)
      BY <1>1, <1>2, <1>a DEF Pending
    <2> QED
      BY <2>2, <2>3, ReplayComplete DEF Remaining
  <1>3. CASE T # {}
    <2>1. PICK f \in T : /\ \A u \in T : f <= u
                         /\ restorer' = [restorer EXCEPT ![r].pc = "entry",
                               ![r].todo = @ \ {f}, ![r].entries = wal[f]]
      BY <1>3, <1>a DEF ReadFile
    <2>2. /\ restorer'[r].pc = "entry" /\ restorer'[r].todo = T \ {f}
          /\ restorer'[r].entries = wal[f] /\ restorer'[r].got = g
          /\ restorer'[r].target = t /\ restorer'[r].snap = s
      BY <1>a, <2>1, WholeTyped, Types DEF RestorerState
    <2>3. Whole(r)' = P
      BY <1>1, <1>a, <2>2 DEF Whole
    <2>4. GotSorted(r)'
      <3>1. /\ \A i, j \in DOMAIN g : i < j => Precedes(P, g[i], g[j])
            /\ Values(g) \subseteq Values(P)
            /\ Values(s.content) \subseteq Values(g)
        BY <1>a DEF GotSorted
      <3> QED
        BY <2>2, <2>3, <3>1 DEF GotSorted
    <2>5. /\ \A q \in Values(P) :
                q \in Values(g) \/ Floor(stampAt[q]) \in T
          /\ \A u \in T : \A e \in Values(wal[u]) : e.ts <= t /\ e.q \notin Refused =>
                \A q \in Values(g) : Precedes(P, q, e.q)
      BY <1>1, <1>a DEF Remaining, Pending, Follows
    <2>6. ASSUME NEW q \in Values(P), q \notin Values(g)
          PROVE  Floor(stampAt[q]) \in T \ {f} \/ \E e \in Values(wal[f]) : e.q = q
      <3>1. q \in Queries \ Refused /\ execAt[q] <= t
        BY <1>a, ValuesTyped DEF WholeKnown
      <3>2. \E e \in Values(wal[Floor(stampAt[q])]) : e.q = q
        BY <1>a, <3>1 DEF WalKnown, Clean
      <3> QED
        BY <2>5, <2>6, <3>2
    <2>7. Remaining(r)'
      <3>1. \A q \in Values(P) : q \in Values(g) \/ Pending(r, q)'
        BY <1>1, <2>2, <2>6 DEF Pending
      <3>2. \A u \in T \ {f} : \A e \in Values(wal'[u]) : Follows(r, e)'
        BY <1>1, <2>2, <2>3, <2>5 DEF Follows
      <3> QED
        BY <2>2, <2>3, <3>1, <3>2 DEF Remaining
    <2>8. Reading(r)'
      <3>1. Sorted(wal[f], P, t)
        BY <1>a DEF WalKnown
      <3>2. ASSUME NEW e \in Values(wal[f])
            PROVE  /\ stampAt[e.q] = e.ts /\ Follows(r, e)'
                   /\ \A u \in T \ {f} : Floor(e.ts) < u
        <4>1. stampAt[e.q] = e.ts /\ Floor(e.ts) = f
          BY DEF StampInv, EntriesFiled, Filed
        <4>2. Follows(r, e)'
          BY <2>2, <2>3, <2>5 DEF Follows
        <4>3. \A u \in T : u \in Nat
          BY Types DEF Seconds
        <4> QED
          BY <2>1, <4>1, <4>2, <4>3
      <3> QED
        BY <1>1, <2>2, <2>3, <3>1, <3>2 DEF Reading
    <2> QED
      BY <2>2, <2>4, <2>7, <2>8
  <1> QED
    BY <1>2, <1>3

LEMMA SortedTail ==
    ASSUME NEW es \in Seq(Entry), es # <<>>, NEW c, NEW t, Sorted(es, c, t)
    PROVE  /\ Sorted(Tail(es), c, t)
           /\ \A e \in Values(Tail(es)) : e.ts <= t =>
                 /\ Head(es).ts <= t
                 /\ {Head(es).q, e.q} \cap Refused = {} => Precedes(c, Head(es).q, e.q)
  <1> DEFINE n == Len(es)
             fs == Tail(es)
  <1>1. /\ n \in Nat /\ n > 0 /\ DOMAIN es = 1..n /\ DOMAIN fs = 1..(n - 1)
        /\ es[1] = Head(es) /\ \A i \in 1..(n - 1) : fs[i] = es[i + 1]
    BY TailAt
  <1> HIDE DEF fs
  <1>2. \A i \in DOMAIN fs : i + 1 \in DOMAIN es /\ fs[i] = es[i + 1] /\ i + 1 > 1
                             /\ 1 \in DOMAIN es
    BY <1>1
  <1>3. ASSUME NEW i \in DOMAIN fs, NEW j \in DOMAIN fs, i < j /\ fs[j].ts <= t
        PROVE  /\ fs[i].ts <= t
               /\ {fs[i].q, fs[j].q} \cap Refused = {} => Precedes(c, fs[i].q, fs[j].q)
    <2>1. i + 1 < j + 1 /\ es[j + 1].ts <= t
      BY <1>1, <1>2, <1>3
    <2> QED
      BY <1>2, <2>1 DEF Sorted
  <1>4. Sorted(fs, c, t)
    BY <1>3 DEF Sorted
  <1>5. ASSUME NEW e \in Values(fs), e.ts <= t
        PROVE  /\ Head(es).ts <= t
               /\ {Head(es).q, e.q} \cap Refused = {} => Precedes(c, Head(es).q, e.q)
    <2>1. PICK i \in DOMAIN fs : fs[i] = e
      BY DEF Values
    <2>2. 1 < i + 1 /\ es[i + 1].ts <= t /\ es[i + 1] = e
      BY <1>1, <1>2, <1>5, <2>1
    <2> QED
      BY <1>1, <1>2, <2>1, <2>2 DEF Sorted
  <1> QED
    BY <1>4, <1>5 DEF fs

LEMMA ReplayEntries ==
    ASSUME TypeInv, StampInv, NEW r \in Restorers, BehindTarget(r), WholeKnown(r),
           Clean(r), GotSorted(r), Remaining(r), Reading(r), ~ Fault, ReplayEntry(r),
           past'[restorer[r].target] = Whole(r)
    PROVE  \/ /\ restorer'[r].pc = "archive" /\ restorer'[r].got = restorer[r].got
              /\ restorer[r].got = Whole(r)
           \/ restorer'[r].pc = "file" /\ GotSorted(r)' /\ Remaining(r)'
           \/ restorer'[r].pc = "entry" /\ GotSorted(r)' /\ Remaining(r)' /\ Reading(r)'
  <1>a. PICK t \in Time, s \in Snapshot, P \in Seq(Queries), g \in Seq(Queries),
             es \in Seq(Entry), T \in SUBSET Seconds :
           /\ t = restorer[r].target /\ s = restorer[r].snap /\ P = Whole(r)
           /\ g = restorer[r].got /\ es = restorer[r].entries /\ T = restorer[r].todo
    BY WholeTyped
  <1>1. UNCHANGED <<wal, execAt, stampAt, logged>> /\ restorer[r].pc = "entry"
    BY DEF ReplayEntry, times, walHist
  <1>2. t \in Nat /\ (\A u \in T : u \in Nat)
    BY Types DEF Seconds
  <1>3. /\ \A i, j \in DOMAIN g : i < j => Precedes(P, g[i], g[j])
        /\ Values(g) \subseteq Values(P)
        /\ Values(s.content) \subseteq Values(g)
    BY <1>a DEF GotSorted
  <1>4. /\ \A q \in Values(P) :
              \/ q \in Values(g) \/ Floor(stampAt[q]) \in T
              \/ \E e \in Values(es) : e.q = q
        /\ \A u \in T : \A e \in Values(wal[u]) : e.ts <= t /\ e.q \notin Refused =>
              \A q \in Values(g) : Precedes(P, q, e.q)
    BY <1>a DEF Remaining, Pending, Follows
  <1>5. /\ Sorted(es, P, t)
        /\ \A e \in Values(es) :
              /\ stampAt[e.q] = e.ts
              /\ e.ts <= t /\ e.q \notin Refused =>
                    \A q \in Values(g) : Precedes(P, q, e.q)
              /\ \A u \in T : Floor(e.ts) < u
    BY <1>a DEF Reading, Follows
  <1>6. \A q \in Queries : q \in Values(P) <=> execAt[q] <= t /\ q \notin Refused
    BY <1>a DEF WholeKnown
  <1>7. CASE es = <<>>
    <2>1. restorer' = [restorer EXCEPT ![r].pc = "file", ![r].entries = <<>>]
      BY <1>7, <1>a DEF ReplayEntry
    <2>2. /\ restorer'[r].pc = "file" /\ restorer'[r].todo = T /\ restorer'[r].got = g
          /\ restorer'[r].target = t /\ restorer'[r].snap = s
      BY <1>a, <2>1, WholeTyped, Types DEF RestorerState
    <2>3. Whole(r)' = P
      BY <1>a, <2>2 DEF Whole
    <2>4. GotSorted(r)'
      BY <1>3, <2>2, <2>3 DEF GotSorted
    <2>5. \A q \in Values(P) : q \in Values(g) \/ Pending(r, q)'
      BY <1>1, <1>4, <1>7, <2>2, ValuesEmpty DEF Pending
    <2>6. \A u \in T : \A e \in Values(wal'[u]) : Follows(r, e)'
      BY <1>1, <1>4, <2>2, <2>3 DEF Follows
    <2>7. Remaining(r)'
      BY <2>2, <2>3, <2>5, <2>6 DEF Remaining
    <2> QED
      BY <2>2, <2>4, <2>7
  <1>8. CASE es # <<>>
    <2>a. PICK h \in Entry : h = Head(es)
      BY <1>8, TailAt
    <2>b. PICK fs \in Seq(Entry) : fs = Tail(es)
      BY <1>8, TailAt
    <2>1. /\ h \in Values(es) /\ \A e \in Values(es) : e = h \/ e \in Values(fs)
          /\ \A e \in Values(fs) : e \in Values(es)
      BY <1>8, <2>a, <2>b, TailAt, ValuesTail
    <2>2. /\ Sorted(fs, P, t)
          /\ \A e \in Values(fs) : e.ts <= t =>
                /\ h.ts <= t
                /\ {h.q, e.q} \cap Refused = {} => Precedes(P, h.q, e.q)
      BY <1>5, <1>8, <2>a, <2>b, SortedTail
    <2>3. h.q \in Queries /\ h.ts \in Time /\ h.ts \in Nat /\ stampAt[h.q] = h.ts
      BY <1>5, <2>1, Types DEF Entry
    <2>4. CASE h.ts > t
      <3>1. restorer' = [restorer EXCEPT ![r].pc = "archive", ![r].entries = <<>>]
        <4>1. ~(Head(restorer[r].entries).ts <= restorer[r].target)
          BY <1>2, <1>a, <2>a, <2>3, <2>4
        <4>2. restorer[r].entries # <<>>
          BY <1>8, <1>a
        <4> QED
          BY <4>1, <4>2 DEF ReplayEntry
      <3>2. restorer'[r].pc = "archive" /\ restorer'[r].got = restorer[r].got
        BY <3>1, WholeTyped, Types DEF RestorerState
      <3>3. ASSUME NEW q \in Values(P), q \notin Values(g)
            PROVE  FALSE
        <4>1. q \in Queries \ Refused /\ execAt[q] <= t
          BY <1>6, ValuesTyped
        <4>2. stampAt[q] <= t /\ stampAt[q] \in Nat /\ stampAt[q] \in Time
          <5>1. stampAt[q] <= t
            BY <1>a, <4>1 DEF Clean
          <5> QED
            BY <1>2, <4>1, <5>1, Types, Clocks
        <4>3. CASE Floor(stampAt[q]) \in T
          <5>1. Floor(h.ts) < Floor(stampAt[q])
            BY <1>5, <2>1, <4>3
          <5>2. Floor(stampAt[q]) <= Floor(h.ts)
            <6>1. stampAt[q] <= h.ts
              BY <1>2, <2>3, <2>4, <4>2
            <6> QED
              BY <2>3, <4>2, <6>1, FloorMonotone
          <5> QED
            BY <2>3, <4>2, <5>1, <5>2, FloorTyped
        <4>4. ASSUME NEW e \in Values(es), e.q = q
              PROVE  FALSE
          <5>1. e.ts = stampAt[q]
            BY <1>5, <4>4
          <5>2. e # h
            BY <1>2, <2>3, <2>4, <4>2, <5>1
          <5>3. h.ts <= t
            BY <2>1, <2>2, <4>2, <5>1, <5>2
          <5> QED
            BY <1>2, <2>3, <2>4, <5>3
        <4> QED
          BY <1>4, <3>3, <4>3, <4>4
      <3>4. restorer[r].got = Whole(r)
        BY <1>a, <3>3, ReplayComplete
      <3> QED
        BY <3>2, <3>4
    <2>5. ASSUME h.ts <= t,
                 restorer'[r].pc = "entry", restorer'[r].entries = fs,
                 restorer'[r].todo = T, restorer'[r].target = t, restorer'[r].snap = s,
                 NEW k \in Seq(Queries), restorer'[r].got = k,
                 \/ k = Append(g, h.q) /\ h.q \notin Refused
                 \/ k = g /\ h.q \in Refused
          PROVE  GotSorted(r)' /\ Remaining(r)' /\ Reading(r)'
      <3>0. Whole(r)' = P
        BY <1>a, <2>5 DEF Whole
      <3>1. /\ execAt[h.q] \in Nat /\ execAt[h.q] <= h.ts
            /\ h.q \notin Refused => h.q \in Values(P)
        BY <1>a, <2>3, <2>5, EntryWhole
      <3>2. /\ \A x \in Values(k) : x = h.q \/ x \in Values(g)
            /\ Values(g) \subseteq Values(k)
            /\ h.q \in Values(k) \/ h.q \in Refused
            /\ h.q \in Values(k) /\ h.q \notin Values(g) => h.q \notin Refused
        BY <2>3, <2>5, ValuesAppend, ValuesAppended
      <3>3. h.q \notin Refused => \A q \in Values(g) : Precedes(P, q, h.q)
        BY <1>5, <2>1, <2>5
      <3>4. GotSorted(r)'
        <4>1. \A i, j \in DOMAIN k : i < j => Precedes(P, k[i], k[j])
          <5>1. CASE h.q \in Refused
            BY <1>3, <2>5, <5>1
          <5>2. CASE h.q \notin Refused
            <6> DEFINE n == Len(g)
            <6>1. /\ n \in Nat /\ DOMAIN g = 1..n /\ DOMAIN k = 1..(n + 1)
                  /\ k[n + 1] = h.q /\ \A i \in 1..n : k[i] = g[i] /\ g[i] \in Values(g)
              BY <2>3, <2>5, <5>2, AppendedAt DEF Values
            <6>2. ASSUME NEW i \in 1..(n + 1), NEW j \in 1..(n + 1), i < j
                  PROVE  Precedes(P, k[i], k[j])
              <7>1. i \in 1..n
                BY <6>1, <6>2
              <7>2. CASE j = n + 1
                BY <3>3, <5>2, <6>1, <7>1, <7>2
              <7>3. CASE j # n + 1
                <8>1. j \in 1..n
                  BY <6>1, <7>3
                <8> QED
                  BY <1>3, <6>1, <6>2, <7>1, <8>1
              <7> QED
                BY <7>2, <7>3
            <6> QED
              BY <6>1, <6>2
          <5> QED
            BY <5>1, <5>2
        <4>2. Values(k) \subseteq Values(P)
          BY <1>3, <3>1, <3>2
        <4>3. Values(s.content) \subseteq Values(k)
          BY <1>3, <3>2
        <4> QED
          BY <2>5, <3>0, <4>1, <4>2, <4>3 DEF GotSorted
      <3>5. ASSUME NEW q \in Values(P)
            PROVE  q \in Values(k) \/ Pending(r, q)'
        <4>1. CASE q = h.q
          <5>1. q \notin Refused
            BY <1>6, <2>3, <3>5, <4>1
          <5> QED
            BY <3>2, <4>1, <5>1
        <4>2. CASE q # h.q
          <5>1. \/ q \in Values(g) \/ Floor(stampAt[q]) \in T
                \/ \E e \in Values(fs) : e.q = q
            BY <1>4, <2>1, <4>2
          <5> QED
            BY <1>1, <2>5, <3>2, <5>1 DEF Pending
        <4> QED
          BY <4>1, <4>2
      <3>6. ASSUME NEW u \in T, NEW e \in Values(wal[u]), e.ts <= t, e.q \notin Refused,
                   NEW q \in Values(k)
            PROVE  Precedes(P, q, e.q)
        <4>1. CASE q \in Values(g)
          BY <1>4, <3>6, <4>1
        <4>2. CASE q = h.q /\ q \notin Values(g)
          <5>1. e \in Entry /\ stampAt[e.q] = e.ts /\ Floor(e.ts) = u
            BY Types, ValuesTyped DEF StampInv, EntriesFiled, Filed
          <5>2. /\ e.ts \in Time /\ e.ts \in Nat /\ Stamped(e.q) /\ e.q \in Values(P)
            BY <1>a, <3>6, <5>1, EntryWhole
          <5>3. Floor(h.ts) < Floor(e.ts)
            BY <1>5, <2>1, <5>1
          <5>4. h.ts < e.ts
            <6>1. CASE e.ts <= h.ts
              BY <2>3, <5>2, <5>3, <6>1, FloorMonotone, FloorTyped
            <6> QED
              BY <2>3, <5>2, <6>1
          <5>5. h.q # e.q /\ execAt[h.q] < stampAt[e.q]
            BY <2>3, <3>1, <5>1, <5>2, <5>4
          <5> QED
            BY <1>a, <3>1, <3>2, <3>6, <4>2, <5>2, <5>5, WholeOrder
        <4> QED
          BY <3>2, <4>1, <4>2
      <3>7. Remaining(r)'
        <4>1. \A u \in T : \A e \in Values(wal'[u]) : Follows(r, e)'
          BY <1>1, <2>5, <3>0, <3>6 DEF Follows
        <4> QED
          BY <2>5, <3>0, <3>5, <4>1 DEF Remaining
      <3>8. ASSUME NEW e \in Values(fs)
            PROVE  /\ stampAt[e.q] = e.ts /\ Follows(r, e)'
                   /\ \A u \in T : Floor(e.ts) < u
        <4>1. ASSUME e.ts <= t, e.q \notin Refused, NEW q \in Values(k)
              PROVE  Precedes(P, q, e.q)
          BY <1>5, <2>1, <2>2, <3>2, <4>1
        <4>2. Follows(r, e)'
          BY <2>5, <3>0, <4>1 DEF Follows
        <4> QED
          BY <1>5, <2>1, <4>2
      <3>9. Reading(r)'
        BY <1>1, <2>2, <2>5, <3>0, <3>8 DEF Reading
      <3> QED
        BY <3>4, <3>7, <3>9
    <2>6. CASE h.ts <= t
      <3>1. \/ /\ h.q \notin Refused
               /\ restorer' = [restorer EXCEPT ![r].entries = fs,
                                               ![r].got = Append(@, h.q)]
            \/ h.q \in Refused /\ restorer' = [restorer EXCEPT ![r].entries = fs]
        <4> DEFINE rest == restorer[r].entries
        <4>1. /\ rest # <<>> /\ ~ (Head(rest).ts > restorer[r].target)
          BY <1>2, <1>8, <1>a, <2>a, <2>3, <2>6
        <4>2. \/ /\ Head(rest).q \notin Refused
                 /\ restorer' = [restorer EXCEPT ![r].entries = Tail(rest),
                                        ![r].got = Append(@, Head(rest).q)]
              \/ /\ Head(rest).q \in Refused
                 /\ restorer' = [restorer EXCEPT ![r].entries = Tail(rest)]
          BY <4>1 DEF ReplayEntry
        <4> QED
          BY <1>a, <2>a, <2>b, <4>2
      <3>2. Append(g, h.q) \in Seq(Queries)
        BY <2>3
      <3>3. /\ restorer'[r].pc = "entry" /\ restorer'[r].entries = fs
            /\ restorer'[r].todo = T /\ restorer'[r].target = t /\ restorer'[r].snap = s
            /\ \/ restorer'[r].got = Append(g, h.q) /\ h.q \notin Refused
               \/ restorer'[r].got = g /\ h.q \in Refused
        BY <1>1, <1>a, <3>1, WholeTyped, Types DEF RestorerState
      <3> QED
        BY <2>5, <2>6, <3>2, <3>3
    <2> QED
      BY <1>2, <2>3, <2>4, <2>6
  <1> QED
    BY <1>7, <1>8

\* The conditions of an exact restore cannot come true after its target.
LEMMA CleanBefore ==
    ASSUME NEW r \in Restorers, NEW t, t = restorer[r].target,
           restorer'[r].target = t, restorer'[r].snap = restorer[r].snap,
           Settled(t), Clean(r)'
    PROVE  Clean(r)
  <1>1. ASSUME NEW q \in Queries \ Refused, execAt[q] <= t
        PROVE  /\ q \in logged /\ stampAt[q] <= t
               /\ ApartFrom(q, restorer[r].snap)
    <2>1. /\ execAt'[q] = execAt[q] /\ stampAt'[q] = stampAt[q]
          /\ q \in logged' <=> q \in logged
      BY <1>1 DEF Settled
    <2>2. /\ q \in logged' /\ stampAt'[q] <= t
          /\ \/ stampAt'[q] < restorer[r].snap.copied
             \/ /\ execAt'[q] > restorer[r].snap.at
                /\ Floor(execAt'[q]) >= restorer[r].snap.at
      BY <1>1, <2>1 DEF Clean, ApartFrom, Floor
    <2> QED
      BY <2>1, <2>2 DEF ApartFrom
  <1> QED
    BY <1>1 DEF Clean

\* The steps of the others while a restore is under way, or over.
LEMMA ReplayOther ==
    ASSUME NEW r \in Restorers, TypeInv, StampInv, SwapInv, PlanInv, ReplayOf(r),
           StampsStay, Kept(r), restorer'[r] = restorer[r],
           NEW t \in Time, t = restorer[r].target, Settled(t),
           UnderWay(r) => Appended(t)
    PROVE  ReplayOf(r)'
  <1>a. PICK s \in Snapshot, P \in Seq(Queries), g \in Seq(Queries),
             es \in Seq(Entry), T \in SUBSET Seconds :
           /\ s = restorer[r].snap /\ P = Whole(r) /\ g = restorer[r].got
           /\ es = restorer[r].entries /\ T = restorer[r].todo
    BY WholeTyped
  <1>0. t \in Nat
    BY WholeTyped
  <1>1. WholeKnown(r)
    BY DEF Kept, PlanInv
  <1>2. Whole(r)' = P
    BY <1>a DEF Whole, Settled
  <1>3. Clean(r)' => Clean(r)
    BY CleanBefore
  <1>4. \A q \in Values(P) : stampAt'[q] = stampAt[q]
    BY <1>1, <1>a, ValuesTyped DEF WholeKnown, Settled
  <1>5. ASSUME UnderWay(r)', restorer[r].pc \in {"file", "entry"}, Clean(r)'
        PROVE  /\ GotSorted(r)' /\ Remaining(r)'
               /\ restorer[r].pc = "entry" => Reading(r)'
    <2>1. /\ UnderWay(r) /\ Appended(t) /\ GotSorted(r) /\ Remaining(r)
          /\ restorer[r].pc = "entry" => Reading(r)
      BY <1>3, <1>5 DEF Kept, ReplayOf
    <2>2. \A e : Follows(r, e)' <=> Follows(r, e)
      BY <1>2, <1>a DEF Follows
    <2>3. GotSorted(r)'
      BY <1>2, <1>a, <2>1 DEF GotSorted
    <2>4. \A q \in Values(P) : q \in Values(g) \/ Pending(r, q)'
      BY <1>4, <1>a, <2>1 DEF Remaining, Pending
    <2>5. ASSUME NEW f \in T, NEW e \in Values(wal'[f])
          PROVE  Follows(r, e)'
      <3>1. wal[f] \in Seq(Entry) /\ f \in Seconds
        BY Types
      <3>2. CASE e \in Values(wal[f])
        BY <1>a, <2>1, <2>2, <3>2 DEF Remaining
      <3>3. CASE e \notin Values(wal[f])
        <4>1. PICK x \in Entry : x.ts > t /\ wal'[f] = Append(wal[f], x)
          BY <2>1, <2>5, <3>1, <3>3 DEF Appended
        <4>2. e = x
          BY <2>5, <3>1, <3>3, <4>1, ValuesAppend
        <4>3. x.ts \in Nat
          BY Types DEF Entry
        <4> QED
          BY <1>0, <4>1, <4>2, <4>3 DEF Follows
      <3> QED
        BY <3>2, <3>3
    <2>6. Remaining(r)'
      BY <1>2, <1>a, <2>4, <2>5 DEF Remaining
    <2>7. ASSUME restorer[r].pc = "entry"
          PROVE  Reading(r)'
      <3>1. /\ Sorted(es, P, t)
            /\ \A e \in Values(es) : /\ stampAt[e.q] = e.ts /\ Follows(r, e)
                                     /\ \A f \in T : Floor(e.ts) < f
        BY <1>a, <2>1, <2>7 DEF Reading
      <3>2. ASSUME NEW e \in Values(es)
            PROVE  stampAt'[e.q] = e.ts
        <4>1. e \in Entry
          BY ValuesTyped
        <4>2. e.q \in Queries /\ Stamped(e.q)
          BY <3>1, <4>1, Types DEF Entry, Stamped
        <4> QED
          BY <3>1, <4>2 DEF StampsStay
      <3> QED
        BY <1>2, <1>a, <2>2, <3>1, <3>2 DEF Reading
    <2> QED
      BY <2>3, <2>6, <2>7
  <1>6. Replaced(r)' => Replaced(r)
    <2>1. ASSUME Replaced(r)', UnderWay(r)
          PROVE  Replaced(r)
      BY <2>1 DEF Replaced, UnderWay, SwapInv
    <2> QED
      BY <2>1 DEF Kept
  <1>7. ASSUME Replaced(r)', Clean(r)'
        PROVE  restorer'[r].got = Whole(r)'
    <2>1. g = P
      BY <1>3, <1>6, <1>7, <1>a DEF ReplayOf
    <2> QED
      BY <1>2, <1>a, <2>1
  <1>8. UnderWay(r)' /\ restorer[r].pc = "list" => g = s.content
    BY <1>a DEF ReplayOf, Kept
  <1> QED
    BY <1>5, <1>7, <1>8, <1>a DEF ReplayOf

\* Its own steps.
LEMMA ReplayOwn ==
    ASSUME NEW r \in Restorers, TypeInv, StampInv, SwapInv, PlanInv, ReplayOf(r),
           Kept(r), RestoreStep(r), faults = 0, ~ Fault,
           NEW t \in Time, t = restorer[r].target, Settled(t)
    PROVE  ReplayOf(r)'
  <1>1. BehindTarget(r) /\ WholeKnown(r) /\ SnapKnown(r) /\ (UnderWay(r) => WalKnown(r))
    BY DEF Kept, PlanInv
  <1>2. Moves(r)
    BY RestoreMoves
  <1>3. past'[restorer[r].target] = Whole(r) /\ Whole(r)' = Whole(r)
        /\ restorer'[r].snap = restorer[r].snap
    BY DEF Kept, Settled, Whole
  <1>4. Clean(r)' => Clean(r)
    BY CleanBefore DEF Kept
  <1>5. restorer[r].ok => restorer[r].pc \in {"delete", "release", "done"}
    BY DEF SwapInv
  <1>6. /\ restorer[r].pc \in {"list", "file", "entry"} => UnderWay(r)
        /\ restorer[r].pc # "idle"
    BY <1>5 DEF Kept, UnderWay, Replaced
  <1>7. ASSUME ~ restorer'[r].ok, restorer'[r].pc \notin {"list", "file", "entry", "archive"}
        PROVE  ReplayOf(r)'
    BY <1>7 DEF ReplayOf, Replaced
  <1>8. CASE restorer[r].pc = "acquire"
    BY <1>2, <1>5, <1>7, <1>8 DEF Moves
  <1>9. CASE restorer[r].pc = "swap"
    <2>1. Swap(r) /\ restorer'[r].pc = "list" /\ ~ restorer'[r].ok
      BY <1>2, <1>5, <1>9 DEF Moves
    <2>2. restorer'[r].got = restorer[r].snap.content
      BY <2>1, Types, WholeTyped DEF Swap, RestorerState
    <2> QED
      BY <1>3, <2>1, <2>2 DEF ReplayOf, Replaced
  <1>10. CASE restorer[r].pc = "list"
    <2>1. ListWal(r)
      BY <1>10 DEF RestoreStep, FindSnapshot, AcquireRestore, Swap, ReadFile,
         ReplayEntry, Archived, DeleteWal, ReleaseRestore, RestoreFails
    <2>2. restorer[r].got = restorer[r].snap.content
      BY <1>6, <1>10 DEF ReplayOf
    <2>3. restorer'[r].pc = "file" /\ ~ restorer'[r].ok
      BY <1>2, <1>5, <1>10 DEF Moves
    <2>4. Clean(r)' => GotSorted(r)' /\ Remaining(r)'
      BY <1>1, <1>3, <1>4, <1>6, <1>10, <2>1, <2>2, ReplayList
    <2> QED
      BY <2>3, <2>4 DEF ReplayOf, Replaced
  <1>11. ASSUME ~ restorer'[r].ok,
                Clean(r)' =>
                   \/ /\ restorer'[r].pc = "archive" /\ restorer'[r].got = restorer[r].got
                      /\ restorer[r].got = Whole(r)
                   \/ restorer'[r].pc = "file" /\ GotSorted(r)' /\ Remaining(r)'
                   \/ restorer'[r].pc = "entry" /\ GotSorted(r)' /\ Remaining(r)' /\ Reading(r)',
                restorer'[r].pc \in {"archive", "file", "entry"}
         PROVE  ReplayOf(r)'
    <2>1. CASE restorer'[r].pc = "archive"
      <3>1. Clean(r)' => restorer'[r].got = Whole(r)'
        BY <1>3, <1>11, <2>1
      <3> QED
        BY <2>1, <3>1 DEF ReplayOf
    <2>2. CASE restorer'[r].pc \in {"file", "entry"}
      BY <1>11, <2>2 DEF ReplayOf, Replaced
    <2> QED
      BY <1>11, <2>1, <2>2
  <1>12. CASE restorer[r].pc = "file"
    <2>1. ReadFile(r)
      BY <1>12 DEF RestoreStep, FindSnapshot, AcquireRestore, Swap, ListWal,
         ReplayEntry, Archived, DeleteWal, ReleaseRestore, RestoreFails
    <2>2. restorer'[r].pc \in {"entry", "archive"} /\ ~ restorer'[r].ok
      BY <1>2, <1>5, <1>12 DEF Moves
    <2>3. Clean(r)' => Clean(r) /\ GotSorted(r) /\ Remaining(r)
      BY <1>4, <1>6, <1>12 DEF ReplayOf
    <2> QED
      BY <1>1, <1>6, <1>11, <1>12, <2>1, <2>2, <2>3, ReplayRead
  <1>13. CASE restorer[r].pc = "entry"
    <2>1. ReplayEntry(r)
      BY <1>13 DEF RestoreStep, FindSnapshot, AcquireRestore, Swap, ListWal,
         ReadFile, Archived, DeleteWal, ReleaseRestore, RestoreFails
    <2>2. restorer'[r].pc \in {"entry", "file", "archive"} /\ ~ restorer'[r].ok
      BY <1>2, <1>5, <1>13 DEF Moves
    <2>3. Clean(r)' => Clean(r) /\ GotSorted(r) /\ Remaining(r) /\ Reading(r)
      BY <1>4, <1>6, <1>13 DEF ReplayOf
    <2> QED
      BY <1>1, <1>3, <1>11, <2>1, <2>2, <2>3, ReplayEntries
  <1>14. CASE restorer[r].pc \in {"archive", "delete", "release"}
    <2>1. /\ restorer'[r].got = restorer[r].got
          /\ restorer'[r].pc \in {"delete", "release", "done"}
      BY <1>2, <1>14 DEF Moves
    <2>2. Replaced(r)
      BY <1>14 DEF Kept, UnderWay, Replaced
    <2>3. Clean(r)' => restorer[r].got = Whole(r)
      BY <1>4, <2>2 DEF ReplayOf
    <2> QED
      BY <1>3, <2>1, <2>3 DEF ReplayOf
  <1> QED
    <2>1. restorer[r].pc \in {"idle", "acquire", "swap", "list", "file", "entry",
                              "archive", "delete", "release", "done"}
      BY Types DEF RestorerState
    <2> QED
      BY <1>2, <1>6, <1>8, <1>9, <1>10, <1>12, <1>13, <1>14, <2>1 DEF Moves

LEMMA ReplayInvStep ==
    ASSUME OneWorker, TypeInv, TypeInv', StampInv, SwapInv, PlanInv, ReplayInv,
           [Next]_vars
    PROVE  ReplayInv'
  <1> SUFFICES ASSUME NEW r \in Restorers, UnderWay(r)' \/ Replaced(r)'
               PROVE  ReplayOf(r)'
    BY DEF ReplayInv, ReplayOf
  <1>1. faults = 0 /\ ~ Fault /\ StampsStay
    BY NoFault, StampInvStep DEF UnderWay, Replaced
  <1>2. ASSUME NEW t \in Time, FindSnapshot(r, t)
        PROVE  ReplayOf(r)'
    <2>1. Moves(r) /\ restorer[r].pc = "idle"
      BY <1>1, <1>2, RestoreMoves DEF RestoreStep, FindSnapshot
    <2>2. restorer'[r].pc = "acquire" /\ ~ restorer'[r].ok
      BY <1>1, <2>1 DEF Moves, SwapInv
    <2> QED
      BY <2>2 DEF ReplayOf, Replaced
  <1>3. CASE Kept(r)
    <2>1. BehindTarget(r) /\ (UnderWay(r) => WalKnown(r))
      BY <1>3 DEF Kept, PlanInv
    <2>2. PICK t \in Time : t = restorer[r].target
      BY WholeTyped
    <2>3. t < now /\ Behind(t)
      BY <2>1, <2>2 DEF BehindTarget, Behind
    <2>4. Settled(t)
      BY <2>3, SettledStays
    <2>5. ASSUME UnderWay(r)
          PROVE  Appended(t)
      <3>1. \A v \in Restorers : ~ DeleteWal(v)
        BY <2>5, NoDelete
      <3>2. PriorRead
        BY <2>1, <2>5 DEF WalKnown
      <3> QED
        BY <1>1, <2>3, <3>1, <3>2, AppendedBehind
    <2>6. CASE RestoreStep(r)
      BY <1>1, <1>3, <2>2, <2>4, <2>6, ReplayOwn DEF ReplayInv
    <2>7. CASE restorer'[r] = restorer[r]
      BY <1>1, <1>3, <2>2, <2>4, <2>5, <2>7, ReplayOther DEF ReplayInv
    <2>8. RestoreStep(r) \/ restorer'[r] = restorer[r]
      BY RestoreAlone, TickFrame, LeaseFrame, StutterFrame, SnapFrame, WorkerFrame
      DEF Next
    <2> QED
      BY <2>6, <2>7, <2>8
  <1> QED
    BY <1>2, <1>3, KeptOrFound

LEMMA ReplayCorrect == ASSUME OneWorker PROVE Spec => []ReplayInv
  <1>1. Init => ReplayInv
    BY DEF Init, ReplayInv, ReplayOf, UnderWay, Replaced
  <1>2. ASSUME TypeInv, TypeInv', StampInv, SwapInv, PlanInv, ReplayInv, [Next]_vars
        PROVE  ReplayInv'
    BY <1>2, ReplayInvStep
  <1> QED
    BY <1>1, <1>2, TypeInvCorrect, StampCorrect, SwapCorrect, PlanCorrect, PTL DEF Spec

\* With one worker, the only one compose starts, and while no call fails, a
\* quiet restore that no applied mutation comes near brings back the content the
\* database had at its target: execute, _restore_snapshot and _replay_wal_files
\* lose nothing, repeat nothing, keep the order and apply none of the refused
\* queries in the WAL, whatever else is submitted, copied, waiting or timed out
\* while it runs.
THEOREM RestoreIsExact == ASSUME OneWorker PROVE Spec => []CleanRestoreIsExact
  <1>1. ASSUME ReplayInv
        PROVE  CleanRestoreIsExact
    <2> SUFFICES ASSUME NEW r \in Restorers, Replayed(r), swaps = 1,
                        \A q \in Queries \ Refused : execAt[q] <= restorer[r].target =>
                           /\ q \in logged
                           /\ stampAt[q] <= restorer[r].target
                           /\ ApartFrom(q, restorer[r].snap)
                 PROVE  restorer[r].got = past[restorer[r].target]
      BY DEF CleanRestoreIsExact
    <2>1. Replaced(r) /\ Clean(r)
      BY DEF Replayed, Replaced, Clean
    <2> QED
      BY <1>1, <2>1 DEF ReplayInv, ReplayOf, Whole
  <1> QED
    BY <1>1, ReplayCorrect, PTL

-----------------------------------------------------------------------------
(* What is shown of the history: the entries of an object, applied in turn  *)

\* The contents after each of the entries.
Run(c, es, done) ==
    done = [i \in 0..Len(es) |->
              IF i = 0 THEN c
              ELSE IF es[i].q \in Refused THEN done[i - 1]
              ELSE Append(done[i - 1], es[i].q)]

LEMMA RunExists ==
    ASSUME NEW c \in Seq(Queries), NEW es \in Seq(Entry)
    PROVE  \E done \in [0..Len(es) -> Seq(Queries)] : Run(c, es, done)
  <1> DEFINE n == Len(es)
             V == Seq(Queries)
             step == [p \in (1..n) \X V |->
                        IF es[p[1]].q \in Refused THEN p[2] ELSE Append(p[2], es[p[1]].q)]
  <1>1. n \in Nat /\ \A k \in 1..n : es[k] \in Entry /\ es[k].q \in Queries
    <2>1. n \in Nat /\ \A k \in 1..n : es[k] \in Entry
      OBVIOUS
    <2>2. \A x \in Entry : x.q \in Queries
      BY DEF Entry
    <2> QED
      BY <2>1, <2>2
  <1>2. \A x \in V, k \in 1..n : Append(x, es[k].q) \in V
    BY <1>1
  <1>3. step \in [(1..n) \X V -> V]
    <2> HIDE DEF V
    <2> SUFFICES ASSUME NEW p \in (1..n) \X V
                 PROVE  (IF es[p[1]].q \in Refused THEN p[2] ELSE Append(p[2], es[p[1]].q)) \in V
      OBVIOUS
    <2>1. p[1] \in 1..n /\ p[2] \in V
      OBVIOUS
    <2> QED
      BY <1>2, <2>1
  <1>4. \A k \in 1..n, x \in V :
          step[<<k, x>>] = IF es[k].q \in Refused THEN x ELSE Append(x, es[k].q)
    <2> HIDE DEF V
    <2> QED
      OBVIOUS
  <1>5. c \in V
    OBVIOUS
  <1> HIDE DEF step, V, n
  <1>6. PICK f \in [0..n -> V] : Stepwise(f, n, c, step)
    BY <1>1, <1>3, <1>5, StepsDefine
  <1>7. ASSUME NEW k \in 0..n
        PROVE  f[k] = IF k = 0 THEN c
                      ELSE IF es[k].q \in Refused THEN f[k - 1] ELSE Append(f[k - 1], es[k].q)
    <2>1. k # 0 => k - 1 \in 0..n /\ k \in 1..n
      BY <1>1
    <2>2. k # 0 => f[k - 1] \in V
      BY <2>1
    <2>3. f[k] = IF k = 0 THEN c ELSE step[<<k, f[k - 1]>>]
      BY <1>6, Zenon DEF Stepwise
    <2>4. k # 0 => step[<<k, f[k - 1]>>] =
                     IF es[k].q \in Refused THEN f[k - 1] ELSE Append(f[k - 1], es[k].q)
      BY <1>4, <2>1, <2>2
    <2> QED
      BY <2>3, <2>4
  <1>8. f = [k \in 0..n |-> f[k]]
    OBVIOUS
  <1>9. Run(c, es, f)
    BY <1>7, <1>8 DEF Run, n
  <1> QED
    BY <1>9 DEF V, n

Same(es, fs, m) == \A i \in 1..m : es[i] = fs[i]

\* The contents depend on the entries up to there only.
LEMMA RunAgrees ==
    ASSUME NEW c, NEW es \in Seq(Entry), NEW fs \in Seq(Entry), NEW d, NEW e, NEW m \in Nat,
           Run(c, es, d), Run(c, fs, e), m <= Len(es), m <= Len(fs),
           Same(es, fs, m)
    PROVE  d[m] = e[m]
  <1> DEFINE S == {k \in Nat : k <= m => d[k] = e[k]}
  <1>0. Len(es) \in Nat /\ Len(fs) \in Nat
    OBVIOUS
  <1>1. \A k \in 0..m : /\ d[k] = IF k = 0 THEN c
                                  ELSE IF es[k].q \in Refused THEN d[k - 1] ELSE Append(d[k - 1], es[k].q)
                        /\ e[k] = IF k = 0 THEN c
                                  ELSE IF fs[k].q \in Refused THEN e[k - 1] ELSE Append(e[k - 1], fs[k].q)
    <2> SUFFICES ASSUME NEW k \in 0..m
                 PROVE  /\ d[k] = IF k = 0 THEN c
                                  ELSE IF es[k].q \in Refused THEN d[k - 1] ELSE Append(d[k - 1], es[k].q)
                        /\ e[k] = IF k = 0 THEN c
                                  ELSE IF fs[k].q \in Refused THEN e[k - 1] ELSE Append(e[k - 1], fs[k].q)
      OBVIOUS
    <2>1. k \in 0..Len(es) /\ k \in 0..Len(fs)
      BY <1>0
    <2>2. d[k] = IF k = 0 THEN c
                 ELSE IF es[k].q \in Refused THEN d[k - 1] ELSE Append(d[k - 1], es[k].q)
      BY <2>1, Zenon DEF Run
    <2>3. e[k] = IF k = 0 THEN c
                 ELSE IF fs[k].q \in Refused THEN e[k - 1] ELSE Append(e[k - 1], fs[k].q)
      BY <2>1, Zenon DEF Run
    <2> QED
      BY <2>2, <2>3
  <1>2. 0 \in S
    BY <1>1
  <1>3. ASSUME NEW k \in Nat, k \in S PROVE k + 1 \in S
    BY <1>1, <1>3 DEF Same
  <1>4. Nat \subseteq S
    <2> HIDE DEF S
    <2> QED
      BY <1>2, <1>3, NatBySteps
  <1> QED
    BY <1>4

LEMMA AppliedIsRun ==
    ASSUME NEW c \in Seq(Queries), NEW es \in Seq(Entry)
    PROVE  \E done \in [0..Len(es) -> Seq(Queries)] :
             Run(c, es, done) /\ Applied(c, es) = done[Len(es)]
  <1> DEFINE d == CHOOSE done : Run(c, es, done)
  <1>1. PICK f \in [0..Len(es) -> Seq(Queries)] : Run(c, es, f)
    BY RunExists
  <1>2. Run(c, es, d)
    BY <1>1
  <1>3. Applied(c, es) = d[Len(es)]
    BY Zenon DEF Applied, Run
  <1>4. d[Len(es)] = f[Len(es)]
    <2> HIDE DEF d
    <2> QED
      BY <1>1, <1>2, RunAgrees DEF Same
  <1> QED
    BY <1>1, <1>3, <1>4

LEMMA AppliedTyped ==
    ASSUME NEW c \in Seq(Queries), NEW es \in Seq(Entry)
    PROVE  Applied(c, es) \in Seq(Queries)
  BY AppliedIsRun

LEMMA AppliedEmpty == ASSUME NEW c \in Seq(Queries) PROVE Applied(c, <<>>) = c
  <1>1. <<>> \in Seq(Entry) /\ Len(<<>>) = 0
    OBVIOUS
  <1>2. PICK d \in [0..Len(<<>>) -> Seq(Queries)] : Run(c, <<>>, d) /\ Applied(c, <<>>) = d[Len(<<>>)]
    BY <1>1, AppliedIsRun
  <1>3. d[0] = c
    BY <1>2 DEF Run
  <1> QED
    BY <1>1, <1>2, <1>3

LEMMA AppliedAppend ==
    ASSUME NEW c \in Seq(Queries), NEW es \in Seq(Entry), NEW x \in Entry
    PROVE  Applied(c, Append(es, x)) =
             IF x.q \in Refused THEN Applied(c, es) ELSE Append(Applied(c, es), x.q)
  <1> DEFINE fs == Append(es, x)
             n == Len(es)
  <1>1. /\ fs \in Seq(Entry) /\ Len(fs) = n + 1 /\ n \in Nat /\ fs[n + 1] = x
        /\ \A i \in 1..n : fs[i] = es[i]
    BY AppendedAt
  <1>2. PICK d \in [0..Len(es) -> Seq(Queries)] : Run(c, es, d) /\ Applied(c, es) = d[Len(es)]
    BY AppliedIsRun
  <1> HIDE DEF fs, n
  <1>3. PICK e \in [0..Len(fs) -> Seq(Queries)] : Run(c, fs, e) /\ Applied(c, fs) = e[Len(fs)]
    BY <1>1, AppliedIsRun
  <1>4. d[n] = e[n]
    <2>1. n <= Len(es) /\ n <= Len(fs) /\ n \in Nat
      BY <1>1 DEF n
    <2>2. \A i \in 1..n : es[i] = fs[i]
      BY <1>1
    <2>3. Run(c, es, d) /\ Run(c, fs, e) /\ fs \in Seq(Entry)
      BY <1>1, <1>2, <1>3
    <2>4. es \in Seq(Entry)
      OBVIOUS
    <2>5. Same(es, fs, n)
      BY <2>2 DEF Same
    <2> QED
      BY <2>1, <2>3, <2>4, <2>5, RunAgrees
  <1>5. e[n + 1] = IF fs[n + 1].q \in Refused THEN e[n] ELSE Append(e[n], fs[n + 1].q)
    <2>1. n + 1 \in 0..Len(fs) /\ n + 1 # 0 /\ (n + 1) - 1 = n
      BY <1>1
    <2> QED
      BY <1>3, <2>1 DEF Run
  <1>6. Applied(c, fs) = IF x.q \in Refused THEN Applied(c, es) ELSE Append(Applied(c, es), x.q)
    BY <1>1, <1>2, <1>3, <1>4, <1>5 DEF n
  <1> QED
    BY <1>6 DEF fs

LEMMA AppliedConcat ==
    ASSUME NEW c \in Seq(Queries), NEW es \in Seq(Entry), NEW fs \in Seq(Entry)
    PROVE  Applied(c, es \o fs) = Applied(Applied(c, es), fs)
  <1> DEFINE Holds2(gs) == Applied(c, es \o gs) = Applied(Applied(c, es), gs)
             S == {n \in Nat : \A gs \in Seq(Entry) : Len(gs) = n => Holds2(gs)}
  <1>0. Applied(c, es) \in Seq(Queries)
    BY AppliedTyped
  <1>1. 0 \in S
    <2> SUFFICES ASSUME NEW gs \in Seq(Entry), Len(gs) = 0 PROVE Holds2(gs)
      OBVIOUS
    <2>1. gs = <<>> /\ es \o gs = es
      OBVIOUS
    <2> QED
      BY <1>0, <2>1, AppliedEmpty
  <1>2. ASSUME NEW n \in Nat, n \in S PROVE n + 1 \in S
    <2> SUFFICES ASSUME NEW gs \in Seq(Entry), Len(gs) = n + 1 PROVE Holds2(gs)
      OBVIOUS
    <2> DEFINE hs == SubSeq(gs, 1, n)
               x == gs[n + 1]
    <2>1. hs \in Seq(Entry) /\ Len(hs) = n /\ x \in Entry /\ gs = Append(hs, x)
      OBVIOUS
    <2>2. Holds2(hs)
      <3> HIDE DEF Holds2, hs
      <3> QED
        BY <1>2, <2>1
    <2> HIDE DEF hs, x
    <2>3. es \o gs = Append(es \o hs, x) /\ es \o hs \in Seq(Entry)
      BY <2>1
    <2>4. Applied(c, es \o gs) =
            IF x.q \in Refused THEN Applied(c, es \o hs) ELSE Append(Applied(c, es \o hs), x.q)
      <3>1. Applied(c, Append(es \o hs, x)) =
              IF x.q \in Refused THEN Applied(c, es \o hs) ELSE Append(Applied(c, es \o hs), x.q)
        BY <2>1, <2>3, AppliedAppend
      <3> QED
        BY <2>3, <3>1, Zenon
    <2>5. Applied(Applied(c, es), gs) =
            IF x.q \in Refused THEN Applied(Applied(c, es), hs) ELSE Append(Applied(Applied(c, es), hs), x.q)
      BY <1>0, <2>1, AppliedAppend
    <2> QED
      BY <2>2, <2>4, <2>5, Zenon
  <1>3. Nat \subseteq S
    <2> HIDE DEF S
    <2> QED
      BY <1>1, <1>2, NatBySteps
  <1>4. Len(fs) \in Nat
    OBVIOUS
  <1> QED
    BY <1>3, <1>4
-----------------------------------------------------------------------------
(* What is taken of an object                                               *)

\* The first m entries are those before the first one after the target.
Cut(es, t, m) ==
    /\ m \in 0..Len(es)
    /\ \A i \in 1..m : es[i].ts <= t
    /\ m < Len(es) => es[m + 1].ts > t

LEMMA EntryTimes ==
    ASSUME NEW es \in Seq(Entry)
    PROVE  Len(es) \in Nat /\ \A i \in 1..Len(es) : es[i] \in Entry /\ es[i].ts \in Nat
  <1>1. \A e \in Entry : e.ts \in Nat
    BY PitrAssumption DEF Entry, Time
  <1> QED
    BY <1>1

LEMMA CutExists ==
    ASSUME NEW es \in Seq(Entry), NEW t \in Nat
    PROVE  \E m \in Nat : Cut(es, t, m)
  <1>0. Len(es) \in Nat /\ \A i \in 1..Len(es) : es[i].ts \in Nat
    BY EntryTimes
  <1> DEFINE L == {i \in 1..Len(es) : es[i].ts > t}
  <1>1. CASE L = {}
    <2>1. \A i \in 1..Len(es) : es[i].ts <= t
      BY <1>0, <1>1
    <2> QED
      BY <1>0, <2>1 DEF Cut
  <1>2. CASE L # {}
    <2>1. PICK i \in L : \A j \in L : i <= j
      <3>1. L \subseteq Nat
        OBVIOUS
      <3> HIDE DEF L
      <3> QED
        BY <1>2, <3>1, NatLeast
    <2>2. i - 1 \in Nat /\ i - 1 \in 0..Len(es) /\ (i - 1) + 1 = i /\ es[i].ts > t
      BY <1>0
    <2>3. \A j \in 1..(i - 1) : es[j].ts <= t
      BY <1>0, <2>1
    <2> QED
      BY <2>2, <2>3 DEF Cut
  <1> QED
    BY <1>1, <1>2

LEMMA CutIsUpTo ==
    ASSUME NEW es \in Seq(Entry), NEW t \in Nat, NEW m, Cut(es, t, m)
    PROVE  UpTo(es, t) = SubSeq(es, 1, m)
  <1>0. Len(es) \in Nat /\ m \in Nat /\ m <= Len(es) /\ DOMAIN es = 1..Len(es)
        /\ \A i \in 1..Len(es) : es[i].ts \in Nat
    BY EntryTimes DEF Cut
  <1>1. Timely(es, t) = 1..m
    <2>1. ASSUME NEW i \in 1..m
          PROVE  i \in Timely(es, t)
      BY <1>0 DEF Timely, Cut
    <2>2. ASSUME NEW i \in Timely(es, t)
          PROVE  i \in 1..m
      <3>1. i \in 1..Len(es) /\ \A j \in 1..i : es[j].ts <= t
        BY <1>0 DEF Timely
      <3>2. ASSUME i > m
            PROVE  FALSE
        <4>1. m < Len(es) /\ m + 1 \in 1..i /\ m + 1 \in 1..Len(es)
          BY <1>0, <3>1, <3>2
        <4> QED
          BY <1>0, <3>1, <4>1 DEF Cut
      <3> QED
        BY <1>0, <3>1, <3>2
    <2> QED
      BY <2>1, <2>2
  <1>2. Cardinality(1..m) = m
    <2>1. 1 \in Int /\ m \in Int
      BY <1>0
    <2>2. Cardinality(1..m) = IF 1 > m THEN 0 ELSE m - 1 + 1
      BY <2>1, FS_Interval
    <2> QED
      BY <1>0, <2>2
  <1> QED
    BY <1>1, <1>2 DEF UpTo

LEMMA UpToTyped ==
    ASSUME NEW es \in Seq(Entry), NEW t \in Nat
    PROVE  UpTo(es, t) \in Seq(Entry)
  <1>1. PICK m \in Nat : Cut(es, t, m)
    BY CutExists
  <1>2. SubSeq(es, 1, m) \in Seq(Entry)
    BY <1>1 DEF Cut
  <1> QED
    BY <1>1, <1>2, CutIsUpTo

\* What is appended after the target is not taken.
LEMMA CutAppend ==
    ASSUME NEW es \in Seq(Entry), NEW t \in Nat, NEW m, Cut(es, t, m),
           NEW e \in Entry, e.ts > t
    PROVE  Cut(Append(es, e), t, m) /\ SubSeq(Append(es, e), 1, m) = SubSeq(es, 1, m)
  <1> DEFINE fs == Append(es, e)
             n == Len(es)
  <1>1. /\ fs \in Seq(Entry) /\ Len(fs) = n + 1 /\ n \in Nat /\ fs[n + 1] = e
        /\ \A i \in 1..n : fs[i] = es[i]
    BY AppendedAt
  <1>2. m \in Nat /\ m <= n
    BY <1>1 DEF Cut
  <1> HIDE DEF fs
  <1>3. Cut(fs, t, m)
    <2>1. \A i \in 1..m : fs[i].ts <= t
      BY <1>1, <1>2 DEF Cut
    <2>2. fs[m + 1].ts > t
      <3>1. CASE m = n
        BY <1>1, <3>1
      <3>2. CASE m < n
        BY <1>1, <1>2, <3>2 DEF Cut
      <3> QED
        BY <1>1, <1>2, <3>1, <3>2
    <2> QED
      BY <1>1, <1>2, <2>1, <2>2 DEF Cut
  <1>4. SubSeq(fs, 1, m) = SubSeq(es, 1, m)
    BY <1>1, <1>2
  <1> QED
    BY <1>3, <1>4 DEF fs

LEMMA UpToAppend ==
    ASSUME NEW es \in Seq(Entry), NEW t \in Nat, NEW e \in Entry, e.ts > t
    PROVE  UpTo(Append(es, e), t) = UpTo(es, t)
  <1>1. PICK m \in Nat : Cut(es, t, m)
    BY CutExists
  <1>2. Append(es, e) \in Seq(Entry)
    OBVIOUS
  <1>3. Cut(Append(es, e), t, m) /\ SubSeq(Append(es, e), 1, m) = SubSeq(es, 1, m)
    BY <1>1, CutAppend
  <1>4. UpTo(Append(es, e), t) = SubSeq(Append(es, e), 1, m)
    BY <1>2, <1>3, CutIsUpTo
  <1> QED
    BY <1>1, <1>3, <1>4, CutIsUpTo

LEMMA UpToEmpty == ASSUME NEW t \in Nat PROVE UpTo(<<>>, t) = <<>>
  <1>1. <<>> \in Seq(Entry) /\ Len(<<>>) = 0
    OBVIOUS
  <1>2. Cut(<<>>, t, 0)
    BY <1>1 DEF Cut
  <1>3. UpTo(<<>>, t) = SubSeq(<<>>, 1, 0)
    BY <1>1, <1>2, CutIsUpTo
  <1> QED
    BY <1>3

LEMMA UpToFirst ==
    ASSUME NEW es \in Seq(Entry), NEW t \in Nat, UpTo(es, t) # <<>>
    PROVE  es # <<>> /\ es[1].ts <= t
  <1>1. PICK m \in Nat : Cut(es, t, m)
    BY CutExists
  <1>2. SubSeq(es, 1, m) # <<>>
    BY <1>1, CutIsUpTo
  <1>3. m # 0
    BY <1>2
  <1>4. 1 \in 1..m
    BY <1>3
  <1> QED
    BY <1>1, <1>3, <1>4 DEF Cut
-----------------------------------------------------------------------------
(* The objects one after the other: tk[s] is taken of the object of s       *)

\* f has the content after each of them, g the entries up to each.
Shown(c, T, tk, f) ==
    /\ c \in Seq(Queries) /\ T \in Nat /\ tk \in [0..T -> Seq(Entry)]
    /\ f = [s \in 0..T |-> Applied(IF s = 0 THEN c ELSE f[s - 1], tk[s])]

Joined(T, tk, g) ==
    g = [s \in 0..T |-> (IF s = 0 THEN <<>> ELSE g[s - 1]) \o tk[s]]

\* The content before the object of k.
Base(c, f, k) == IF k = 0 THEN c ELSE f[k - 1]

LEMMA ShownExists ==
    ASSUME NEW c \in Seq(Queries), NEW T \in Nat, NEW tk \in [0..T -> Seq(Entry)]
    PROVE  \E f : Shown(c, T, tk, f)
  <1> DEFINE V == Seq(Queries)
             step == [p \in (1..T) \X V |-> Applied(p[2], tk[p[1]])]
             b == Applied(c, tk[0])
  <1>1. \A x \in V, k \in 0..T : Applied(x, tk[k]) \in V
    BY AppliedTyped
  <1>2. b \in V
    BY <1>1
  <1> HIDE DEF V
  <1>3. step \in [(1..T) \X V -> V]
    <2> SUFFICES ASSUME NEW p \in (1..T) \X V PROVE Applied(p[2], tk[p[1]]) \in V
      OBVIOUS
    <2>1. p[1] \in 0..T /\ p[2] \in V
      OBVIOUS
    <2> QED
      BY <1>1, <2>1
  <1>4. \A k \in 1..T, x \in V : step[<<k, x>>] = Applied(x, tk[k])
    OBVIOUS
  <1> HIDE DEF step, b
  <1>5. PICK f \in [0..T -> V] : Stepwise(f, T, b, step)
    BY <1>2, <1>3, StepsDefine
  <1>6. ASSUME NEW k \in 0..T
        PROVE  f[k] = Applied(IF k = 0 THEN c ELSE f[k - 1], tk[k])
    <2>1. f[k] = IF k = 0 THEN b ELSE step[<<k, f[k - 1]>>]
      BY <1>5, Zenon DEF Stepwise
    <2>2. CASE k = 0
      BY <2>1, <2>2 DEF b
    <2>3. CASE k # 0
      <3>1. k \in 1..T /\ f[k - 1] \in V
        BY <2>3
      <3>2. f[k] = Applied(f[k - 1], tk[k])
        BY <1>4, <2>1, <2>3, <3>1
      <3> QED
        BY <2>3, <3>2
    <2> QED
      BY <2>2, <2>3
  <1>7. f = [k \in 0..T |-> f[k]]
    OBVIOUS
  <1>8. Shown(c, T, tk, f)
    BY <1>6, <1>7 DEF Shown
  <1> QED
    BY <1>8

LEMMA JoinedExists ==
    ASSUME NEW T \in Nat, NEW tk \in [0..T -> Seq(Entry)]
    PROVE  \E g : Joined(T, tk, g)
  <1> DEFINE V == Seq(Entry)
             step == [p \in (1..T) \X V |-> p[2] \o tk[p[1]]]
             b == <<>> \o tk[0]
  <1>1. \A x \in V, k \in 0..T : x \o tk[k] \in V
    OBVIOUS
  <1>2. b \in V
    OBVIOUS
  <1> HIDE DEF V
  <1>3. step \in [(1..T) \X V -> V]
    <2> SUFFICES ASSUME NEW p \in (1..T) \X V PROVE p[2] \o tk[p[1]] \in V
      OBVIOUS
    <2>1. p[1] \in 0..T /\ p[2] \in V
      OBVIOUS
    <2> QED
      BY <1>1, <2>1
  <1>4. \A k \in 1..T, x \in V : step[<<k, x>>] = x \o tk[k]
    OBVIOUS
  <1> HIDE DEF step, b
  <1>5. PICK g \in [0..T -> V] : Stepwise(g, T, b, step)
    BY <1>2, <1>3, StepsDefine
  <1>6. ASSUME NEW k \in 0..T
        PROVE  g[k] = (IF k = 0 THEN <<>> ELSE g[k - 1]) \o tk[k]
    <2>1. g[k] = IF k = 0 THEN b ELSE step[<<k, g[k - 1]>>]
      BY <1>5, Zenon DEF Stepwise
    <2>2. CASE k = 0
      BY <2>1, <2>2 DEF b
    <2>3. CASE k # 0
      <3>1. k \in 1..T /\ g[k - 1] \in V
        BY <2>3
      <3>2. g[k] = g[k - 1] \o tk[k]
        BY <1>4, <2>1, <2>3, <3>1
      <3> QED
        BY <2>3, <3>2
    <2> QED
      BY <2>2, <2>3
  <1>7. g = [k \in 0..T |-> g[k]]
    OBVIOUS
  <1>8. Joined(T, tk, g)
    BY <1>6, <1>7 DEF Joined
  <1> QED
    BY <1>8

LEMMA BaseNext ==
    ASSUME NEW c, NEW T, NEW tk, NEW f, Shown(c, T, tk, f)
    PROVE  \A k \in 0..T : Base(c, f, k + 1) = Applied(Base(c, f, k), tk[k])
  <1> SUFFICES ASSUME NEW k \in 0..T
               PROVE  Base(c, f, k + 1) = Applied(Base(c, f, k), tk[k])
    OBVIOUS
  <1>0. T \in Nat
    BY DEF Shown
  <1>1. f[k] = Applied(IF k = 0 THEN c ELSE f[k - 1], tk[k])
    BY Zenon DEF Shown
  <1>2. k + 1 # 0 /\ (k + 1) - 1 = k
    BY <1>0
  <1> QED
    BY <1>1, <1>2 DEF Base

LEMMA BaseTyped ==
    ASSUME NEW c, NEW T, NEW tk, NEW f, Shown(c, T, tk, f), NEW k \in 0..(T + 1)
    PROVE  Base(c, f, k) \in Seq(Queries)
  <1>0. /\ c \in Seq(Queries) /\ T \in Nat /\ tk \in [0..T -> Seq(Entry)]
        /\ \A m \in 0..T : Base(c, f, m + 1) = Applied(Base(c, f, m), tk[m])
    <2>1. \A m \in 0..T : Base(c, f, m + 1) = Applied(Base(c, f, m), tk[m])
      BY BaseNext
    <2> QED
      BY <2>1 DEF Shown
  <1> DEFINE S == {n \in Nat : n <= T + 1 => Base(c, f, n) \in Seq(Queries)}
  <1>1. 0 \in S
    BY <1>0 DEF Base
  <1>2. ASSUME NEW n \in Nat, n \in S PROVE n + 1 \in S
    <2> SUFFICES ASSUME n + 1 <= T + 1 PROVE Base(c, f, n + 1) \in Seq(Queries)
      OBVIOUS
    <2>1. n \in 0..T /\ Base(c, f, n) \in Seq(Queries) /\ tk[n] \in Seq(Entry)
      BY <1>0, <1>2
    <2>2. Base(c, f, n + 1) = Applied(Base(c, f, n), tk[n])
      BY <1>0, <2>1
    <2> QED
      BY <2>1, <2>2, AppliedTyped
  <1>3. Nat \subseteq S
    <2> HIDE DEF S
    <2> QED
      BY <1>1, <1>2, NatBySteps
  <1> QED
    BY <1>0, <1>3

\* Nothing is taken of the objects from k up to the one before l.
Nothing(tk, k, l) == \A u \in k..(l - 1) : tk[u] = <<>>

\* Objects of which nothing is taken change nothing.
LEMMA BaseSkips ==
    ASSUME NEW c, NEW T, NEW tk, NEW f, Shown(c, T, tk, f),
           NEW k \in Nat, NEW l \in Nat, k <= l, l <= T + 1, Nothing(tk, k, l)
    PROVE  Base(c, f, l) = Base(c, f, k)
  <1> DEFINE S == {n \in Nat : k + n <= l => Base(c, f, k + n) = Base(c, f, k)}
  <1>0. /\ T \in Nat /\ tk \in [0..T -> Seq(Entry)]
        /\ \A m \in 0..T : Base(c, f, m + 1) = Applied(Base(c, f, m), tk[m])
        /\ \A m \in 0..(T + 1) : Base(c, f, m) \in Seq(Queries)
    <2>1. \A m \in 0..T : Base(c, f, m + 1) = Applied(Base(c, f, m), tk[m])
      BY BaseNext
    <2> QED
      BY <2>1, BaseTyped DEF Shown
  <1>1. 0 \in S
    OBVIOUS
  <1>2. ASSUME NEW n \in Nat, n \in S PROVE n + 1 \in S
    <2> SUFFICES ASSUME k + (n + 1) <= l PROVE Base(c, f, k + (n + 1)) = Base(c, f, k)
      OBVIOUS
    <2>1. k + n \in 0..T /\ k + n \in k..(l - 1) /\ k + n \in 0..(T + 1)
          /\ k + (n + 1) = (k + n) + 1 /\ Base(c, f, k + n) = Base(c, f, k)
      BY <1>0, <1>2
    <2>2. Base(c, f, (k + n) + 1) = Applied(Base(c, f, k + n), tk[k + n])
      BY <1>0, <2>1
    <2>3. Base(c, f, k + n) \in Seq(Queries)
      BY <1>0, <2>1
    <2>4. Applied(Base(c, f, k + n), <<>>) = Base(c, f, k + n)
      BY <2>3, AppliedEmpty
    <2>5. tk[k + n] = <<>>
      BY <2>1 DEF Nothing
    <2> QED
      BY <2>1, <2>2, <2>4, <2>5
  <1>3. Nat \subseteq S
    <2> HIDE DEF S
    <2> QED
      BY <1>1, <1>2, NatBySteps
  <1>4. l - k \in Nat /\ k + (l - k) = l
    OBVIOUS
  <1>5. l - k \in S
    <2> HIDE DEF S
    <2> QED
      BY <1>3, <1>4
  <1> QED
    BY <1>4, <1>5

LEMMA ValuesGrow ==
    ASSUME NEW S, NEW s \in Seq(S), NEW x \in S
    PROVE  Values(Append(s, x)) = Values(s) \cup {x}
  <1>1. Values(Append(s, x)) \subseteq Values(s) \cup {x}
    BY ValuesAppend
  <1>2. x \in Values(Append(s, x)) /\ Values(s) \subseteq Values(Append(s, x))
    BY ValuesAppended
  <1> QED
    BY <1>1, <1>2

\* What is not in the snapshot was taken from an object.
LEMMA AppliedValues ==
    ASSUME NEW c \in Seq(Queries), NEW es \in Seq(Entry), NEW q \in Values(Applied(c, es))
    PROVE  q \in Values(c) \/ \E e \in Values(es) : e.q = q
  <1> DEFINE Come(gs) == \A x \in Values(Applied(c, gs)) :
                            x \in Values(c) \/ \E e \in Values(gs) : e.q = x
             S == {n \in Nat : \A gs \in Seq(Entry) : Len(gs) = n => Come(gs)}
  <1>1. 0 \in S
    <2> SUFFICES ASSUME NEW gs \in Seq(Entry), Len(gs) = 0 PROVE Come(gs)
      OBVIOUS
    <2>1. gs = <<>>
      OBVIOUS
    <2> QED
      BY <2>1, AppliedEmpty
  <1>2. ASSUME NEW n \in Nat, n \in S PROVE n + 1 \in S
    <2> SUFFICES ASSUME NEW gs \in Seq(Entry), Len(gs) = n + 1 PROVE Come(gs)
      OBVIOUS
    <2> DEFINE hs == SubSeq(gs, 1, n)
               x == gs[n + 1]
    <2>1. hs \in Seq(Entry) /\ Len(hs) = n /\ x \in Entry /\ gs = Append(hs, x)
      OBVIOUS
    <2>2. Come(hs)
      <3> HIDE DEF Come, hs
      <3> QED
        BY <1>2, <2>1
    <2> HIDE DEF hs, x
    <2>3. Values(gs) = Values(hs) \cup {x}
      <3>1. Values(Append(hs, x)) = Values(hs) \cup {x}
        BY <2>1, ValuesGrow
      <3> QED
        BY <2>1, <3>1, Zenon
    <2>4. Applied(c, hs) \in Seq(Queries) /\ x.q \in Queries
      BY <2>1, AppliedTyped DEF Entry
    <2>5. Values(Applied(c, gs)) \subseteq Values(Applied(c, hs)) \cup {x.q}
      <3>1. Applied(c, gs) = IF x.q \in Refused THEN Applied(c, hs) ELSE Append(Applied(c, hs), x.q)
        BY <2>1, AppliedAppend
      <3>2. Values(Append(Applied(c, hs), x.q)) = Values(Applied(c, hs)) \cup {x.q}
        BY <2>4, ValuesGrow
      <3> QED
        BY <3>1, <3>2
    <2> QED
      BY <2>2, <2>3, <2>5
  <1>3. Nat \subseteq S
    <2> HIDE DEF S
    <2> QED
      BY <1>1, <1>2, NatBySteps
  <1>4. Len(es) \in Nat
    OBVIOUS
  <1> QED
    BY <1>3, <1>4

LEMMA BaseValues ==
    ASSUME NEW c, NEW T, NEW tk, NEW f, Shown(c, T, tk, f),
           NEW q \in Values(Base(c, f, T + 1))
    PROVE  q \in Values(c) \/ \E s \in 0..T : \E e \in Values(tk[s]) : e.q = q
  <1> DEFINE Come(n) == \A x \in Values(Base(c, f, n)) :
                 x \in Values(c) \/ \E s \in 0..T : \E e \in Values(tk[s]) : e.q = x
             S == {n \in Nat : n <= T + 1 => Come(n)}
  <1>0. /\ T \in Nat /\ tk \in [0..T -> Seq(Entry)]
        /\ \A m \in 0..T : Base(c, f, m + 1) = Applied(Base(c, f, m), tk[m])
        /\ \A m \in 0..(T + 1) : Base(c, f, m) \in Seq(Queries)
    <2>1. \A m \in 0..T : Base(c, f, m + 1) = Applied(Base(c, f, m), tk[m])
      BY BaseNext
    <2> QED
      BY <2>1, BaseTyped DEF Shown
  <1>1. 0 \in S
    BY DEF Base
  <1>2. ASSUME NEW n \in Nat, n \in S PROVE n + 1 \in S
    <2> SUFFICES ASSUME n + 1 <= T + 1,
                        NEW x \in Values(Base(c, f, n + 1))
                 PROVE  x \in Values(c) \/ \E s \in 0..T : \E e \in Values(tk[s]) : e.q = x
      OBVIOUS
    <2>1. n \in 0..T /\ n \in 0..(T + 1) /\ Come(n)
      BY <1>0, <1>2
    <2>2. Base(c, f, n) \in Seq(Queries) /\ tk[n] \in Seq(Entry)
          /\ Base(c, f, n + 1) = Applied(Base(c, f, n), tk[n])
      BY <1>0, <2>1
    <2>3. x \in Values(Base(c, f, n)) \/ \E e \in Values(tk[n]) : e.q = x
      BY <2>2, AppliedValues
    <2> QED
      BY <2>1, <2>3
  <1>3. Nat \subseteq S
    <2> HIDE DEF S
    <2> QED
      BY <1>1, <1>2, NatBySteps
  <1>4. T + 1 \in S
    <2>1. T + 1 \in Nat
      BY <1>0
    <2> HIDE DEF S
    <2> QED
      BY <1>3, <2>1
  <1> QED
    BY <1>0, <1>4

\* All the entries in one go lead to the same content.
LEMMA JoinedShown ==
    ASSUME NEW c, NEW T, NEW tk, NEW f, Shown(c, T, tk, f), NEW g, Joined(T, tk, g)
    PROVE  Applied(c, g[T]) = f[T]
  <1> DEFINE Good(n) == g[n] \in Seq(Entry) /\ Applied(c, g[n]) = f[n]
             S == {n \in Nat : n <= T => Good(n)}
  <1>a. c \in Seq(Queries) /\ T \in Nat
    BY DEF Shown
  <1>0. \A n \in 0..T : /\ f[n] = Applied(IF n = 0 THEN c ELSE f[n - 1], tk[n])
                        /\ g[n] = (IF n = 0 THEN <<>> ELSE g[n - 1]) \o tk[n]
                        /\ tk[n] \in Seq(Entry)
    BY Zenon DEF Shown, Joined
  <1>1. 0 \in S
    <2>1. 0 \in 0..T
      BY <1>a
    <2>2. f[0] = Applied(c, tk[0]) /\ g[0] = <<>> \o tk[0] /\ tk[0] \in Seq(Entry)
      BY <1>0, <2>1
    <2>3. <<>> \o tk[0] = tk[0]
      BY <2>2
    <2>4. Good(0)
      BY <2>2, <2>3
    <2> QED
      BY <2>4
  <1>2. ASSUME NEW n \in Nat, n \in S PROVE n + 1 \in S
    <2> SUFFICES ASSUME n + 1 <= T PROVE Good(n + 1)
      OBVIOUS
    <2>1. Good(n) /\ n + 1 \in 0..T /\ n + 1 # 0 /\ (n + 1) - 1 = n
      BY <1>a, <1>2
    <2>2. /\ f[n + 1] = Applied(f[n], tk[n + 1]) /\ g[n + 1] = g[n] \o tk[n + 1]
          /\ tk[n + 1] \in Seq(Entry)
      BY <1>0, <2>1
    <2>3. Applied(c, g[n] \o tk[n + 1]) = Applied(Applied(c, g[n]), tk[n + 1])
      BY <1>a, <2>1, <2>2, AppliedConcat
    <2>4. g[n] \o tk[n + 1] \in Seq(Entry)
      BY <2>1, <2>2
    <2> QED
      BY <2>1, <2>2, <2>3, <2>4
  <1>3. Nat \subseteq S
    <2> HIDE DEF S
    <2> QED
      BY <1>1, <1>2, NatBySteps
  <1>4. T \in S
    <2> HIDE DEF S
    <2> QED
      BY <1>a, <1>3
  <1> QED
    BY <1>a, <1>4

-----------------------------------------------------------------------------
(* Preview and branch                                                       *)

Takes(snap, t) == [s \in 0..t |-> TakenFrom(snap, t, s)]

LEMMA TakesTyped ==
    ASSUME TypeInv, NEW snap, NEW t \in Nat
    PROVE  Takes(snap, t) \in [0..t -> Seq(Entry)]
  <1>1. ASSUME NEW s \in 0..t
        PROVE  TakenFrom(snap, t, s) \in Seq(Entry)
    <2>1. CASE s \in ListedWal(snap.at, t)
      <3>1. wal[s] \in Seq(Entry)
        BY <2>1, Types DEF ListedWal
      <3> QED
        BY <2>1, <3>1, UpToTyped DEF TakenFrom
    <2>2. CASE s \notin ListedWal(snap.at, t)
      BY <2>2 DEF TakenFrom
    <2> QED
      BY <2>1, <2>2
  <1> QED
    BY <1>1 DEF Takes

\* The two are the content after the last object.
LEMMA ViewsShown ==
    ASSUME TypeInv, NEW snap \in Snapshot, NEW t \in Nat
    PROVE  \E f : /\ Shown(snap.content, t, Takes(snap, t), f)
                  /\ PreviewOf(snap, t) = Base(snap.content, f, t + 1)
                  /\ BranchOf(snap, t) = Base(snap.content, f, t + 1)
  <1> DEFINE c == snap.content
             tk == Takes(snap, t)
             PF(f) == f = [s \in 0..t |->
                  Applied(IF s = 0 THEN snap.content ELSE f[s - 1], TakenFrom(snap, t, s))]
             PG(g) == g = [s \in 0..t |->
                  (IF s = 0 THEN <<>> ELSE g[s - 1]) \o TakenFrom(snap, t, s)]
             f == CHOOSE h : PF(h)
             g == CHOOSE h : PG(h)
  <1>0. c \in Seq(Queries) /\ tk \in [0..t -> Seq(Entry)]
    BY TakesTyped DEF Snapshot, Content
  <1>1. \A s \in 0..t : tk[s] = TakenFrom(snap, t, s)
    BY DEF Takes
  <1>2. \A h : Shown(c, t, tk, h) <=> PF(h)
    BY <1>0, <1>1 DEF Shown
  <1>3. \A h : Joined(t, tk, h) <=> PG(h)
    BY <1>1 DEF Joined
  <1>4. PreviewOf(snap, t) = f[t]
    BY Zenon DEF PreviewOf
  <1>5. BranchOf(snap, t) = Applied(c, g[t])
    BY Zenon DEF BranchOf
  <1> HIDE DEF c, tk
  <1>6. PF(f)
    <2>1. \E h : PF(h)
      <3> HIDE DEF PF
      <3> QED
        BY <1>0, <1>2, ShownExists
    <2> QED
      BY <2>1, Zenon
  <1>7. PG(g)
    <2>1. \E h : PG(h)
      <3> HIDE DEF PG
      <3> QED
        BY <1>0, <1>3, JoinedExists
    <2> QED
      BY <2>1, Zenon
  <1> HIDE DEF f, g, PF, PG
  <1>8. Shown(c, t, tk, f) /\ Joined(t, tk, g)
    BY <1>2, <1>3, <1>6, <1>7
  <1>9. t \in 0..t
    OBVIOUS
  <1>10. Applied(c, g[t]) = f[t]
    <2>1. c \in Seq(Queries) /\ tk \in [0..t -> Seq(Entry)]
      BY <1>0
    <2>2. Shown(c, t, tk, f) /\ Joined(t, tk, g)
      BY <1>8
    <2> QED
      BY <2>1, <2>2, JoinedShown
  <1>11. Base(c, f, t + 1) = f[t]
    BY DEF Base
  <1> QED
    BY <1>4, <1>5, <1>8, <1>10, <1>11 DEF c, tk

\* What comes into the WAL under a restore changes none of it.
LEMMA TakesStay ==
    ASSUME TypeInv, NEW snap \in Snapshot, NEW t \in Time, Appended(t)
    PROVE  Takes(snap, t)' = Takes(snap, t)
  <1>0. t \in Nat /\ wal \in [Seconds -> Seq(Entry)]
    BY Types
  <1>1. ASSUME NEW s \in 0..t
        PROVE  TakenFrom(snap, t, s)' = TakenFrom(snap, t, s)
    <2>1. CASE s \notin Seconds
      BY <2>1 DEF TakenFrom, ListedWal
    <2>2. CASE s \in Seconds /\ wal'[s] = wal[s]
      BY <2>2 DEF TakenFrom, ListedWal, UpTo, Timely
    <2>3. ASSUME s \in Seconds, NEW e \in Entry, e.ts > t, wal'[s] = Append(wal[s], e)
          PROVE  TakenFrom(snap, t, s)' = TakenFrom(snap, t, s)
      <3>1. wal[s] \in Seq(Entry)
        BY <1>0, <2>3
      <3>2. UpTo(wal'[s], t) = UpTo(wal[s], t)
        BY <1>0, <2>3, <3>1, UpToAppend
      <3>3. wal'[s] # <<>>
        BY <2>3, <3>1
      <3>4. TakenFrom(snap, t, s)' =
               IF snap.at <= s /\ s <= t THEN UpTo(wal'[s], t) ELSE <<>>
        BY <2>3, <3>3 DEF TakenFrom, ListedWal, UpTo, Timely
      <3>5. TakenFrom(snap, t, s) =
               IF snap.at <= s /\ s <= t THEN UpTo(wal[s], t) ELSE <<>>
        <4>1. CASE wal[s] = <<>>
          BY <1>0, <2>3, <4>1, UpToEmpty DEF TakenFrom, ListedWal
        <4>2. CASE wal[s] # <<>>
          BY <2>3, <4>2 DEF TakenFrom, ListedWal
        <4> QED
          BY <4>1, <4>2
      <3> QED
        BY <3>2, <3>4, <3>5
    <2> QED
      BY <2>1, <2>2, <2>3 DEF Appended
  <1>2. [s \in 0..t |-> TakenFrom(snap, t, s)]' = [s \in 0..t |-> TakenFrom(snap, t, s)]
    BY <1>1
  <1> QED
    BY <1>2 DEF Takes

-----------------------------------------------------------------------------
(* A restore under way and what a preview of its target shows               *)

TakesOf(r) == Takes(restorer[r].snap, restorer[r].target)

\* Of the objects something is taken of, it has all and nothing else.
FilesKnown(r) ==
    /\ restorer[r].files \subseteq ListedWal(restorer[r].snap.at, restorer[r].target)
    /\ \A s \in 0..restorer[r].target : TakesOf(r)[s] # <<>> => s \in restorer[r].files
    /\ restorer[r].todo \subseteq restorer[r].files

\* From k on they are still to be read.
Left(r, k) ==
    \A u \in k..restorer[r].target : TakesOf(r)[u] # <<>> => u \in restorer[r].todo

\* Between two objects: those before k are done.
Between(r, f, k) ==
    /\ restorer[r].got = Base(restorer[r].snap.content, f, k)
    /\ \A u \in restorer[r].todo : k <= u
    /\ Left(r, k)

\* In the object of s: j entries are done and those at hand are the next ones.
Inside(r, f, s, j) ==
    LET es == restorer[r].entries
        o == wal[s]
    IN  /\ s \in restorer[r].files
        /\ restorer[r].got = Applied(Base(restorer[r].snap.content, f, s), SubSeq(o, 1, j))
        /\ j + Len(es) <= Len(o)
        /\ \A i \in 1..j : o[i].ts <= restorer[r].target
        /\ \A i \in 1..Len(es) : es[i] = o[j + i]
        /\ j + Len(es) < Len(o) => o[j + Len(es) + 1].ts > restorer[r].target
        /\ \A u \in restorer[r].todo : s < u
        /\ Left(r, s + 1)

Seen(r, f) ==
    \/ /\ restorer[r].pc = "file"
       /\ \E k \in 0..(restorer[r].target + 1) : Between(r, f, k)
    \/ /\ restorer[r].pc = "entry"
       /\ \E s \in 0..restorer[r].target, j \in Nat : Inside(r, f, s, j)
    \/ /\ restorer[r].pc = "archive"
       /\ restorer[r].got =
             Base(restorer[r].snap.content, f, restorer[r].target + 1)

ShownTo(r, f) == Shown(restorer[r].snap.content, restorer[r].target, TakesOf(r), f)

ViewOf(r) ==
    UnderWay(r) /\ restorer[r].pc \in {"file", "entry", "archive"} =>
        FilesKnown(r) /\ \A f : ShownTo(r, f) => Seen(r, f)

ViewInv == \A r \in Restorers : ViewOf(r)

LEMMA TakenListed ==
    ASSUME TypeInv, NEW snap \in Snapshot, NEW t \in Time, NEW s \in 0..t
    PROVE  /\ Takes(snap, t)[s] = TakenFrom(snap, t, s)
           /\ Takes(snap, t)[s] # <<>> =>
                 /\ s \in ListedWal(snap.at, t) /\ s \in Seconds /\ wal[s] # <<>>
                 /\ wal[s] \in Seq(Entry) /\ wal[s][1].ts <= t
  <1>1. Takes(snap, t)[s] = TakenFrom(snap, t, s)
    BY DEF Takes
  <1>2. ASSUME TakenFrom(snap, t, s) # <<>>
        PROVE  /\ s \in ListedWal(snap.at, t) /\ s \in Seconds /\ wal[s] # <<>>
               /\ wal[s] \in Seq(Entry) /\ wal[s][1].ts <= t
    <2>1. s \in ListedWal(snap.at, t) /\ UpTo(wal[s], t) # <<>>
      BY <1>2 DEF TakenFrom
    <2>2. s \in Seconds /\ wal[s] \in Seq(Entry) /\ t \in Nat
      BY <2>1, Types DEF ListedWal
    <2> QED
      BY <2>1, <2>2, UpToFirst
  <1> QED
    BY <1>1, <1>2

\* In the next state: the objects of a snapshot and a target.
LEMMA TakesNext ==
    ASSUME NEW r, NEW snap, NEW t, restorer'[r].snap = snap, restorer'[r].target = t
    PROVE  /\ TakesOf(r)' = Takes(snap, t)'
           /\ ListedWal(restorer[r].snap.at, restorer[r].target)' = ListedWal(snap.at, t)'
  <1>1. ListedWal(restorer[r].snap.at, restorer[r].target)' = ListedWal(snap.at, t)'
    BY DEF ListedWal
  <1>2. ASSUME NEW s
        PROVE  TakenFrom(restorer[r].snap, restorer[r].target, s)' = TakenFrom(snap, t, s)'
    <2>1. UpTo(wal[s], restorer[r].target)' = UpTo(wal[s], t)'
      <3>1. Timely(wal[s], restorer[r].target)' = Timely(wal[s], t)'
        BY DEF Timely
      <3> QED
        BY <3>1 DEF UpTo
    <2> QED
      BY <1>1, <2>1 DEF TakenFrom
  <1> QED
    BY <1>2 DEF TakesOf, Takes

LEMMA TakesKept ==
    ASSUME wal' = wal, NEW snap, NEW t
    PROVE  Takes(snap, t)' = Takes(snap, t) /\ ListedWal(snap.at, t)' = ListedWal(snap.at, t)
  BY DEF Takes, TakenFrom, ListedWal, UpTo, Timely

LEMMA ViewList ==
    ASSUME TypeInv, NEW r \in Restorers, ListWal(r), ~ Fault,
           restorer[r].got = restorer[r].snap.content, NEW f
    PROVE  restorer'[r].pc = "file" /\ FilesKnown(r)' /\ Seen(r, f)'
  <1>a. PICK t \in Time, s \in Snapshot :
           t = restorer[r].target /\ s = restorer[r].snap
    BY WholeTyped
  <1> DEFINE F == {u \in Seconds : wal[u] # <<>> /\ s.at <= u /\ u <= t}
  <1>1. restorer' = [restorer EXCEPT ![r].pc = "file", ![r].files = F, ![r].todo = F]
        /\ UNCHANGED wal
    BY <1>a DEF ListWal, storage
  <1>2. F = ListedWal(s.at, t)
    BY DEF ListedWal
  <1> HIDE DEF F
  <1>3. /\ restorer'[r].pc = "file" /\ restorer'[r].todo = F /\ restorer'[r].files = F
        /\ restorer'[r].got = s.content
        /\ restorer'[r].target = t /\ restorer'[r].snap = s
    BY <1>1, <1>a, WholeTyped, Types DEF RestorerState
  <1>4. /\ TakesOf(r)' = Takes(s, t)
        /\ ListedWal(restorer[r].snap.at, restorer[r].target)' = F
    <2>1. /\ TakesOf(r)' = Takes(s, t)'
          /\ ListedWal(restorer[r].snap.at, restorer[r].target)' = ListedWal(s.at, t)'
      BY <1>3, TakesNext
    <2>2. Takes(s, t)' = Takes(s, t) /\ ListedWal(s.at, t)' = ListedWal(s.at, t)
      BY <1>1, TakesKept
    <2> QED
      BY <1>2, <2>1, <2>2
  <1>5. \A u \in 0..t : Takes(s, t)[u] # <<>> => u \in F
    BY <1>2, TakenListed
  <1>6. FilesKnown(r)'
    BY <1>3, <1>4, <1>5 DEF FilesKnown
  <1>7. t \in Nat /\ \A u \in F : u \in Nat
    BY Types DEF F, Seconds
  <1>8. Between(r, f, 0)'
    <2>1. Left(r, 0)'
      BY <1>3, <1>4, <1>5 DEF Left
    <2>2. \A u \in F : 0 <= u
      BY <1>7
    <2>3. restorer'[r].got = Base(restorer'[r].snap.content, f, 0)
      BY <1>3 DEF Base
    <2> QED
      BY <1>3, <2>1, <2>2, <2>3 DEF Between
  <1>9. 0 \in 0..(restorer'[r].target + 1)
    BY <1>3, <1>7
  <1> QED
    BY <1>3, <1>6, <1>8, <1>9 DEF Seen

LEMMA TakesOwn ==
    ASSUME wal' = wal, NEW r, NEW snap, NEW t,
           restorer'[r].snap = snap, restorer'[r].target = t
    PROVE  /\ TakesOf(r)' = Takes(snap, t)
           /\ ListedWal(restorer[r].snap.at, restorer[r].target)' = ListedWal(snap.at, t)
  <1>1. /\ TakesOf(r)' = Takes(snap, t)'
        /\ ListedWal(restorer[r].snap.at, restorer[r].target)' = ListedWal(snap.at, t)'
    BY TakesNext
  <1>2. Takes(snap, t)' = Takes(snap, t) /\ ListedWal(snap.at, t)' = ListedWal(snap.at, t)
    BY TakesKept
  <1> QED
    BY <1>1, <1>2

LEMMA ViewRead ==
    ASSUME TypeInv, NEW r \in Restorers, ReadFile(r), ~ Fault, FilesKnown(r),
           NEW f, ShownTo(r, f), NEW k \in Nat, k <= restorer[r].target + 1,
           Between(r, f, k)
    PROVE  FilesKnown(r)' /\ Seen(r, f)'
  <1>a. PICK t \in Nat, s \in Snapshot, c \in Seq(Queries), g \in Seq(Queries),
             F \in SUBSET Seconds, T \in SUBSET Seconds :
           /\ t = restorer[r].target /\ s = restorer[r].snap /\ c = s.content
           /\ g = restorer[r].got /\ F = restorer[r].files /\ T = restorer[r].todo
    BY WholeTyped DEF RestorerState
  <1>b. PICK tk \in [0..t -> Seq(Entry)] : tk = Takes(s, t)
    BY TakesTyped
  <1>1. t \in Nat /\ (\A u \in Seconds : u \in Nat)
    BY Types DEF Seconds
  <1>2. Shown(c, t, tk, f) /\ k <= t + 1
    BY <1>a, <1>b DEF ShownTo, TakesOf
  <1>3. /\ F \subseteq ListedWal(s.at, t) /\ T \subseteq F
        /\ \A u \in 0..t : tk[u] # <<>> => u \in F
    BY <1>a, <1>b DEF FilesKnown, TakesOf
  <1>4. /\ g = Base(c, f, k) /\ \A u \in T : k <= u
        /\ \A u \in k..t : tk[u] # <<>> => u \in T
    BY <1>a, <1>b DEF Between, Left, TakesOf
  <1>5. wal' = wal /\ restorer[r].pc = "file"
    BY DEF ReadFile, storage
  <1>6. ASSUME NEW l \in Nat, k <= l, l <= t + 1, Nothing(tk, k, l)
        PROVE  g = Base(c, f, l)
    <2>1. Base(c, f, l) = Base(c, f, k)
      BY <1>2, <1>6, BaseSkips
    <2> QED
      BY <1>4, <2>1
  <1>7. CASE T = {}
    <2>1. restorer' = [restorer EXCEPT ![r].pc = "archive"]
      BY <1>7, <1>a DEF ReadFile
    <2>2. /\ restorer'[r].pc = "archive" /\ restorer'[r].todo = T /\ restorer'[r].files = F
          /\ restorer'[r].got = g /\ restorer'[r].target = t /\ restorer'[r].snap = s
      BY <1>a, <2>1, WholeTyped, Types DEF RestorerState
    <2>3. /\ TakesOf(r)' = tk
          /\ ListedWal(restorer[r].snap.at, restorer[r].target)' = ListedWal(s.at, t)
      BY <1>5, <2>2, <1>b, TakesOwn
    <2>4. FilesKnown(r)'
      BY <1>3, <2>2, <2>3 DEF FilesKnown
    <2>5. g = Base(c, f, t + 1)
      <3>1. Nothing(tk, k, t + 1)
        BY <1>1, <1>2, <1>4, <1>7 DEF Nothing
      <3>2. t + 1 \in Nat /\ k <= t + 1 /\ t + 1 <= t + 1
        BY <1>1, <1>2
      <3> QED
        BY <1>6, <3>1, <3>2
    <2> QED
      BY <1>a, <2>2, <2>4, <2>5 DEF Seen
  <1>8. CASE T # {}
    <2>1. PICK o \in T : /\ \A u \in T : o <= u
                         /\ restorer' = [restorer EXCEPT ![r].pc = "entry",
                               ![r].todo = @ \ {o}, ![r].entries = wal[o]]
      BY <1>8, <1>a DEF ReadFile
    <2>2. /\ restorer'[r].pc = "entry" /\ restorer'[r].todo = T \ {o}
          /\ restorer'[r].files = F /\ restorer'[r].entries = wal[o]
          /\ restorer'[r].got = g /\ restorer'[r].target = t /\ restorer'[r].snap = s
      BY <1>a, <2>1, WholeTyped, Types DEF RestorerState
    <2>3. /\ TakesOf(r)' = tk
          /\ ListedWal(restorer[r].snap.at, restorer[r].target)' = ListedWal(s.at, t)
      BY <1>5, <2>2, <1>b, TakesOwn
    <2>4. FilesKnown(r)'
      <3>1. T \ {o} \subseteq F
        BY <1>3
      <3> QED
        BY <1>3, <2>2, <2>3, <3>1 DEF FilesKnown
    <2>5. /\ o \in Nat /\ o <= t /\ k <= o /\ o \in F /\ o \in 0..t
          /\ wal[o] \in Seq(Entry) /\ Len(wal[o]) \in Nat
      BY <1>1, <1>3, <1>4, Types DEF ListedWal
    <2>6. g = Base(c, f, o)
      <3>1. Nothing(tk, k, o)
        <4>1. ASSUME NEW u \in k..(o - 1), tk[u] # <<>>
              PROVE  FALSE
          <5>1. u \in k..t
            BY <1>1, <1>2, <2>5
          <5>2. u \in T /\ o <= u
            BY <1>4, <2>1, <4>1, <5>1
          <5> QED
            BY <1>1, <1>2, <2>5, <4>1, <5>2
        <4> QED
          BY <4>1 DEF Nothing
      <3>2. o <= t + 1
        BY <1>1, <2>5
      <3> QED
        BY <1>6, <2>5, <3>1, <3>2
    <2>7. Inside(r, f, o, 0)'
      <3>1. SubSeq(wal[o], 1, 0) = <<>>
        BY <2>5
      <3>2. Base(c, f, o) \in Seq(Queries)
        BY <2>6
      <3>3. g = Applied(Base(c, f, o), SubSeq(wal[o], 1, 0))
        BY <2>6, <3>1, <3>2, AppliedEmpty
      <3>4. /\ 0 + Len(wal[o]) = Len(wal[o]) /\ \A i \in 1..Len(wal[o]) : 0 + i = i
            /\ 1..0 = {}
        BY <2>5
      <3>5. \A u \in T \ {o} : o < u
        BY <1>1, <2>1, <2>5
      <3>6. Left(r, o + 1)'
        <4>1. ASSUME NEW u \in (o + 1)..t, tk[u] # <<>>
              PROVE  u \in T \ {o}
          <5>1. u \in k..t /\ u # o
            BY <1>1, <1>2, <2>5
          <5> QED
            BY <1>4, <4>1, <5>1
        <4> QED
          BY <2>2, <2>3, <4>1 DEF Left
      <3>7. restorer'[r].snap.content = c
        BY <1>a, <2>2
      <3> QED
        <4>1. \A i \in 1..Len(wal[o]) : wal[o][i] = wal[o][0 + i]
          BY <3>4
        <4>2. ~ (0 + Len(wal[o]) < Len(wal[o])) /\ 0 + Len(wal[o]) <= Len(wal[o])
          BY <2>5
        <4>3. \A i \in 1..0 : wal[o][i].ts <= t
          BY <3>4
        <4>4. wal'[o] = wal[o]
          BY <1>5
        <4> QED
          BY <2>2, <2>5, <3>3, <3>5, <3>6, <3>7, <4>1, <4>2, <4>3, <4>4 DEF Inside
    <2> QED
      BY <2>2, <2>4, <2>5, <2>7 DEF Seen
  <1> QED
    BY <1>7, <1>8

\* The object of s is done: what was taken of it was replayed.
LEMMA ObjectDone ==
    ASSUME TypeInv, NEW snap \in Snapshot, NEW t \in Time, NEW f,
           Shown(snap.content, t, Takes(snap, t), f), NEW s \in ListedWal(snap.at, t),
           NEW j \in Nat, Cut(wal[s], t, j)
    PROVE  /\ s \in 0..t
           /\ Base(snap.content, f, s + 1) =
                 Applied(Base(snap.content, f, s), SubSeq(wal[s], 1, j))
  <1>1. t \in Nat /\ s \in Seconds /\ wal[s] \in Seq(Entry) /\ s \in 0..t
    BY Types DEF ListedWal, Seconds
  <1>2. Takes(snap, t)[s] = SubSeq(wal[s], 1, j)
    <2>1. Takes(snap, t)[s] = UpTo(wal[s], t)
      BY <1>1 DEF Takes, TakenFrom
    <2> QED
      BY <1>1, <2>1, CutIsUpTo
  <1>3. \A k \in 0..t : Base(snap.content, f, k + 1) =
                          Applied(Base(snap.content, f, k), Takes(snap, t)[k])
    BY BaseNext
  <1> QED
    BY <1>1, <1>2, <1>3

\* Behind an object with an entry after the target nothing is taken.
LEMMA NothingBehind ==
    ASSUME TypeInv, StampInv, NEW snap \in Snapshot, NEW t \in Time,
           NEW s \in Seconds, NEW e \in Values(wal[s]), e.ts > t
    PROVE  Nothing(Takes(snap, t), s + 1, t + 1)
  <1>0. t \in Nat /\ s \in Nat /\ wal[s] \in Seq(Entry) /\ e \in Entry
    BY Types, ValuesTyped DEF Seconds
  <1>1. Floor(e.ts) = s /\ e.ts \in Time
    BY <1>0 DEF StampInv, EntriesFiled, Filed, Entry
  <1>2. ASSUME NEW u \in (s + 1)..t, Takes(snap, t)[u] # <<>>
        PROVE  FALSE
    <2>1. u \in 0..t /\ u > s
      BY <1>0
    <2>2. u \in Seconds /\ wal[u] # <<>> /\ wal[u] \in Seq(Entry) /\ wal[u][1].ts <= t
      BY <1>2, <2>1, TakenListed
    <2>3. wal[u][1] \in Values(wal[u]) /\ wal[u][1] \in Entry
      BY <2>2 DEF Values
    <2>4. Floor(wal[u][1].ts) = u /\ wal[u][1].ts \in Time
      BY <2>2, <2>3 DEF StampInv, EntriesFiled, Filed, Entry
    <2>5. wal[u][1].ts <= e.ts
      <3>1. wal[u][1].ts \in Nat /\ e.ts \in Nat
        BY <1>1, <2>4, Types
      <3> QED
        BY <1>0, <2>2, <3>1
    <2>6. Floor(wal[u][1].ts) <= Floor(e.ts)
      BY <1>1, <2>4, <2>5, FloorMonotone
    <2> QED
      BY <1>0, <1>1, <2>1, <2>4, <2>6
  <1>3. (t + 1) - 1 = t
    BY <1>0
  <1> QED
    BY <1>2, <1>3 DEF Nothing

LEMMA ViewEntry ==
    ASSUME TypeInv, StampInv, NEW r \in Restorers, ReplayEntry(r), ~ Fault, FilesKnown(r),
           NEW f, ShownTo(r, f), NEW s \in 0..restorer[r].target, NEW j \in Nat,
           Inside(r, f, s, j)
    PROVE  FilesKnown(r)' /\ Seen(r, f)'
  <1>a. PICK t \in Time, snap \in Snapshot, c \in Seq(Queries), g \in Seq(Queries),
             es \in Seq(Entry), F \in SUBSET Seconds, T \in SUBSET Seconds :
           /\ t = restorer[r].target /\ snap = restorer[r].snap /\ c = snap.content
           /\ g = restorer[r].got /\ F = restorer[r].files /\ T = restorer[r].todo
           /\ es = restorer[r].entries
    BY WholeTyped DEF RestorerState
  <1>b. PICK o \in Seq(Entry) : o = wal[s]
    <2>1. s \in ListedWal(restorer[r].snap.at, restorer[r].target)
      BY DEF FilesKnown, Inside
    <2> QED
      BY <2>1, Types DEF ListedWal
  <1> DEFINE tk == Takes(snap, t)
             n == Len(es)
             b == Base(c, f, s)
  <1>1. t \in Nat /\ s \in Nat /\ s \in 0..t /\ (\A u \in Seconds : u \in Nat) /\ n \in Nat
    BY <1>a, Types DEF Seconds
  <1>2. Shown(c, t, tk, f)
    BY <1>a DEF ShownTo, TakesOf
  <1>3. /\ F \subseteq ListedWal(snap.at, t) /\ T \subseteq F
        /\ \A u \in 0..t : tk[u] # <<>> => u \in F
    BY <1>a DEF FilesKnown, TakesOf
  <1>4. /\ s \in F /\ g = Applied(b, SubSeq(o, 1, j)) /\ j + n <= Len(o)
        /\ \A i \in 1..j : o[i].ts <= t
        /\ \A i \in 1..n : es[i] = o[j + i]
        /\ j + n < Len(o) => o[j + n + 1].ts > t
        /\ \A u \in T : s < u
        /\ \A u \in (s + 1)..t : tk[u] # <<>> => u \in T
    BY <1>a, <1>b DEF Inside, Left, TakesOf
  <1>5. wal' = wal /\ restorer[r].pc = "entry"
    BY DEF ReplayEntry
  <1>6. b \in Seq(Queries) /\ Len(o) \in Nat /\ (\A i \in 1..Len(o) : o[i] \in Entry /\ o[i].ts \in Nat)
    <2>1. b \in Seq(Queries)
      <3>1. s \in 0..(t + 1)
        BY <1>1
      <3> QED
        BY <1>2, <3>1, BaseTyped
    <2> QED
      BY <2>1, EntryTimes
  <1> HIDE DEF tk, b
  <1>7. ASSUME restorer'[r].target = t, restorer'[r].snap = snap, restorer'[r].files = F,
               restorer'[r].todo = T
        PROVE  FilesKnown(r)' /\ TakesOf(r)' = tk
    <2>1. /\ TakesOf(r)' = tk
          /\ ListedWal(restorer[r].snap.at, restorer[r].target)' = ListedWal(snap.at, t)
      BY <1>5, <1>7, TakesOwn DEF tk
    <2> QED
      BY <1>3, <1>7, <2>1 DEF FilesKnown
  <1>8. ASSUME Cut(o, t, j)
        PROVE  g = Base(c, f, s + 1)
    <2>1. s \in ListedWal(snap.at, t)
      BY <1>3, <1>4
    <2>2. Base(snap.content, f, s + 1) =
             Applied(Base(snap.content, f, s), SubSeq(wal[s], 1, j))
      <3>1. Shown(snap.content, t, Takes(snap, t), f)
        BY <1>2, <1>a DEF tk
      <3>2. Cut(wal[s], t, j)
        BY <1>8, <1>b
      <3> QED
        BY <2>1, <3>1, <3>2, ObjectDone
    <2> QED
      BY <1>4, <1>a, <1>b, <2>2 DEF b
  <1>9. CASE es = <<>>
    <2>1. restorer' = [restorer EXCEPT ![r].pc = "file", ![r].entries = <<>>]
      BY <1>9, <1>a DEF ReplayEntry
    <2>2. /\ restorer'[r].pc = "file" /\ restorer'[r].todo = T /\ restorer'[r].files = F
          /\ restorer'[r].got = g /\ restorer'[r].target = t /\ restorer'[r].snap = snap
      BY <1>a, <2>1, WholeTyped, Types DEF RestorerState
    <2>3. FilesKnown(r)' /\ TakesOf(r)' = tk
      BY <1>7, <2>2
    <2>4. Cut(o, t, j)
      <3>1. n = 0 /\ j + n = j
        BY <1>9
      <3> QED
        BY <1>4, <1>6, <3>1 DEF Cut
    <2>5. Between(r, f, s + 1)'
      <3>1. restorer'[r].got = Base(c, f, s + 1)
        BY <1>8, <2>2, <2>4
      <3>2. \A u \in T : s + 1 <= u
        <4>1. ASSUME NEW u \in T PROVE s + 1 <= u
          <5>1. u \in Nat /\ s < u
            BY <1>1, <1>4
          <5> QED
            BY <1>1, <5>1
        <4> QED
          BY <4>1
      <3>3. Left(r, s + 1)'
        BY <1>4, <2>2, <2>3 DEF Left
      <3> QED
        BY <1>a, <2>2, <3>1, <3>2, <3>3 DEF Between
    <2>6. s + 1 \in 0..(t + 1)
      BY <1>1
    <2> QED
      BY <2>2, <2>3, <2>5, <2>6 DEF Seen
  <1>10. ASSUME es # <<>>
         PROVE  FilesKnown(r)' /\ Seen(r, f)'
    <2> DEFINE h == Head(es)
               fs == Tail(es)
    <2>1. /\ fs \in Seq(Entry) /\ Len(fs) = n - 1 /\ n > 0
          /\ \A i \in 1..(n - 1) : fs[i] = es[i + 1]
          /\ h = es[1]
      BY <1>10, TailAt
    <2> HIDE DEF h, fs
    <2>2. /\ j + 1 \in 1..Len(o) /\ h = o[j + 1] /\ h \in Entry /\ h.ts \in Nat /\ h.q \in Queries
          /\ h \in Values(o)
      <3>1. j + 1 \in 1..Len(o) /\ h = o[j + 1]
        BY <1>1, <1>4, <1>6, <2>1
      <3>2. h \in Entry /\ h.ts \in Nat /\ h \in Values(o)
        BY <1>6, <3>1 DEF Values
      <3> QED
        BY <3>1, <3>2 DEF Entry
    <2>3. CASE h.ts > t
      <3>1. restorer' = [restorer EXCEPT ![r].pc = "archive", ![r].entries = <<>>]
        <4>1. /\ restorer[r].entries # <<>> /\ ~ (Head(restorer[r].entries).ts <= restorer[r].target)
          BY <1>1, <1>10, <1>a, <2>2, <2>3 DEF h
        <4> QED
          BY <4>1 DEF ReplayEntry
      <3>2. /\ restorer'[r].pc = "archive" /\ restorer'[r].todo = T /\ restorer'[r].files = F
            /\ restorer'[r].got = g /\ restorer'[r].target = t /\ restorer'[r].snap = snap
        BY <1>a, <3>1, WholeTyped, Types DEF RestorerState
      <3>3. FilesKnown(r)'
        BY <1>7, <3>2
      <3>4. Cut(o, t, j)
        BY <1>4, <1>6, <2>2, <2>3 DEF Cut
      <3>5. Nothing(tk, s + 1, t + 1)
        <4>1. s \in Seconds
          BY <1>3, <1>4 DEF ListedWal
        <4> QED
          BY <1>b, <2>2, <2>3, <4>1, NothingBehind DEF tk
      <3>6. Base(c, f, t + 1) = Base(c, f, s + 1)
        <4>1. s + 1 \in Nat /\ t + 1 \in Nat /\ s + 1 <= t + 1 /\ t + 1 <= t + 1
          BY <1>1
        <4> QED
          BY <1>2, <3>5, <4>1, BaseSkips
      <3>7. restorer'[r].got = Base(c, f, t + 1)
        BY <1>8, <3>2, <3>4, <3>6
      <3> QED
        BY <1>a, <3>2, <3>3, <3>7 DEF Seen
    <2>4. CASE h.ts <= t
      <3>1. \/ /\ h.q \notin Refused
               /\ restorer' = [restorer EXCEPT ![r].entries = fs,
                                               ![r].got = Append(@, h.q)]
            \/ h.q \in Refused /\ restorer' = [restorer EXCEPT ![r].entries = fs]
        <4>1. /\ restorer[r].entries # <<>> /\ ~ (Head(restorer[r].entries).ts > restorer[r].target)
          BY <1>1, <1>10, <1>a, <2>2, <2>4 DEF h
        <4>2. \/ /\ Head(restorer[r].entries).q \notin Refused
                 /\ restorer' = [restorer EXCEPT ![r].entries = Tail(restorer[r].entries),
                               ![r].got = Append(@, Head(restorer[r].entries).q)]
              \/ /\ Head(restorer[r].entries).q \in Refused
                 /\ restorer' = [restorer EXCEPT ![r].entries = Tail(restorer[r].entries)]
          BY <4>1 DEF ReplayEntry
        <4> QED
          BY <1>a, <4>2 DEF h, fs
      <3> DEFINE k == IF h.q \in Refused THEN g ELSE Append(g, h.q)
      <3>2. /\ restorer'[r].pc = "entry" /\ restorer'[r].entries = fs
            /\ restorer'[r].todo = T /\ restorer'[r].files = F /\ restorer'[r].got = k
            /\ restorer'[r].target = t /\ restorer'[r].snap = snap
        BY <1>5, <1>a, <3>1, WholeTyped, Types DEF RestorerState
      <3>3. FilesKnown(r)' /\ TakesOf(r)' = tk
        BY <1>7, <3>2
      <3>4. k = Applied(b, SubSeq(o, 1, j + 1))
        <4>1. SubSeq(o, 1, j) \in Seq(Entry)
          BY <1>6, <2>2
        <4>2. SubSeq(o, 1, j + 1) = Append(SubSeq(o, 1, j), h)
          BY <1>6, <2>2
        <4>3. Applied(b, Append(SubSeq(o, 1, j), h)) =
                 IF h.q \in Refused THEN Applied(b, SubSeq(o, 1, j))
                 ELSE Append(Applied(b, SubSeq(o, 1, j)), h.q)
          BY <1>6, <2>2, <4>1, AppliedAppend
        <4> QED
          BY <1>4, <4>2, <4>3
      <3> HIDE DEF k
      <3>5. Inside(r, f, s, j + 1)'
        <4>1. (j + 1) + Len(fs) = j + n /\ (j + 1) + Len(fs) + 1 = j + n + 1
          BY <1>1, <2>1
        <4>2. \A i \in 1..(j + 1) : o[i].ts <= t
          BY <1>4, <1>6, <2>2, <2>4
        <4>3. \A i \in 1..Len(fs) : fs[i] = o[(j + 1) + i]
          <5>1. ASSUME NEW i \in 1..Len(fs)
                PROVE  fs[i] = o[(j + 1) + i]
            <6>1. fs[i] = es[i + 1] /\ i + 1 \in 1..n /\ j + (i + 1) = (j + 1) + i
              BY SMTT(30), <1>1, <2>1
            <6> QED
              BY <1>4, <6>1
          <5> QED
            BY <5>1
        <4>4. Left(r, s + 1)'
          BY <1>4, <3>2, <3>3 DEF Left
        <4>5. restorer'[r].got = Applied(Base(restorer'[r].snap.content, f, s), SubSeq(o, 1, j + 1))
          BY <1>a, <3>2, <3>4 DEF b
        <4>6. wal'[s] = o
          BY <1>5, <1>b
        <4> QED
          BY <1>4, <3>2, <4>1, <4>2, <4>3, <4>4, <4>5, <4>6 DEF Inside
      <3> QED
        BY <1>1, <3>2, <3>3, <3>5 DEF Seen
    <2> QED
      BY <1>1, <2>2, <2>3, <2>4
  <1> QED
    BY <1>9, <1>10

\* There is always a content to show.
LEMMA SeenExists ==
    ASSUME TypeInv, NEW r \in Restorers
    PROVE  \E f : ShownTo(r, f)
  <1>1. restorer[r].snap \in Snapshot /\ restorer[r].target \in Nat
    BY WholeTyped
  <1>2. PICK f : Shown(restorer[r].snap.content, restorer[r].target,
                       Takes(restorer[r].snap, restorer[r].target), f)
    BY <1>1, ViewsShown
  <1> QED
    BY <1>2 DEF ShownTo, TakesOf

-----------------------------------------------------------------------------
(* The steps of the others                                                  *)

LEMMA InsideStays ==
    ASSUME TypeInv, NEW r \in Restorers, restorer'[r] = restorer[r],
           Appended(restorer[r].target), TakesOf(r)' = TakesOf(r),
           NEW s \in Seconds, NEW j \in Nat, NEW f, Inside(r, f, s, j)
    PROVE  Inside(r, f, s, j)'
  <1>a. PICK t \in Nat, es \in Seq(Entry), o \in Seq(Entry) :
           t = restorer[r].target /\ es = restorer[r].entries /\ o = wal[s]
    BY WholeTyped, Types
  <1> DEFINE n == Len(es)
  <1>1. /\ n \in Nat /\ Len(o) \in Nat
        /\ s \in restorer[r].files
        /\ restorer[r].got = Applied(Base(restorer[r].snap.content, f, s), SubSeq(o, 1, j))
        /\ j + n <= Len(o) /\ \A i \in 1..j : o[i].ts <= t
        /\ \A i \in 1..n : es[i] = o[j + i]
        /\ j + n < Len(o) => o[j + n + 1].ts > t
        /\ \A u \in restorer[r].todo : s < u
        /\ Left(r, s + 1)
    <2>1. n \in Nat /\ Len(o) \in Nat
      OBVIOUS
    <2> HIDE DEF n
    <2>2. restorer[r].entries = es /\ wal[s] = o /\ restorer[r].target = t /\ n = Len(es)
      BY <1>a DEF n
    <2> QED
      BY <2>1, <2>2, Zenon DEF Inside
  <1>2. Left(r, s + 1)'
    BY <1>1 DEF Left
  <1>3. CASE wal'[s] = wal[s]
    BY <1>1, <1>2, <1>3, <1>a DEF Inside
  <1>4. ASSUME NEW e \in Entry, e.ts > t, wal'[s] = Append(o, e)
        PROVE  Inside(r, f, s, j)'
    <2> DEFINE p == Append(o, e)
    <2>1. /\ p \in Seq(Entry) /\ Len(p) = Len(o) + 1 /\ p[Len(o) + 1] = e
          /\ \A i \in 1..Len(o) : p[i] = o[i]
      BY AppendedAt
    <2> HIDE DEF p
    <2>2. SubSeq(p, 1, j) = SubSeq(o, 1, j)
      BY <1>1, <2>1
    <2>3. \A i \in 1..j : p[i].ts <= t
      <3>1. \A i \in 1..j : i \in 1..Len(o)
        BY <1>1
      <3> QED
        BY <1>1, <2>1, <3>1
    <2>4. \A i \in 1..n : es[i] = p[j + i]
      <3>1. \A i \in 1..n : j + i \in 1..Len(o)
        BY <1>1
      <3> QED
        BY <1>1, <2>1, <3>1
    <2>5. p[j + n + 1].ts > t
      <3>1. CASE j + n = Len(o)
        BY <1>4, <2>1, <3>1
      <3>2. CASE j + n < Len(o)
        <4>1. j + n + 1 \in 1..Len(o)
          BY <1>1, <3>2
        <4> QED
          BY <1>1, <2>1, <3>2, <4>1
      <3> QED
        BY <1>1, <3>1, <3>2
    <2>6. j + n <= Len(p)
      BY <1>1, <2>1
    <2>7. wal'[s] = p
      BY <1>4 DEF p
    <2> QED
      BY <1>1, <1>2, <1>a, <2>2, <2>3, <2>4, <2>5, <2>6, <2>7 DEF Inside
  <1> QED
    BY <1>3, <1>4, <1>a DEF Appended

LEMMA ViewOther ==
    ASSUME TypeInv, NEW r \in Restorers, ViewOf(r), Kept(r), restorer'[r] = restorer[r],
           UnderWay(r) => Appended(restorer[r].target)
    PROVE  ViewOf(r)'
  <1> SUFFICES ASSUME UnderWay(r)', restorer'[r].pc \in {"file", "entry", "archive"}
               PROVE  FilesKnown(r)' /\ \A f : ShownTo(r, f)' => Seen(r, f)'
    BY DEF ViewOf
  <1>a. PICK t \in Time, snap \in Snapshot :
           t = restorer[r].target /\ snap = restorer[r].snap
    BY WholeTyped
  <1>1. /\ UnderWay(r) /\ Appended(t) /\ FilesKnown(r)
        /\ \A f : ShownTo(r, f) => Seen(r, f)
    BY <1>a DEF Kept, ViewOf
  <1>2. /\ TakesOf(r)' = TakesOf(r)
        /\ ListedWal(restorer[r].snap.at, restorer[r].target)' = ListedWal(snap.at, t)'
    <2>1. restorer'[r].snap = snap /\ restorer'[r].target = t
      BY <1>a
    <2>2. /\ TakesOf(r)' = Takes(snap, t)'
          /\ ListedWal(restorer[r].snap.at, restorer[r].target)' = ListedWal(snap.at, t)'
      BY <2>1, TakesNext
    <2>3. Takes(snap, t)' = Takes(snap, t)
      BY <1>1, TakesStay
    <2> QED
      BY <1>a, <2>2, <2>3 DEF TakesOf
  <1>3. ListedWal(snap.at, t) \subseteq ListedWal(snap.at, t)'
    <2>1. ASSUME NEW s \in Seconds, wal[s] # <<>>
          PROVE  wal'[s] # <<>>
      <3>1. wal[s] \in Seq(Entry)
        BY Types
      <3>2. ASSUME NEW e \in Entry, wal'[s] = Append(wal[s], e)
            PROVE  wal'[s] # <<>>
        BY <3>1, <3>2
      <3> QED
        BY <1>1, <2>1, <3>2 DEF Appended
    <2> QED
      BY <2>1 DEF ListedWal
  <1>4. FilesKnown(r)'
    BY <1>1, <1>2, <1>3, <1>a DEF FilesKnown
  <1>5. ASSUME NEW f, ShownTo(r, f)'
        PROVE  Seen(r, f)'
    <2>1. Seen(r, f)
      BY <1>1, <1>2, <1>5 DEF ShownTo
    <2>2. \A k : Left(r, k)' <=> Left(r, k)
      BY <1>2 DEF Left
    <2>3. \A k : Between(r, f, k)' <=> Between(r, f, k)
      BY <2>2 DEF Between
    <2>4. ASSUME NEW s, NEW j \in Nat, Inside(r, f, s, j)
          PROVE  Inside(r, f, s, j)'
      <3>1. s \in Seconds
        BY <1>1, <2>4 DEF Inside, FilesKnown, ListedWal
      <3>2. Appended(restorer[r].target)
        BY <1>1, <1>a
      <3> QED
        BY <1>2, <2>4, <3>1, <3>2, InsideStays
    <2> QED
      BY <2>1, <2>3, <2>4 DEF Seen
  <1> QED
    BY <1>4, <1>5

\* Its own steps.
LEMMA ViewOwn ==
    ASSUME TypeInv, StampInv, SwapInv, NEW r \in Restorers, ViewOf(r), ReplayOf(r),
           Kept(r), RestoreStep(r), faults = 0, ~ Fault
    PROVE  ViewOf(r)'
  <1> SUFFICES ASSUME UnderWay(r)', restorer'[r].pc \in {"file", "entry", "archive"}
               PROVE  FilesKnown(r)' /\ \A f : ShownTo(r, f)' => Seen(r, f)'
    BY DEF ViewOf
  <1>1. Moves(r) /\ UnderWay(r)
    BY RestoreMoves DEF Kept
  <1>2. restorer'[r].target = restorer[r].target /\ restorer'[r].snap = restorer[r].snap
    BY DEF Kept
  <1>3. restorer[r].pc \in {"list", "file", "entry"}
    <2>1. restorer[r].pc \in {"idle", "acquire", "swap", "list", "file", "entry",
                              "archive", "delete", "release", "done"}
      BY Types DEF RestorerState
    <2>2. restorer[r].pc # "idle"
      BY DEF Kept, UnderWay, Replaced
    <2> QED
      BY <1>1, <2>1, <2>2 DEF Moves
  <1>4. CASE restorer[r].pc = "list"
    <2>1. ListWal(r)
      BY <1>4 DEF RestoreStep, FindSnapshot, AcquireRestore, Swap, ReadFile,
         ReplayEntry, Archived, DeleteWal, ReleaseRestore, RestoreFails
    <2>2. restorer[r].got = restorer[r].snap.content
      BY <1>1, <1>4 DEF ReplayOf
    <2> QED
      BY <2>1, <2>2, ViewList
  <1>5. ASSUME restorer[r].pc \in {"file", "entry"}
        PROVE  /\ wal' = wal /\ FilesKnown(r)
               /\ \A f : ShownTo(r, f)' <=> ShownTo(r, f)
               /\ \A f : ShownTo(r, f) => Seen(r, f)
    <2>1. wal' = wal
      BY <1>1, NoDelete, RestoreFrame
    <2>2. TakesOf(r)' = TakesOf(r)
      BY <1>2, <2>1, TakesOwn DEF TakesOf
    <2>3. FilesKnown(r) /\ \A f : ShownTo(r, f) => Seen(r, f)
      BY <1>1, <1>5 DEF ViewOf
    <2> QED
      BY <1>2, <2>1, <2>2, <2>3 DEF ShownTo
  <1>6. CASE restorer[r].pc = "file"
    <2>1. ReadFile(r)
      BY <1>6 DEF RestoreStep, FindSnapshot, AcquireRestore, Swap, ListWal,
         ReplayEntry, Archived, DeleteWal, ReleaseRestore, RestoreFails
    <2>2. ASSUME NEW f, ShownTo(r, f), Seen(r, f)
          PROVE  FilesKnown(r)' /\ Seen(r, f)'
      <3>1. PICK k \in 0..(restorer[r].target + 1) : Between(r, f, k)
        BY <1>6, <2>2 DEF Seen
      <3>2. k \in Nat /\ k <= restorer[r].target + 1
        BY WholeTyped
      <3> QED
        BY <1>5, <1>6, <2>1, <2>2, <3>1, <3>2, ViewRead
    <2>3. \E f : ShownTo(r, f)
      BY SeenExists
    <2> QED
      BY <1>5, <1>6, <2>2, <2>3
  <1>7. CASE restorer[r].pc = "entry"
    <2>1. ReplayEntry(r)
      BY <1>7 DEF RestoreStep, FindSnapshot, AcquireRestore, Swap, ListWal,
         ReadFile, Archived, DeleteWal, ReleaseRestore, RestoreFails
    <2>2. ASSUME NEW f, ShownTo(r, f), Seen(r, f)
          PROVE  FilesKnown(r)' /\ Seen(r, f)'
      <3>1. PICK s \in 0..restorer[r].target, j \in Nat : Inside(r, f, s, j)
        BY <1>7, <2>2 DEF Seen
      <3> QED
        BY <1>5, <1>7, <2>1, <2>2, <3>1, ViewEntry
    <2>3. \E f : ShownTo(r, f)
      BY SeenExists
    <2> QED
      BY <1>5, <1>7, <2>2, <2>3
  <1> QED
    BY <1>3, <1>4, <1>6, <1>7

LEMMA ViewInvStep ==
    ASSUME OneWorker, TypeInv, TypeInv', StampInv, SwapInv, PlanInv, ReplayInv,
           ViewInv, [Next]_vars
    PROVE  ViewInv'
  <1> SUFFICES ASSUME NEW r \in Restorers, UnderWay(r)'
               PROVE  ViewOf(r)'
    BY DEF ViewInv, ViewOf
  <1>1. faults = 0 /\ ~ Fault
    BY NoFault DEF UnderWay
  <1>2. ASSUME NEW t \in Time, FindSnapshot(r, t)
        PROVE  ViewOf(r)'
    <2>1. restorer'[r].pc = "acquire"
      BY <1>1, <1>2, RestoreMoves DEF Moves, RestoreStep, FindSnapshot
    <2> QED
      BY <2>1 DEF ViewOf
  <1>3. CASE Kept(r)
    <2>1. BehindTarget(r) /\ (UnderWay(r) => WalKnown(r))
      BY <1>3 DEF Kept, PlanInv
    <2>2. ASSUME UnderWay(r)
          PROVE  Appended(restorer[r].target)
      <3>1. PICK t \in Time : t = restorer[r].target
        BY WholeTyped
      <3>2. Behind(t)
        BY <2>1, <3>1 DEF BehindTarget, Behind
      <3>3. \A v \in Restorers : ~ DeleteWal(v)
        BY <2>2, NoDelete
      <3>4. PriorRead
        BY <2>1, <2>2 DEF WalKnown
      <3>5. Appended(t)
        BY <1>1, <3>2, <3>3, <3>4, AppendedBehind
      <3> QED
        BY <3>1, <3>5
    <2>3. CASE RestoreStep(r)
      BY <1>1, <1>3, <2>3, ViewOwn DEF ReplayInv, ViewInv
    <2>4. CASE restorer'[r] = restorer[r]
      BY <1>3, <2>2, <2>4, ViewOther DEF ViewInv
    <2>5. RestoreStep(r) \/ restorer'[r] = restorer[r]
      BY RestoreAlone, TickFrame, LeaseFrame, StutterFrame, SnapFrame, WorkerFrame
      DEF Next
    <2> QED
      BY <2>3, <2>4, <2>5
  <1> QED
    BY <1>2, <1>3, KeptOrFound

LEMMA ViewCorrect == ASSUME OneWorker PROVE Spec => []ViewInv
  <1>1. Init => ViewInv
    BY DEF Init, ViewInv, ViewOf, UnderWay
  <1>2. ASSUME TypeInv, TypeInv', StampInv, SwapInv, PlanInv, ReplayInv, ViewInv,
               [Next]_vars
        PROVE  ViewInv'
    BY <1>2, ViewInvStep
  <1> QED
    BY <1>1, <1>2, TypeInvCorrect, StampCorrect, SwapCorrect, PlanCorrect,
       ReplayCorrect, PTL DEF Spec

-----------------------------------------------------------------------------
(* The snapshot of a restore under way is the nearest still: one that comes  *)
(* later is dated later                                                      *)

NearestInv ==
    \A r \in Restorers : UnderWay(r) => restorer[r].snap \in Nearest(restorer[r].target)

LEMMA SnapsLater ==
    ASSUME [Next]_vars
    PROVE  snaps \subseteq snaps' /\ \A s \in snaps' : s \in snaps \/ s.at = now
  <1>1. ASSUME NEW p \in SnapReqs, SnapStep(p)
        PROVE  snaps \subseteq snaps' /\ \A s \in snaps' : s \in snaps \/ s.at = now
    BY <1>1 DEF SnapStep, SnapStart, SnapCopy, SnapSave, SnapFails, SnapRelease, storage
  <1> QED
    BY <1>1, TickFrame, LeaseFrame, StutterFrame, WorkerFrame, RestoreFrame DEF Next

LEMMA NearestInvStep ==
    ASSUME TypeInv, SwapInv, PlanInv, NearestInv, [Next]_vars
    PROVE  NearestInv'
  <1> SUFFICES ASSUME NEW r \in Restorers, UnderWay(r)'
               PROVE  (restorer[r].snap \in Nearest(restorer[r].target))'
    BY DEF NearestInv
  <1>1. ASSUME NEW t \in Time, FindSnapshot(r, t)
        PROVE  (restorer[r].snap \in Nearest(restorer[r].target))'
    <2>1. PICK s \in Nearest(t) :
             restorer' = [restorer EXCEPT ![r].pc = "acquire", ![r].snap = s,
                ![r].target = t, ![r].quiet = Quiet /\ t < now]
      BY <1>1 DEF FindSnapshot
    <2>2. restorer'[r].snap = s /\ restorer'[r].target = t
      BY <2>1, Types DEF RestorerState
    <2>3. snaps' = snaps
      BY <1>1 DEF FindSnapshot, storage
    <2> QED
      BY <2>2, <2>3 DEF Nearest
  <1>2. CASE Kept(r)
    <2>1. UnderWay(r) /\ restorer'[r].target = restorer[r].target
          /\ restorer'[r].snap = restorer[r].snap
      BY <1>2 DEF Kept
    <2>2. restorer[r].target < now /\ restorer[r].snap \in Nearest(restorer[r].target)
      BY <2>1 DEF PlanInv, BehindTarget, NearestInv
    <2>3. restorer[r].target \in Nat /\ now \in Nat
      BY WholeTyped, Clocks
    <2> QED
      BY <2>1, <2>2, <2>3, SnapsLater DEF Nearest
  <1> QED
    BY <1>1, <1>2, KeptOrFound

LEMMA NearestCorrect == ASSUME OneWorker PROVE Spec => []NearestInv
  <1>1. Init => NearestInv
    BY DEF Init, NearestInv, UnderWay
  <1> QED
    BY <1>1, NearestInvStep, TypeInvCorrect, SwapCorrect, PlanCorrect, PTL DEF Spec

-----------------------------------------------------------------------------
(* The WAL holds the queries that _is_mutating knows                         *)

DetectedInv ==
    /\ \A w \in Workers :
          /\ worker[w].pc # "idle" => worker[w].q \in Detected
          /\ \A e \in Values(worker[w].prior) : e.q \in Detected
    /\ \A s \in Seconds : \A e \in Values(wal[s]) : e.q \in Detected

LEMMA DetectedWorker ==
    ASSUME TypeInv, DetectedInv, NEW w \in Workers, WorkerStep(w)
    PROVE  DetectedInv'
  <1>0. /\ worker \in [Workers -> WorkerState] /\ worker[w] \in WorkerState
        /\ wal \in [Seconds -> Seq(Entry)]
    BY Types
  <1>1. ASSUME wal' = wal, NEW x, worker' = [worker EXCEPT ![w] = x],
               x.pc # "idle" => x.q \in Detected,
               \A e \in Values(x.prior) : e.q \in Detected
        PROVE  DetectedInv'
    BY <1>0, <1>1 DEF DetectedInv
  <1>2. \A conn : Resting(conn).pc = "idle" /\ Values(Resting(conn).prior) = {}
    BY ValuesEmpty DEF Resting
  <1>3. ASSUME NEW q \in Queries, Execute(w, q)
        PROVE  DetectedInv'
    <2>1. PICK conn : worker' = [worker EXCEPT ![w] =
              IF q \in Detected
              THEN [Resting(conn) EXCEPT !.pc = "stamp", !.q = q]
              ELSE Resting(conn)]
      BY <1>3 DEF Execute
    <2>2. [Resting(conn) EXCEPT !.pc = "stamp", !.q = q].q = q
          /\ [Resting(conn) EXCEPT !.pc = "stamp", !.q = q].prior = <<>>
      BY DEF Resting
    <2>3. wal' = wal
      BY <1>3 DEF Execute
    <2>4. CASE q \in Detected
      BY <1>1, <2>1, <2>2, <2>3, <2>4, ValuesEmpty
    <2>5. CASE q \notin Detected
      BY <1>1, <1>2, <2>1, <2>3, <2>5
    <2> QED
      BY <2>4, <2>5
  <1>4. ASSUME worker[w].pc # "idle", wal' = wal,
               \/ worker'[w].q = worker[w].q /\ worker'[w].prior = worker[w].prior
               \/ worker'[w].pc = "idle" /\ worker'[w].prior = <<>>,
               \A v \in Workers : v # w => worker'[v] = worker[v]
        PROVE  DetectedInv'
    BY <1>0, <1>4, ValuesEmpty DEF DetectedInv
  <1>5. CASE Stamp(w) \/ AcquireWal(w) \/ ReleaseWal(w)
    BY <1>0, <1>4, <1>5 DEF Stamp, AcquireWal, ReleaseWal, storage, Resting, WorkerState
  <1>6. CASE WorkerDies(w)
    <2>1. wal' = wal /\ worker' = [worker EXCEPT ![w] = Resting("none")]
      BY <1>6 DEF WorkerDies, storage
    <2> QED
      BY <1>1, <1>2, <2>1
  <1>7. CASE ReadPrior(w)
    <2>1. /\ wal' = wal /\ worker[w].pc = "read"
          /\ \E es : /\ es = wal[Floor(worker[w].ts)] \/ es = <<>>
                     /\ worker' = [worker EXCEPT ![w].pc = "upload", ![w].prior = es]
      BY <1>7 DEF ReadPrior, storage
    <2>2. PICK es : /\ es = wal[Floor(worker[w].ts)] \/ es = <<>>
                    /\ worker' = [worker EXCEPT ![w].pc = "upload", ![w].prior = es]
      BY <2>1
    <2>3. Floor(worker[w].ts) \in Seconds
      BY <1>0, FloorTyped DEF WorkerState
    <2>4. \A e \in Values(es) : e.q \in Detected
      BY <2>2, <2>3, ValuesEmpty DEF DetectedInv
    <2>5. /\ worker'[w].q = worker[w].q /\ worker'[w].prior = es
          /\ \A v \in Workers : v # w => worker'[v] = worker[v]
      BY <1>0, <2>2 DEF WorkerState
    <2> QED
      BY <1>0, <2>1, <2>4, <2>5 DEF DetectedInv
  <1>8. CASE Upload(w)
    <2>1. worker[w].pc = "upload" /\ worker' = [worker EXCEPT ![w].pc = "release"]
      BY <1>8 DEF Upload
    <2>2. /\ worker'[w].q = worker[w].q /\ worker'[w].prior = worker[w].prior
          /\ \A v \in Workers : v # w => worker'[v] = worker[v]
      BY <1>0, <2>1 DEF WorkerState
    <2>3. CASE wal' = wal
      BY <1>4, <2>1, <2>2, <2>3
    <2>4. CASE wal' # wal
      <3> DEFINE x == [q |-> worker[w].q, ts |-> worker[w].ts]
                 es == worker[w].prior
                 f == Floor(worker[w].ts)
      <3>1. wal' = [wal EXCEPT ![f] = Append(es, x)]
        BY <1>8, <2>4 DEF Upload
      <3>2. es \in Seq(Entry) /\ x.q \in Detected /\ x \in Entry
        BY <1>0, <2>1, PitrAssumption DEF WorkerState, DetectedInv, Entry
      <3>3. Values(Append(es, x)) \subseteq Values(es) \cup {x}
        <4> HIDE DEF x, es
        <4> QED
          BY <3>2, ValuesAppend
      <3>4. \A e \in Values(Append(es, x)) : e.q \in Detected
        BY <3>2, <3>3 DEF DetectedInv
      <3> HIDE DEF x, es, f
      <3>5. \A s \in Seconds : wal'[s] = wal[s] \/ wal'[s] = Append(es, x)
        BY <1>0, <3>1
      <3>6. \A s \in Seconds : \A e \in Values(wal'[s]) : e.q \in Detected
        BY <3>4, <3>5 DEF DetectedInv
      <3> QED
        BY <1>0, <2>1, <2>2, <3>6 DEF DetectedInv
    <2> QED
      BY <2>3, <2>4
  <1> QED
    BY <1>3, <1>5, <1>6, <1>7, <1>8 DEF WorkerStep

LEMMA DetectedInvStep ==
    ASSUME TypeInv, DetectedInv, [Next]_vars
    PROVE  DetectedInv'
  <1>0. worker \in [Workers -> WorkerState] /\ wal \in [Seconds -> Seq(Entry)]
    BY Types
  <1>1. ASSUME UNCHANGED <<wal, worker>>
        PROVE  DetectedInv'
    BY <1>1 DEF DetectedInv
  <1>2. ASSUME NEW r \in Restorers, RestoreStep(r)
        PROVE  DetectedInv'
    <2>1. ASSUME NEW w \in Workers
          PROVE  /\ worker'[w].pc = worker[w].pc /\ worker'[w].q = worker[w].q
                 /\ worker'[w].prior = worker[w].prior
      <3>1. worker[w] \in WorkerState
        BY <1>0
      <3>2. CASE Swap(r)
        <4>1. worker'[w] = [worker[w] EXCEPT !.conn = IF @ = "path" THEN "moved" ELSE @]
          BY <3>2 DEF Swap
        <4> QED
          BY <3>1, <4>1 DEF WorkerState
      <3> QED
        BY <1>2, <3>2, RestoreFrame
    <2>2. ASSUME NEW s \in Seconds
          PROVE  wal'[s] = wal[s] \/ wal'[s] = <<>>
      <3>1. CASE DeleteWal(r)
        BY <1>0, <3>1 DEF DeleteWal
      <3> QED
        BY <1>2, <3>1, RestoreFrame
    <2> QED
      BY <2>1, <2>2, ValuesEmpty DEF DetectedInv
  <1> QED
    BY <1>1, <1>2, DetectedWorker, TickFrame, LeaseFrame, StutterFrame, SnapFrame DEF Next

LEMMA DetectedCorrect == Spec => []DetectedInv
  <1>1. Init => DetectedInv
    BY ValuesEmpty DEF Init, DetectedInv, Resting
  <1> QED
    BY <1>1, DetectedInvStep, TypeInvCorrect, PTL DEF Spec

-----------------------------------------------------------------------------
(* A window counts the entries of each of its objects                       *)

LEMMA EntriesFinite ==
    ASSUME TypeInv, NEW files \in SUBSET Seconds, NEW Q
    PROVE  IsFiniteSet(EntriesOf(files, Q))
  <1> DEFINE A(s) == {<<s, i>> : i \in {j \in DOMAIN wal[s] : wal[s][j].q \in Q}}
             h == [s \in files |-> A(s)]
             T == {A(s) : s \in files}
  <1>1. IsFiniteSet(files)
    <2>1. IsFiniteSet(0..MaxTime)
      BY PitrAssumption, FS_Interval
    <2>2. files \subseteq 0..MaxTime
      BY DEF Seconds, Time
    <2> QED
      BY <2>1, <2>2, FS_Subset
  <1>2. ASSUME NEW s \in files
        PROVE  IsFiniteSet(A(s))
    <2>1. wal[s] \in Seq(Entry)
      BY Types
    <2>2. Len(wal[s]) \in Int /\ DOMAIN wal[s] = 1..Len(wal[s])
      BY <2>1
    <2>3. IsFiniteSet(1..Len(wal[s]))
      BY <2>2, FS_Interval
    <2>4. IsFiniteSet({s} \X (1..Len(wal[s])))
      BY <2>3, FS_Singleton, FS_Product
    <2>5. A(s) \subseteq {s} \X (1..Len(wal[s]))
      BY <2>2
    <2> HIDE DEF A
    <2> QED
      BY <2>4, <2>5, FS_Subset
  <1>3. h \in Surjection(files, T)
    <2> HIDE DEF A
    <2> QED
      BY DEF Surjection
  <1>4. IsFiniteSet(T)
    <2> HIDE DEF h, T
    <2> QED
      BY <1>1, <1>3, FS_Surjection DEF Surjection
  <1>5. \A x \in T : IsFiniteSet(x)
    <2> HIDE DEF A
    <2> QED
      BY <1>2
  <1>6. IsFiniteSet(UNION T)
    <2> HIDE DEF T
    <2> QED
      BY <1>4, <1>5, FS_UNION
  <1> QED
    BY <1>6 DEF EntriesOf

LEMMA EntriesCounted ==
    ASSUME TypeInv, DetectedInv, NEW files \in SUBSET Seconds, NEW s \in files
    PROVE  TypesOf(files).mutating >= Len(wal[s])
  <1> DEFINE n == Len(wal[s])
             f == [i \in 1..n |-> <<s, i>>]
             B == {<<s, i>> : i \in 1..n}
             E == EntriesOf(files, Detected)
  <1>1. wal[s] \in Seq(Entry) /\ n \in Nat /\ DOMAIN wal[s] = 1..n
    BY Types
  <1>2. B \subseteq E
    <2>1. \A i \in 1..n : wal[s][i].q \in Detected
      BY <1>1 DEF DetectedInv, Values
    <2> QED
      BY <1>1, <2>1 DEF EntriesOf
  <1>3. f \in Bijection(1..n, B)
    BY DEF Bijection, Injection, IsInjective, Surjection
  <1> HIDE DEF f, B
  <1>4. IsFiniteSet(1..n) /\ Cardinality(1..n) = n
    <2>1. 1 \in Int /\ n \in Int
      BY <1>1
    <2>2. IsFiniteSet(1..n) /\ Cardinality(1..n) = IF 1 > n THEN 0 ELSE n - 1 + 1
      BY <2>1, FS_Interval
    <2> QED
      BY <1>1, <2>2
  <1>5. Cardinality(B) = n
    <2>1. ExistsBijection(1..n, B)
      BY <1>3 DEF ExistsBijection
    <2> QED
      BY <1>4, <2>1, FS_Bijection DEF ExistsBijection
  <1>6. IsFiniteSet(E)
    BY EntriesFinite
  <1> HIDE DEF E
  <1>7. Cardinality(B) <= Cardinality(E)
    BY <1>2, <1>6, FS_Subset
  <1> QED
    BY <1>5, <1>7 DEF TypesOf, E

-----------------------------------------------------------------------------
(* The theorems                                                             *)

\* A restore whose replay is over is where the preview and the branch end.
LEMMA ForetellsNow ==
    ASSUME TypeInv, ViewInv, NearestInv, NEW r \in Restorers, Undisturbed(r)
    PROVE  /\ UnderWay(r) /\ FilesKnown(r)
           /\ restorer[r].snap \in Nearest(restorer[r].target)
           /\ \E f : /\ ShownTo(r, f)
                     /\ restorer[r].got =
                           Base(restorer[r].snap.content, f, restorer[r].target + 1)
                     /\ PreviewOf(restorer[r].snap, restorer[r].target) = restorer[r].got
                     /\ BranchOf(restorer[r].snap, restorer[r].target) = restorer[r].got
  <1>1. UnderWay(r) /\ restorer[r].pc = "archive"
    BY DEF Undisturbed, UnderWay
  <1>2. FilesKnown(r) /\ \A f : ShownTo(r, f) => Seen(r, f)
    BY <1>1 DEF ViewInv, ViewOf
  <1>3. restorer[r].snap \in Snapshot /\ restorer[r].target \in Nat
    BY WholeTyped
  <1> DEFINE c == restorer[r].snap.content
             t == restorer[r].target
  <1>4. PICK f : /\ Shown(c, t, Takes(restorer[r].snap, t), f)
                 /\ PreviewOf(restorer[r].snap, t) = Base(c, f, t + 1)
                 /\ BranchOf(restorer[r].snap, t) = Base(c, f, t + 1)
    BY <1>3, ViewsShown
  <1>5. ShownTo(r, f)
    BY <1>4 DEF ShownTo, TakesOf
  <1>6. restorer[r].got = Base(c, f, t + 1)
    BY <1>1, <1>2, <1>5 DEF Seen
  <1> QED
    BY <1>1, <1>2, <1>4, <1>5, <1>6 DEF NearestInv

\* With one worker, what a preview of the target shows and what a branch of the
\* target holds is what an undisturbed restore to it produced, whatever is in
\* the objects: _replay_wal_files, which gives up at the first entry after the
\* target, has missed none of what the loops of PreviewDatabasePITRUseCase and
\* CreateBranchUseCase go on to.
THEOREM PreviewsAreExact == ASSUME OneWorker PROVE Spec => []PreviewForetells
  <1>1. ASSUME TypeInv, ViewInv, NearestInv
        PROVE  PreviewForetells
    BY <1>1, ForetellsNow DEF PreviewForetells, Previews, Branches
  <1> QED
    BY <1>1, TypeInvCorrect, ViewCorrect, NearestCorrect, PTL

LEMMA ReplayedFrom ==
    ASSUME TypeInv, NEW r \in Restorers, FilesKnown(r), NEW f, ShownTo(r, f),
           NEW q \in Values(Base(restorer[r].snap.content, f, restorer[r].target + 1)),
           q \notin Values(restorer[r].snap.content)
    PROVE  \E s \in restorer[r].files : q \in {e.q : e \in Values(wal[s])}
  <1>a. PICK t \in Time, snap \in Snapshot :
           t = restorer[r].target /\ snap = restorer[r].snap
    BY WholeTyped
  <1>0. t \in Nat
    BY Types
  <1> DEFINE tk == Takes(snap, t)
  <1>1. Shown(snap.content, t, tk, f)
    BY <1>a DEF ShownTo, TakesOf
  <1>2. q \in Values(Base(snap.content, f, t + 1)) /\ q \notin Values(snap.content)
    BY <1>a
  <1>3. PICK s \in 0..t : \E e \in Values(tk[s]) : e.q = q
    <2> HIDE DEF tk
    <2> QED
      BY <1>1, <1>2, BaseValues
  <1>4. tk[s] # <<>>
    BY <1>3, ValuesEmpty
  <1>5. /\ tk[s] = TakenFrom(snap, t, s) /\ s \in ListedWal(snap.at, t)
        /\ wal[s] \in Seq(Entry)
    BY <1>4, TakenListed
  <1>6. s \in restorer[r].files
    BY <1>4, <1>a DEF FilesKnown, TakesOf
  <1>7. Values(tk[s]) \subseteq Values(wal[s])
    <2>1. PICK m \in Nat : Cut(wal[s], t, m)
      BY <1>0, <1>5, CutExists
    <2>2. UpTo(wal[s], t) = SubSeq(wal[s], 1, m)
      BY <1>0, <1>5, <2>1, CutIsUpTo
    <2>3. tk[s] = SubSeq(wal[s], 1, m)
      BY <1>5, <2>2 DEF TakenFrom
    <2>4. m <= Len(wal[s]) /\ Len(wal[s]) \in Nat
      BY <1>5, <2>1 DEF Cut
    <2>5. Values(SubSeq(wal[s], 1, m)) \subseteq Values(wal[s])
      BY <1>5, <2>4 DEF Values
    <2> QED
      BY <2>3, <2>5
  <1> HIDE DEF tk
  <1> QED
    BY <1>3, <1>6, <1>7

\* With one worker, the plan of ListDatabasePITRUseCase over the whole history
\* names the snapshot and the objects that an undisturbed restore replayed, and
\* the window of each object counts at least its entries.
THEOREM PlansAreExact == ASSUME OneWorker PROVE Spec => []PlanIsReplayed
  <1>1. ASSUME TypeInv, PlanInv, ViewInv, NearestInv, DetectedInv
        PROVE  PlanIsReplayed
    <2> SUFFICES ASSUME NEW r \in Restorers, Undisturbed(r)
                 PROVE  LET t == restorer[r].target
                            replayed == Values(restorer[r].got)
                                           \ Values(restorer[r].snap.content)
                            line == Timeline(0, now)
                        IN  \E p \in Plan(0, now, t) :
                              /\ p.snap.at = restorer[r].snap.at
                              /\ restorer[r].files \subseteq p.files
                              /\ \A q \in replayed : \E s \in restorer[r].files :
                                    q \in {e.q : e \in Values(wal[s])}
                              /\ \A s \in p.files :
                                    line[WindowStart(s)].types.mutating >= Len(wal[s])
      BY DEF PlanIsReplayed
    <2>a. PICK t \in Nat, snap \in Snapshot :
             t = restorer[r].target /\ snap = restorer[r].snap
      BY <1>1, WholeTyped
    <2>1. UnderWay(r) /\ FilesKnown(r) /\ snap \in Nearest(t)
      BY <1>1, <2>a, ForetellsNow
    <2>2. t < now /\ now \in Nat /\ snap.at \in Nat
      <3>1. t < now
        BY <1>1, <2>1, <2>a DEF PlanInv, BehindTarget
      <3> QED
        BY <1>1, <2>a, <3>1, Clocks, WholeTyped
    <2> DEFINE F == {u \in ListedWal(0, now) : snap.at <= u /\ u <= t}
               p == [snap |-> snap, files |-> F]
    <2>3. p \in Plan(0, now, t)
      <3>1. snap \in snaps /\ snap.at <= t
            /\ \A u \in snaps : u.at <= t => u.at <= snap.at
        BY <2>1 DEF Nearest
      <3>2. snap \in ListedSnapshots(0, now)
        BY <2>2, <3>1 DEF ListedSnapshots
      <3> DEFINE old == {u \in ListedSnapshots(0, now) : u.at <= t}
      <3>3. snap \in {u \in old : \A v \in old : v.at <= u.at}
        BY <3>1, <3>2 DEF ListedSnapshots
      <3> QED
        BY <3>3 DEF Plan
    <2>4. restorer[r].files \subseteq F
      <3>1. \A u \in Seconds : u \in Nat
        BY <1>1, Types DEF Seconds
      <3>2. restorer[r].files \subseteq ListedWal(snap.at, t)
        BY <2>1, <2>a DEF FilesKnown
      <3> QED
        BY <2>2, <3>1, <3>2 DEF ListedWal
    <2>5. ASSUME NEW q \in Values(restorer[r].got), q \notin Values(snap.content)
          PROVE  \E s \in restorer[r].files : q \in {e.q : e \in Values(wal[s])}
      <3>1. PICK f : /\ ShownTo(r, f)
                     /\ restorer[r].got =
                           Base(restorer[r].snap.content, f, restorer[r].target + 1)
        BY <1>1, ForetellsNow
      <3> QED
        BY <1>1, <2>1, <2>5, <2>a, <3>1, ReplayedFrom
    <2>6. ASSUME NEW s \in F
          PROVE  Timeline(0, now)[WindowStart(s)].types.mutating >= Len(wal[s])
      <3> DEFINE listed == ListedWal(0, now)
                 within == {u \in listed : WindowStart(u) = WindowStart(s)}
      <3>1. s \in within /\ within \subseteq Seconds
        BY DEF ListedWal
      <3>2. Timeline(0, now)[WindowStart(s)] = WindowOf(within)
        BY <3>1 DEF Timeline
      <3>3. TypesOf(within).mutating >= Len(wal[s])
        <4> HIDE DEF within
        <4> QED
          BY <1>1, <3>1, EntriesCounted
      <3> QED
        BY <3>2, <3>3 DEF WindowOf
    <2> QED
      <3>1. p.snap.at = restorer[r].snap.at /\ p.files = F
        BY <2>a
      <3> HIDE DEF p, F
      <3> QED
        BY <2>3, <2>4, <2>5, <2>6, <2>a, <3>1
  <1> QED
    BY <1>1, TypeInvCorrect, PlanCorrect, ViewCorrect, NearestCorrect, DetectedCorrect, PTL
=============================================================================
