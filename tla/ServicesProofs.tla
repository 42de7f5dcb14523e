---------------------------- MODULE ServicesProofs ---------------------------
(***************************************************************************)
(* Proofs about the lock, for any requests, timeouts and extensions, about *)
(* the catalog of queries, for any number of processes and any limit,      *)
(* about the stream of events, for any readers, batch and length of the    *)
(* stream, and about the checkout, for any workers and files.              *)
(***************************************************************************)
EXTENDS RedisLock, EventStream, QueryCatalog, Checkout, FiniteSetTheorems, SequenceTheorems, TLAPS

-----------------------------------------------------------------------------
(* The lock.  A key lives at least as long as its holder was promised, so   *)
(* nobody else gets it within the lease.                                    *)

\* A request between the calls of extend_lock has been counted.
ExtendsCounted ==
    \A c \in Requests :
        pc[c] \in {"ttl", "expire"} => byExtend[c] > 0 /\ extends > 0

\* A key that exists has time left.
KeyAlive == owner # NoOne => ttl > 0

LeaseInv == LockTypeOK /\ ExtendsCounted /\ KeyAlive /\ LeaseHonoured

LEMMA LessIsNat == ASSUME NEW n \in Nat PROVE Less(n) \in Nat
  BY DEF Less

LEMMA LeaseInvStep ==
    ASSUME LeaseInv, [LockNext]_lockVars
    PROVE  LeaseInv'
  <1> USE LockAssumption
      DEF LeaseInv, LockTypeOK, LockPC, ExtendsCounted, KeyAlive, LeaseHonoured,
          Holds
  <1>1. ASSUME NEW c \in Requests, NEW s \in Timeouts, AcquireLock(c, s)
        PROVE  LeaseInv'
    BY <1>1 DEF AcquireLock
  <1>2. ASSUME NEW c \in Requests, ReleaseLock(c)
        PROVE  LeaseInv'
    BY <1>2 DEF ReleaseLock
  <1>3. ASSUME NEW c \in Requests, NEW s \in Extensions, ExtendGet(c, s)
        PROVE  LeaseInv'
    BY <1>3 DEF ExtendGet
  <1>4. ASSUME NEW c \in Requests, ExtendTtl(c)
        PROVE  LeaseInv'
    BY <1>4 DEF ExtendTtl
  <1>5. ASSUME NEW c \in Requests, ExtendExpire(c)
        PROVE  LeaseInv'
    BY <1>5 DEF ExtendExpire
  <1>6. ASSUME NEW c \in Requests, Crash(c)
        PROVE  LeaseInv'
    BY <1>6 DEF Crash
  <1>7. CASE Tick
    BY <1>7, LessIsNat DEF Tick, Less
  <1>8. CASE UNCHANGED lockVars
    BY <1>8 DEF lockVars
  <1> QED
    BY <1>1, <1>2, <1>3, <1>4, <1>5, <1>6, <1>7, <1>8 DEF LockNext, Request

LEMMA LeaseInvCorrect == LockSpec => []LeaseInv
  <1>1. LockInit => LeaseInv
    BY LockAssumption
    DEF LockInit, LeaseInv, LockTypeOK, LockPC, ExtendsCounted, KeyAlive,
        LeaseHonoured, Holds
  <1>2. LeaseInv /\ [LockNext]_lockVars => LeaseInv'
    BY LeaseInvStep
  <1> QED
    BY <1>1, <1>2, PTL DEF LockSpec

\* Typing of the lock.
THEOREM LockTyped == LockSpec => []LockTypeOK
  BY LeaseInvCorrect, PTL DEF LeaseInv

\* The key of a holder lives as long as the holder was promised.
THEOREM LeasesHonoured == LockSpec => []LeaseHonoured
  BY LeaseInvCorrect, PTL DEF LeaseInv

\* Two requests never hold the lock together within their leases.
THEOREM MutualExclusion == LockSpec => []LeaseExclusion
  <1>1. LeaseInv => LeaseExclusion
    BY LockAssumption DEF LeaseInv, LeaseHonoured, LeaseExclusion
  <1> QED
    BY <1>1, LeaseInvCorrect, PTL

\* Nobody's late release takes the lock away from the next holder.
THEOREM ReleaseIsSafe == LockSpec => OnlyHolderReleases
  <1> DEFINE A == owner # NoOne /\ owner' # owner =>
                     ttl = 1 \/ (pc[owner] = "held" /\ pc'[owner] = "released")
  <1>1. LeaseInv /\ [LockNext]_lockVars => [A]_lockVars
    <2> SUFFICES ASSUME LeaseInv, LockNext, owner # NoOne, owner' # owner
                 PROVE  ttl = 1 \/ (pc[owner] = "held" /\ pc'[owner] = "released")
      OBVIOUS
    <2>1. CASE Tick
      BY <2>1 DEF Tick, Less, LeaseInv, LockTypeOK, KeyAlive
    <2>2. ASSUME NEW c \in Requests, Request(c)
          PROVE  pc[owner] = "held" /\ pc'[owner] = "released"
      BY <2>2 DEF Request, AcquireLock, ReleaseLock, ExtendGet, ExtendTtl,
         ExtendExpire, Crash, LeaseInv, LockTypeOK
    <2> QED
      BY <2>1, <2>2 DEF LockNext
  <1> QED
    BY <1>1, LeaseInvCorrect, PTL DEF LockSpec, OnlyHolderReleases

-----------------------------------------------------------------------------
(* The catalog.  A process that has counted its favourites and not inserted *)
(* yet stands for a row to come: rows and processes of this kind together   *)
(* are fewer than the limit and the processes, since one that counts finds  *)
(* fewer rows than the limit and the others are fewer than the processes.   *)

Inserting == {p \in Processes : adder[p].pc = "insert"}

CatalogInv ==
    /\ CatalogTypeOK
    /\ IsFiniteSet(favorites)
    /\ Cardinality(favorites) + Cardinality(Inserting)
            < Limit + Cardinality(Processes)

LEMMA InsertingFinite ==
    ASSUME CatalogTypeOK
    PROVE  /\ IsFiniteSet(Inserting) /\ Cardinality(Inserting) \in Nat
           /\ Cardinality(Inserting) <= Cardinality(Processes)
           /\ Cardinality(Processes) \in Nat
           /\ \A p \in Processes : p \notin Inserting =>
                 Cardinality(Inserting) < Cardinality(Processes)
  <1>1. Inserting \in SUBSET Processes
    BY DEF Inserting
  <1>2. IsFiniteSet(Processes)
    BY CatalogAssumption
  <1>3. /\ IsFiniteSet(Inserting)
        /\ Cardinality(Inserting) <= Cardinality(Processes)
        /\ Cardinality(Inserting) = Cardinality(Processes) => Processes = Inserting
    BY <1>1, <1>2, FS_Subset
  <1>4. Cardinality(Inserting) \in Nat /\ Cardinality(Processes) \in Nat
    BY <1>2, <1>3, FS_CardinalityType
  <1> QED
    BY <1>3, <1>4

LEMMA CatalogInvInit == CatalogInit => CatalogInv
  <1> SUFFICES ASSUME CatalogInit PROVE CatalogInv
    OBVIOUS
  <1>1. CatalogTypeOK
    BY CatalogAssumption DEF CatalogInit, CatalogTypeOK, Idle, Bookmark
  <1>2. Inserting = {} /\ favorites = {}
    BY DEF CatalogInit, Inserting, Idle
  <1>3. Cardinality(Processes) \in Nat /\ Limit \in Nat \ {0}
    BY <1>1, InsertingFinite, CatalogAssumption
  <1> QED
    BY <1>1, <1>2, <1>3, FS_EmptySet DEF CatalogInv

LEMMA CatalogTyped ==
    ASSUME CatalogTypeOK, [CatalogNext]_catalogVars
    PROVE  CatalogTypeOK'
  <1> USE CatalogAssumption DEF CatalogTypeOK
  <1>1. ASSUME NEW t \in Texts, RecordUsage(t)
        PROVE  CatalogTypeOK'
    BY <1>1 DEF RecordUsage
  <1>2. ASSUME NEW p \in Processes, NEW t \in Texts, AddFavorite(p, t)
        PROVE  CatalogTypeOK'
    BY <1>2 DEF AddFavorite
  <1>3. ASSUME NEW p \in Processes, CountFavorites(p)
        PROVE  CatalogTypeOK'
    BY <1>3 DEF CountFavorites, Idle
  <1>4. ASSUME NEW p \in Processes, InsertFavorite(p)
        PROVE  CatalogTypeOK'
    BY <1>4 DEF InsertFavorite, Idle
  <1>5. ASSUME NEW p \in Processes, AddFails(p)
        PROVE  CatalogTypeOK'
    BY <1>5 DEF AddFails, Idle
  <1>6. ASSUME NEW f \in Forms, RemoveFavorite(f)
        PROVE  CatalogTypeOK'
    BY <1>6 DEF RemoveFavorite
  <1>7. ASSUME NEW n \in Names, NEW t \in Instants, SetBookmark(n, t)
        PROVE  CatalogTypeOK'
    BY <1>7 DEF SetBookmark, Bookmark
  <1>8. ASSUME NEW n \in Names, DeleteBookmark(n)
        PROVE  CatalogTypeOK'
    BY <1>8 DEF DeleteBookmark
  <1>9. CASE UNCHANGED catalogVars
    BY <1>9 DEF catalogVars
  <1> QED
    BY <1>1, <1>2, <1>3, <1>4, <1>5, <1>6, <1>7, <1>8, <1>9 DEF CatalogNext

LEMMA CatalogInvStep ==
    ASSUME CatalogInv, [CatalogNext]_catalogVars
    PROVE  CatalogInv'
  <1> DEFINE F == Cardinality(favorites)
             I == Cardinality(Inserting)
             P == Cardinality(Processes)
  <1>1. CatalogTypeOK /\ CatalogTypeOK'
    BY CatalogTyped DEF CatalogInv
  <1>2. /\ IsFiniteSet(favorites) /\ F \in Nat /\ F + I < Limit + P
        /\ Limit \in Nat \ {0}
    BY FS_CardinalityType, CatalogAssumption DEF CatalogInv
  <1>3. /\ IsFiniteSet(Inserting) /\ I \in Nat /\ P \in Nat /\ I <= P
        /\ \A p \in Processes : p \notin Inserting => I < P
    BY <1>1, InsertingFinite
  <1>4. SUFFICES /\ IsFiniteSet(favorites')
                 /\ Cardinality(favorites') + Cardinality(Inserting') < Limit + P
    BY <1>1 DEF CatalogInv
  <1>5. CASE favorites' = favorites /\ Inserting' = Inserting
    BY <1>2, <1>5
  <1>6. ASSUME NEW p \in Processes, adder[p].pc # "insert",
               adder' = [adder EXCEPT ![p] = Idle] \/
               \E f \in Forms : adder' = [adder EXCEPT ![p] =
                                            [pc |-> "count", form |-> f]]
        PROVE  Inserting' = Inserting
    BY <1>1, <1>6 DEF Inserting, Idle, CatalogTypeOK
  <1>7. ASSUME NEW p \in Processes, adder[p].pc = "insert",
               adder' = [adder EXCEPT ![p] = Idle]
        PROVE  Cardinality(Inserting') = I - 1
    <2>1. Inserting' = Inserting \ {p} /\ p \in Inserting
      BY <1>1, <1>7 DEF Inserting, Idle, CatalogTypeOK
    <2> QED
      BY <1>3, <2>1, FS_RemoveElement
  <1>8. ASSUME NEW p \in Processes, NEW t \in Texts, AddFavorite(p, t)
        PROVE  Inserting' = Inserting /\ favorites' = favorites
    <2>1. FormOf[t] \in Forms
      BY <1>8, CatalogAssumption DEF AddFavorite
    <2> QED
      BY <1>6, <1>8, <2>1 DEF AddFavorite
  <1>9. ASSUME NEW p \in Processes, CountFavorites(p)
        PROVE  /\ IsFiniteSet(favorites')
               /\ Cardinality(favorites') + Cardinality(Inserting') < Limit + P
    <2>1. CASE F >= Limit
      BY <1>2, <1>5, <1>6, <1>9, <2>1 DEF CountFavorites
    <2>2. CASE ~(F >= Limit)
      <3>1. /\ Inserting' = Inserting \cup {p} /\ p \notin Inserting
            /\ favorites' = favorites
        BY <1>1, <1>9, <2>2 DEF CountFavorites, Inserting, CatalogTypeOK
      <3>2. Cardinality(Inserting') = I + 1
        BY <1>3, <3>1, FS_AddElement
      <3>3. I < P
        BY <1>3, <3>1
      <3> QED
        BY <1>2, <1>3, <2>2, <3>1, <3>2, <3>3
    <2> QED
      BY <2>1, <2>2
  <1>10. ASSUME NEW p \in Processes, InsertFavorite(p)
         PROVE  /\ IsFiniteSet(favorites')
                /\ Cardinality(favorites') + Cardinality(Inserting') < Limit + P
    <2>1. Cardinality(Inserting') = I - 1
      BY <1>7, <1>10 DEF InsertFavorite
    <2>2. /\ IsFiniteSet(favorites')
          /\ Cardinality(favorites') \in {F, F + 1}
      <3>1. favorites' = favorites \cup {adder[p].form}
        BY <1>10 DEF InsertFavorite
      <3> QED
        BY <1>2, <3>1, FS_AddElement
    <2> QED
      BY <1>2, <1>3, <2>1, <2>2
  <1>11. ASSUME NEW p \in Processes, AddFails(p)
         PROVE  /\ IsFiniteSet(favorites')
                /\ Cardinality(favorites') + Cardinality(Inserting') < Limit + P
    <2>1. CASE adder[p].pc = "insert"
      <3>1. Cardinality(Inserting') = I - 1
        BY <1>7, <1>11, <2>1 DEF AddFails
      <3>2. favorites' = favorites
        BY <1>11 DEF AddFails
      <3> QED
        BY <1>2, <1>3, <3>1, <3>2
    <2>2. CASE adder[p].pc # "insert"
      BY <1>5, <1>6, <1>11, <2>2 DEF AddFails
    <2> QED
      BY <2>1, <2>2
  <1>12. ASSUME NEW f \in Forms, RemoveFavorite(f)
         PROVE  /\ IsFiniteSet(favorites')
                /\ Cardinality(favorites') + Cardinality(Inserting') < Limit + P
    <2>1. Inserting' = Inserting /\ favorites' = favorites \ {f} /\ f \in favorites
      BY <1>12 DEF RemoveFavorite, Inserting
    <2>2. IsFiniteSet(favorites') /\ Cardinality(favorites') = F - 1
      BY <1>2, <2>1, FS_RemoveElement
    <2> QED
      BY <1>2, <1>3, <2>1, <2>2
  <1>13. ASSUME \/ \E t \in Texts : RecordUsage(t)
                \/ \E n \in Names : (\E t \in Instants : SetBookmark(n, t))
                                        \/ DeleteBookmark(n)
                \/ UNCHANGED catalogVars
         PROVE  Inserting' = Inserting /\ favorites' = favorites
    BY <1>13 DEF RecordUsage, SetBookmark, DeleteBookmark, catalogVars, Inserting
  <1> QED
    BY <1>5, <1>8, <1>9, <1>10, <1>11, <1>12, <1>13 DEF CatalogNext

\* The tables of the catalog hold queries that have a text, and processes are in
\* the middle of adding one of these (add_favorite, increment_usage).
THEOREM CatalogStaysTyped == CatalogSpec => []CatalogTypeOK
  <1>1. CatalogInv => CatalogTypeOK
    BY DEF CatalogInv
  <1> QED
    BY <1>1, CatalogInvInit, CatalogInvStep, PTL DEF CatalogSpec

\* However add_favorite runs in several processes at once, a database has fewer
\* favourites than the limit and the processes together: at most the limit when
\* there is one process.
THEOREM FavoritesStayBounded == CatalogSpec => []FavoritesBounded
  <1>1. CatalogInv => FavoritesBounded
    <2> SUFFICES ASSUME CatalogInv PROVE FavoritesBounded
      OBVIOUS
    <2>1. Cardinality(favorites) \in Nat /\ Cardinality(Inserting) \in Nat
      BY InsertingFinite, FS_CardinalityType DEF CatalogInv
    <2>2. Cardinality(Processes) \in Nat /\ Limit \in Nat
      BY InsertingFinite, CatalogAssumption DEF CatalogInv
    <2> QED
      BY <2>1, <2>2 DEF CatalogInv, FavoritesBounded
  <1> QED
    BY <1>1, CatalogInvInit, CatalogInvStep, PTL DEF CatalogSpec

\* The processes are what loosens the limit: with a single one, in which
\* add_favorite runs without an await, there are never more than ten.
THEOREM OneProcessKeepsLimit ==
    ASSUME NEW p, Processes = {p}
    PROVE  CatalogSpec => [](Cardinality(favorites) <= Limit)
  <1>1. CatalogInv => Cardinality(favorites) <= Limit
    <2> SUFFICES ASSUME CatalogInv PROVE Cardinality(favorites) <= Limit
      OBVIOUS
    <2>1. Cardinality(favorites) \in Nat /\ Cardinality(Inserting) \in Nat
      BY InsertingFinite, FS_CardinalityType DEF CatalogInv
    <2>2. Cardinality(Processes) = 1 /\ Limit \in Nat
      BY FS_Singleton, CatalogAssumption
    <2> QED
      BY <2>1, <2>2 DEF CatalogInv
  <1> QED
    BY <1>1, CatalogInvInit, CatalogInvStep, PTL DEF CatalogSpec

-----------------------------------------------------------------------------
(* The stream.  What the browser of a reader has dispatched, followed by    *)
(* what is on the wire, is one path through the stream whatever breaks: a   *)
(* break cuts off its end, and the next connection goes on from there.      *)

Path(c) == got[c] \o wire[c]

\* b comes after a, and what is between them is trimmed.
Link(a, b) == a < b /\ \A e \in (a + 1)..(b - 1) : e < first

Linked(s) == \A i \in 1..(Len(s) - 1) : Link(s[i], s[i + 1])

StreamKept == first = 1 \/ first <= tip

\* Where a connection stands on the path of its reader.
SeenIsLast(c) ==
    IF got[c] = <<>> THEN seen[c] = 0 ELSE seen[c] = got[c][Len(got[c])]

LastIsSent(c) ==
    IF conn[c].live THEN Path(c) = <<>>
                    ELSE Path(c) # <<>> /\ conn[c].last = Path(c)[Len(Path(c))]

AtEnd(c) ==
    /\ SeenIsLast(c)
    /\ conn[c].pc = "off" => wire[c] = <<>>
    /\ conn[c].pc # "off" => LastIsSent(c) /\ conn[c].last <= tip
    /\ conn[c].pc = "wait" => /\ conn[c].from <= tip
                              /\ ~conn[c].live => conn[c].from = conn[c].last
    /\ conn[c].pc = "send" =>
          /\ conn[c].lo <= conn[c].hi /\ conn[c].hi <= tip /\ 0 < conn[c].lo
          /\ ~conn[c].live => Link(conn[c].last, conn[c].lo)

HeardLater(c, e) ==
    /\ e <= tip
    /\ Path(c) # <<>> => e < first \/ Path(c)[1] <= e
    /\ conn[c].pc = "off" => got[c] # <<>>
    /\ conn[c].pc # "off" /\ conn[c].live =>
          \/ conn[c].pc = "wait" /\ conn[c].from < e
          \/ conn[c].pc = "send" /\ (e < first \/ conn[c].lo <= e)

ReaderInv(c) ==
    /\ Linked(Path(c))
    /\ \A i \in 1..Len(Path(c)) : Path(c)[i] <= tip
    /\ AtEnd(c)
    /\ \A e \in heard[c] : HeardLater(c, e)

StreamInv == StreamTypeOK /\ StreamKept /\ \A c \in Readers : ReaderInv(c)

LEMMA Numbers ==
    /\ Batch \in Nat \ {0} /\ MaxLen \in Nat \ {0}
    /\ MaxEvents \in Nat /\ MaxBreaks \in Nat
    /\ Event \subseteq Nat /\ EventOr0 \subseteq Nat /\ Event \subseteq EventOr0
  BY EventStreamAssumption DEF Event, EventOr0

LEMMA PathAppend ==
    ASSUME NEW s \in Seq(Event), NEW t \in Seq(Event), NEW x \in Event
    PROVE  s \o Append(t, x) = Append(s \o t, x)
  <1>1. Append(t, x) = t \o <<x>> /\ Append(s \o t, x) = (s \o t) \o <<x>>
    BY AppendIsConcat, ConcatProperties
  <1>2. <<x>> \in Seq(Event)
    OBVIOUS
  <1> QED
    BY <1>1, <1>2, ConcatAssociative

LEMMA PathMove ==
    ASSUME NEW s \in Seq(Event), NEW t \in Seq(Event), t # <<>>
    PROVE  /\ Append(s, Head(t)) \o Tail(t) = s \o t
           /\ Head(t) \in Event /\ Tail(t) \in Seq(Event)
           /\ Head(t) = (s \o t)[Len(s) + 1] /\ Len(s) + 1 <= Len(s \o t)
  <1>1. Head(t) \in Event /\ Tail(t) \in Seq(Event) /\ t = <<Head(t)>> \o Tail(t)
    BY HeadTailProperties
  <1>2. Append(s, Head(t)) = s \o <<Head(t)>>
    BY <1>1, AppendIsConcat
  <1>3. <<Head(t)>> \in Seq(Event)
    BY <1>1
  <1>4. Append(s, Head(t)) \o Tail(t) = s \o t
    BY <1>1, <1>2, <1>3, ConcatAssociative
  <1>5. /\ Head(t) = (s \o t)[Len(s) + 1] /\ Len(s) + 1 <= Len(s \o t)
    <2>1. Len(t) \in Nat \ {0} /\ Len(s) \in Nat /\ Head(t) = t[1]
      BY LenProperties, EmptySeq
    <2> QED
      BY <2>1, ConcatProperties
  <1> QED
    BY <1>1, <1>4, <1>5

LEMMA LinkedAppend ==
    ASSUME NEW s \in Seq(Event), NEW x \in Event, Linked(s),
           s = <<>> \/ Link(s[Len(s)], x)
    PROVE  Linked(Append(s, x))
  <1>1. /\ Len(s) \in Nat /\ Len(Append(s, x)) = Len(s) + 1
        /\ \A i \in 1..Len(s) : Append(s, x)[i] = s[i]
        /\ Append(s, x)[Len(s) + 1] = x
    BY AppendProperties, LenProperties
  <1>2. ASSUME NEW i \in 1..Len(s)
        PROVE  Link(Append(s, x)[i], Append(s, x)[i + 1])
    <2>1. CASE i = Len(s)
      <3>1. s # <<>>
        BY <1>1, <2>1, EmptySeq
      <3> QED
        BY <1>1, <2>1, <3>1
    <2>2. CASE i # Len(s)
      <3>1. i \in 1..(Len(s) - 1) /\ i + 1 \in 1..Len(s)
        BY <1>1, <2>2
      <3> QED
        BY <1>1, <3>1 DEF Linked
    <2> QED
      BY <2>1, <2>2
  <1> QED
    BY <1>1, <1>2 DEF Linked

LEMMA LinkedPrefix ==
    ASSUME NEW s \in Seq(Event), NEW t \in Seq(Event), Linked(s \o t)
    PROVE  Linked(s)
  <1>1. /\ Len(s) \in Nat /\ Len(t) \in Nat /\ Len(s \o t) = Len(s) + Len(t)
        /\ \A i \in 1..Len(s) : (s \o t)[i] = s[i]
    BY ConcatProperties, LenProperties
  <1>2. ASSUME NEW i \in 1..(Len(s) - 1)
        PROVE  Link(s[i], s[i + 1])
    <2>1. i \in 1..(Len(s \o t) - 1) /\ i \in 1..Len(s) /\ i + 1 \in 1..Len(s)
      BY <1>1
    <2> QED
      BY <1>1, <2>1 DEF Linked
  <1> QED
    BY <1>2 DEF Linked

LEMMA PathTyped ==
    ASSUME StreamTypeOK, NEW c \in Readers
    PROVE  /\ got[c] \in Seq(Event) /\ wire[c] \in Seq(Event)
           /\ Path(c) \in Seq(Event) /\ Len(Path(c)) \in Nat
           /\ Path(c) # <<>> => /\ Len(Path(c)) > 0
                                /\ Path(c)[1] \in Event
                                /\ Path(c)[Len(Path(c))] \in Event
           /\ Path(c) = <<>> => got[c] = <<>> /\ wire[c] = <<>>
           /\ wire[c] = <<>> => Path(c) = got[c]
           /\ got[c] # <<>> => Path(c) # <<>> /\ Path(c)[1] = got[c][1]
  <1>1. got[c] \in Seq(Event) /\ wire[c] \in Seq(Event)
    BY DEF StreamTypeOK
  <1>2. Path(c) \in Seq(Event) /\ Len(Path(c)) \in Nat
    BY <1>1, ConcatProperties, LenProperties DEF Path
  <1>3. Path(c) # <<>> => Len(Path(c)) > 0
    BY <1>2, EmptySeq
  <1>4. Path(c) # <<>> => Path(c)[1] \in Event /\ Path(c)[Len(Path(c))] \in Event
    BY <1>2, <1>3, ElementOfSeq
  <1>5. Path(c) = <<>> => got[c] = <<>> /\ wire[c] = <<>>
    BY <1>1, ConcatEqualIffEmpty, ConcatSimplifications DEF Path
  <1>6. wire[c] = <<>> => Path(c) = got[c]
    BY <1>1, ConcatEmptySeq DEF Path
  <1>7. got[c] # <<>> => Path(c) # <<>> /\ Path(c)[1] = got[c][1]
    <2> SUFFICES ASSUME got[c] # <<>>
                 PROVE  Path(c) # <<>> /\ Path(c)[1] = got[c][1]
      OBVIOUS
    <2>1. Len(got[c]) \in Nat /\ Len(got[c]) > 0
      BY <1>1, LenProperties, EmptySeq
    <2>2. 1 \in 1..(Len(got[c]) + Len(wire[c])) /\ 1 <= Len(got[c])
      <3> DEFINE m == Len(got[c])
                 n == Len(wire[c])
      <3>1. m \in Nat /\ m > 0 /\ n \in Nat
        BY <1>1, <2>1, LenProperties
      <3> HIDE DEF m, n
      <3>2. 1 \in 1..(m + n) /\ 1 <= m
        BY <3>1
      <3> QED
        BY <3>2 DEF m, n
    <2>3. Path(c)[1] = got[c][1]
      BY <1>1, <2>2, ConcatProperties DEF Path
    <2> QED
      BY <1>5, <2>3
  <1> QED
    BY <1>1, <1>2, <1>3, <1>4, <1>5, <1>6, <1>7

\* A reader whose connection does not move while the stream stays as it is.
LEMMA OthersStay ==
    ASSUME NEW d \in Readers, ReaderInv(d),
           UNCHANGED <<tip, first, conn[d], wire[d], seen[d], got[d], heard[d]>>
    PROVE  ReaderInv(d)'
  BY DEF ReaderInv, Linked, Link, Path, AtEnd, SeenIsLast, LastIsSent, HeardLater

LEMMA ConnectionTyped ==
    ASSUME StreamTypeOK, NEW c \in Readers, NEW x \in Connection,
           conn' = [conn EXCEPT ![c] = x]
    PROVE  conn' \in [Readers -> Connection]
  BY DEF StreamTypeOK

\* What an XREAD returns is a run of entries that begins with the first one
\* left after the given one.
LEMMA AnswerIsRun ==
    ASSUME StreamTypeOK, StreamKept, NEW x \in Connection,
           NEW after \in EventOr0, after < tip
    PROVE  /\ Answer(x, after) \in Connection
           /\ Answer(x, after).pc = "send"
           /\ Answer(x, after).live = x.live /\ Answer(x, after).last = x.last
           /\ LET lo == Answer(x, after).lo
                  hi == Answer(x, after).hi
              IN  /\ after < lo /\ lo <= hi /\ hi <= tip
                  /\ Link(after, lo)
                  /\ \A e \in Nat : after < e => e < first \/ lo <= e
  <1> DEFINE lo == Later(after + 1, first)
             hi == Sooner(lo + Batch - 1, tip)
             y  == [x EXCEPT !.pc = "send", !.lo = lo, !.hi = hi]
  <1>1. after \in Nat /\ tip \in Nat /\ first \in Nat /\ tip <= MaxEvents
    BY Numbers DEF StreamTypeOK, EventOr0
  <1>2. lo \in Nat /\ after < lo /\ lo <= tip /\ first <= lo
    BY <1>1 DEF Later, StreamKept
  <1>3. lo = after + 1 \/ lo = first
    BY DEF Later
  <1> HIDE DEF lo
  <1>4. hi \in Nat /\ lo <= hi /\ hi <= tip
    BY <1>1, <1>2, Numbers DEF Sooner
  <1> HIDE DEF hi
  <1>5. lo \in EventOr0 /\ hi \in EventOr0
    BY <1>1, <1>2, <1>4, Numbers DEF EventOr0
  <1>6. /\ y \in Connection /\ y.pc = "send" /\ y.live = x.live /\ y.last = x.last
        /\ y.lo = lo /\ y.hi = hi
    BY <1>5 DEF Connection
  <1>7. Answer(x, after) = y
    BY DEF Answer, lo, hi
  <1>8. Link(after, lo)
    BY <1>1, <1>2, <1>3 DEF Link
  <1>9. \A e \in Nat : after < e => e < first \/ lo <= e
    BY <1>1, <1>2, <1>3
  <1> HIDE DEF y
  <1> QED
    BY <1>2, <1>4, <1>6, <1>7, <1>8, <1>9

LEMMA StreamTyped ==
    ASSUME StreamTypeOK, StreamKept, \A c \in Readers : ReaderInv(c),
           [StreamNext]_streamVars
    PROVE  StreamTypeOK' /\ StreamKept'
  <1> USE Numbers DEF StreamTypeOK, EventOr0, Event
  <1>1. CASE Emit
    <2>1. tip' \in EventOr0 /\ first' \in 1..(MaxEvents + 1) /\ StreamKept'
      BY <1>1 DEF Emit, StreamKept
    <2>2. heard' \in [Readers -> SUBSET Event]
      BY <1>1 DEF Emit
    <2> QED
      BY <1>1, <2>1, <2>2 DEF Emit
  <1>2. ASSUME NEW c \in Readers, Connect(c)
        PROVE  StreamTypeOK' /\ StreamKept'
    <2> DEFINE x == [conn[c] EXCEPT !.pc = "call", !.last = seen[c],
                                    !.live = (seen[c] = 0)]
    <2>1. x \in Connection
      BY DEF Connection
    <2>2. conn' = [conn EXCEPT ![c] = x]
      BY <1>2 DEF Connect, Connection
    <2>3. conn' \in [Readers -> Connection]
      BY <2>1, <2>2, ConnectionTyped
    <2> QED
      BY <1>2, <2>3 DEF Connect, StreamKept
  <1>3. ASSUME NEW c \in Readers, Call(c)
        PROVE  StreamTypeOK' /\ StreamKept'
    <2> DEFINE after == IF conn[c].live THEN tip ELSE conn[c].last
               y     == [conn[c] EXCEPT !.pc = "wait", !.from = after]
    <2>1. conn[c] \in Connection /\ after \in EventOr0
      BY DEF Connection
    <2>2. \E x \in Connection : conn' = [conn EXCEPT ![c] = x]
      <3>1. CASE after < tip
        <4>1. Answer(conn[c], after) \in Connection
          BY <2>1, <3>1, AnswerIsRun
        <4> QED
          BY <1>3, <3>1, <4>1 DEF Call
      <3>2. CASE ~(after < tip)
        <4>1. y \in Connection
          BY <2>1 DEF Connection
        <4> QED
          BY <1>3, <3>2, <4>1 DEF Call
      <3> QED
        BY <3>1, <3>2
    <2>3. conn' \in [Readers -> Connection]
      BY <2>2, ConnectionTyped
    <2> QED
      BY <1>3, <2>3 DEF Call, StreamKept
  <1>4. ASSUME NEW c \in Readers, Wake(c)
        PROVE  StreamTypeOK' /\ StreamKept'
    <2>1. conn[c] \in Connection /\ conn[c].from \in EventOr0
      BY DEF Connection
    <2>2. Answer(conn[c], conn[c].from) \in Connection
      BY <1>4, <2>1, AnswerIsRun DEF Wake
    <2>3. conn' \in [Readers -> Connection]
      BY <1>4, <2>2, ConnectionTyped DEF Wake
    <2> QED
      BY <1>4, <2>3 DEF Wake, StreamKept
  <1>5. ASSUME NEW c \in Readers, TimeOut(c)
        PROVE  StreamTypeOK' /\ StreamKept'
    BY <1>5 DEF TimeOut, Connection, StreamKept
  <1>6. ASSUME NEW c \in Readers, Hiccup(c)
        PROVE  StreamTypeOK' /\ StreamKept'
    <2>1. [conn[c] EXCEPT !.pc = "call"] \in Connection
      BY DEF Connection
    <2>2. conn' \in [Readers -> Connection]
      BY <1>6, <2>1, ConnectionTyped DEF Hiccup
    <2>3. heard' \in [Readers -> SUBSET Event]
      BY <1>6 DEF Hiccup
    <2>4. breaks' \in 0..MaxBreaks
      BY <1>6 DEF Hiccup, Break
    <2> QED
      BY <1>6, <2>2, <2>3, <2>4 DEF Hiccup, StreamKept
  <1>7. ASSUME NEW c \in Readers, Send(c)
        PROVE  StreamTypeOK' /\ StreamKept'
    <2>1. /\ conn[c] \in Connection
          /\ conn[c].lo \in Event /\ conn[c].hi \in EventOr0 /\ conn[c].lo <= conn[c].hi
      BY <1>7 DEF Send, Connection, ReaderInv, AtEnd
    <2>2. wire' \in [Readers -> Seq(Event)]
      BY <1>7, <2>1 DEF Send
    <2>3. conn' \in [Readers -> Connection]
      <3> DEFINE lo == IF conn[c].lo < conn[c].hi THEN conn[c].lo + 1
                                                    ELSE conn[c].lo
                 at == IF conn[c].lo < conn[c].hi THEN "send" ELSE "call"
                 x  == [conn[c] EXCEPT !.live = FALSE, !.last = conn[c].lo,
                                       !.lo = lo, !.pc = at]
      <3>1. lo \in EventOr0 /\ at \in {"send", "call"}
        BY <2>1
      <3>2. conn' = [conn EXCEPT ![c] = x]
        BY <1>7, <2>1 DEF Send, Connection
      <3> HIDE DEF lo, at
      <3>3. x \in Connection
        BY <2>1, <3>1 DEF Connection
      <3> QED
        BY <3>2, <3>3, ConnectionTyped
    <2> QED
      BY <1>7, <2>2, <2>3 DEF Send, StreamKept
  <1>8. ASSUME NEW c \in Readers, Receive(c)
        PROVE  StreamTypeOK' /\ StreamKept'
    <2>1. Head(wire[c]) \in Event /\ Tail(wire[c]) \in Seq(Event)
      BY <1>8, HeadTailProperties DEF Receive
    <2> QED
      BY <1>8, <2>1 DEF Receive, StreamKept
  <1>9. ASSUME NEW c \in Readers, Disconnect(c)
        PROVE  StreamTypeOK' /\ StreamKept'
    <2>1. [conn[c] EXCEPT !.pc = "off"] \in Connection
      BY DEF Connection
    <2>2. conn' \in [Readers -> Connection]
      BY <1>9, <2>1, ConnectionTyped DEF Disconnect
    <2>3. heard' \in [Readers -> SUBSET Event]
      BY <1>9 DEF Disconnect
    <2>4. breaks' \in 0..MaxBreaks
      BY <1>9 DEF Disconnect, Break
    <2> QED
      BY <1>9, <2>2, <2>3, <2>4 DEF Disconnect, StreamKept
  <1>10. CASE UNCHANGED streamVars
    BY <1>10 DEF streamVars, StreamKept
  <1> QED
    BY <1>1, <1>2, <1>3, <1>4, <1>5, <1>6, <1>7, <1>8, <1>9, <1>10
       DEF StreamNext, ReaderStep

LEMMA EmitKeeps ==
    ASSUME StreamInv, Emit, NEW c \in Readers
    PROVE  ReaderInv(c)'
  <1>1. StreamTypeOK /\ ReaderInv(c)
    BY DEF StreamInv
  <1>2. /\ tip \in Nat /\ tip' = tip + 1 /\ first \in Nat /\ first' \in Nat
        /\ first <= first'
        /\ conn' = conn /\ wire' = wire /\ seen' = seen /\ got' = got
    BY <1>1, Numbers DEF Emit, StreamTypeOK, EventOr0
  <1>3. Path(c)' = Path(c)
    BY <1>2 DEF Path
  <1>4. ASSUME NEW a \in Nat, NEW b \in Nat, Link(a, b)
        PROVE  Link(a, b)'
    BY <1>2, <1>4 DEF Link
  <1>5. Linked(Path(c))'
    <2> SUFFICES ASSUME NEW i \in 1..(Len(Path(c)) - 1)
                 PROVE  Link(Path(c)[i], Path(c)[i + 1])'
      BY <1>3 DEF Linked
    <2>1. Link(Path(c)[i], Path(c)[i + 1])
      BY <1>1 DEF ReaderInv, Linked
    <2>2. Path(c)[i] \in Nat /\ Path(c)[i + 1] \in Nat
      <3>1. i \in 1..Len(Path(c)) /\ i + 1 \in 1..Len(Path(c))
        BY <1>1, PathTyped
      <3> QED
        BY <1>1, <3>1, PathTyped, ElementOfSeq, Numbers
    <2> QED
      BY <1>3, <1>4, <2>1, <2>2
  <1>6. \A i \in 1..Len(Path(c)) : Path(c)[i] <= tip'
    <2> SUFFICES ASSUME NEW i \in 1..Len(Path(c)) PROVE Path(c)[i] <= tip'
      OBVIOUS
    <2>1. Path(c)[i] <= tip
      BY <1>1 DEF ReaderInv
    <2>2. Path(c)[i] \in Nat
      BY <1>1, PathTyped, ElementOfSeq, Numbers
    <2> QED
      BY <1>2, <2>1, <2>2
  <1>7. AtEnd(c)'
    <2>1. /\ conn[c].last \in Nat /\ conn[c].from \in Nat
          /\ conn[c].lo \in Nat /\ conn[c].hi \in Nat
      BY <1>1, Numbers DEF StreamTypeOK, Connection
    <2>2. AtEnd(c)
      BY <1>1 DEF ReaderInv
    <2> QED
      BY <1>2, <1>3, <1>4, <2>1, <2>2 DEF AtEnd, SeenIsLast, LastIsSent
  <1>8. ASSUME NEW e \in heard'[c]
        PROVE  HeardLater(c, e)'
    <2>1. conn[c].from \in Nat /\ conn[c].lo \in Nat
      BY <1>1, Numbers DEF StreamTypeOK, Connection
    <2>2. CASE e \in heard[c]
      <3>1. HeardLater(c, e) /\ e \in Nat
        BY <1>1, <2>2, Numbers DEF ReaderInv, StreamTypeOK
      <3> QED
        BY <1>2, <1>3, <2>1, <3>1 DEF HeardLater
    <2>3. CASE e \notin heard[c]
      <3>1. e = tip + 1 /\ Waiting(c)
        BY <1>8, <2>3 DEF Emit
      <3>2. conn[c].from <= tip /\ Path(c) = <<>>
        BY <1>1, <3>1 DEF ReaderInv, AtEnd, Waiting, LastIsSent
      <3> QED
        BY <1>2, <1>3, <2>1, <3>1, <3>2 DEF HeardLater, Waiting
    <2> QED
      BY <2>2, <2>3
  <1> QED
    BY <1>3, <1>5, <1>6, <1>7, <1>8 DEF ReaderInv

\* The steps that move the connection and leave the path alone.
LEMMA ConnectKeeps ==
    ASSUME StreamInv, NEW c \in Readers, Connect(c)
    PROVE  ReaderInv(c)'
  <1>1. StreamTypeOK /\ ReaderInv(c) /\ AtEnd(c)
    BY DEF StreamInv, ReaderInv
  <1>2. /\ conn'[c].pc = "call" /\ conn'[c].last = seen[c]
        /\ conn'[c].live = (seen[c] = 0)
        /\ UNCHANGED <<tip, first, wire, seen, got, heard>>
        /\ conn[c].pc = "off"
    BY <1>1 DEF Connect, StreamTypeOK, Connection
  <1>3. Path(c)' = Path(c) /\ Linked(Path(c))' /\ Path(c) = got[c]
    BY <1>1, <1>2, PathTyped DEF Path, ReaderInv, Linked, Link, AtEnd
  <1>4. got[c] = <<>> <=> seen[c] = 0
    BY <1>1, <1>2, <1>3, PathTyped, Numbers DEF AtEnd, SeenIsLast, Event
  <1>5. seen[c] <= tip
    <2>1. CASE got[c] = <<>>
      BY <1>1, <1>4, <2>1, Numbers DEF StreamTypeOK, EventOr0
    <2>2. CASE got[c] # <<>>
      <3>1. Len(got[c]) \in 1..Len(got[c])
        BY <1>1, <1>3, <2>2, PathTyped
      <3> QED
        BY <1>1, <1>3, <2>2, <3>1 DEF ReaderInv, AtEnd, SeenIsLast
    <2> QED
      BY <2>1, <2>2
  <1>6. AtEnd(c)'
    BY <1>1, <1>2, <1>3, <1>4, <1>5 DEF AtEnd, SeenIsLast, LastIsSent
  <1>7. ASSUME NEW e \in heard'[c]
        PROVE  HeardLater(c, e)'
    <2>1. HeardLater(c, e)
      BY <1>1, <1>2, <1>7 DEF ReaderInv
    <2> QED
      BY <1>2, <1>3, <1>4, <2>1 DEF HeardLater
  <1> QED
    BY <1>1, <1>2, <1>3, <1>6, <1>7 DEF ReaderInv

LEMMA CallKeeps ==
    ASSUME StreamInv, NEW c \in Readers, Call(c) \/ Wake(c)
    PROVE  ReaderInv(c)'
  <1> DEFINE after == IF conn[c].pc = "wait" THEN conn[c].from
                      ELSE IF conn[c].live THEN tip ELSE conn[c].last
  <1>1. StreamTypeOK /\ StreamKept /\ ReaderInv(c) /\ AtEnd(c)
    BY DEF StreamInv, ReaderInv
  <1>2. /\ conn[c] \in Connection /\ after \in EventOr0
        /\ after \in Nat /\ tip \in Nat /\ after <= tip
        /\ UNCHANGED <<tip, first, wire, seen, got, heard>>
    BY <1>1, Numbers DEF Call, Wake, StreamTypeOK, Connection, AtEnd
  <1>3. /\ ~conn[c].live => after = conn[c].last
        /\ conn[c].pc \in {"call", "wait"}
    BY <1>1 DEF AtEnd, Call, Wake
  <1>4. LastIsSent(c) /\ conn[c].last <= tip
    BY <1>1, <1>3 DEF AtEnd
  <1>5. Path(c)' = Path(c) /\ Linked(Path(c))'
    BY <1>1, <1>2 DEF Path, ReaderInv, Linked, Link
  <1>6. CASE /\ after < tip
             /\ conn' = [conn EXCEPT ![c] = Answer(conn[c], after)]
    <2> DEFINE x == Answer(conn[c], after)
    <2>1. conn'[c] = x
      BY <1>1, <1>6 DEF StreamTypeOK
    <2>2. /\ x.pc = "send" /\ x.live = conn[c].live /\ x.last = conn[c].last
          /\ after < x.lo /\ x.lo <= x.hi /\ x.hi <= tip /\ Link(after, x.lo)
          /\ \A e \in Nat : after < e => e < first \/ x.lo <= e
          /\ x.lo \in Nat
      <3>1. /\ x \in Connection /\ x.pc = "send"
            /\ x.live = conn[c].live /\ x.last = conn[c].last
            /\ after < x.lo /\ x.lo <= x.hi /\ x.hi <= tip /\ Link(after, x.lo)
            /\ \A e \in Nat : after < e => e < first \/ x.lo <= e
        BY <1>1, <1>2, <1>6, AnswerIsRun
      <3> HIDE DEF x
      <3>2. x.lo \in Nat
        BY <3>1, Numbers DEF Connection
      <3> QED
        BY <3>1, <3>2
    <2> HIDE DEF x
    <2>3. AtEnd(c)'
      <3>1. SeenIsLast(c)' /\ LastIsSent(c)'
        BY <1>1, <1>2, <1>4, <1>5, <2>1, <2>2 DEF AtEnd, SeenIsLast, LastIsSent
      <3>2. 0 < x.lo
        BY <1>2, <2>2
      <3>3. (~conn[c].live => Link(conn[c].last, conn[c].lo))'
        BY <1>2, <1>3, <2>1, <2>2 DEF Link
      <3> QED
        BY <1>2, <1>4, <2>1, <2>2, <3>1, <3>2, <3>3 DEF AtEnd
    <2>4. ASSUME NEW e \in heard'[c]
          PROVE  HeardLater(c, e)'
      <3>1. HeardLater(c, e) /\ e \in Nat
        BY <1>1, <1>2, <2>4, Numbers DEF ReaderInv, StreamTypeOK
      <3>2. conn[c].live => conn[c].pc = "wait" /\ conn[c].from < e
        BY <1>3, <3>1 DEF HeardLater
      <3>3. x.live => e < first \/ x.lo <= e
        BY <2>2, <3>1, <3>2
      <3> QED
        BY <1>2, <1>5, <2>1, <2>2, <3>1, <3>3 DEF HeardLater
    <2> QED
      BY <1>1, <1>2, <1>5, <2>3, <2>4 DEF ReaderInv
  <1>7. CASE /\ conn[c].pc = "call" /\ ~(after < tip)
             /\ conn' = [conn EXCEPT ![c] = [@ EXCEPT !.pc = "wait", !.from = after]]
    <2>1. /\ conn'[c].pc = "wait" /\ conn'[c].from = after
          /\ conn'[c].live = conn[c].live /\ conn'[c].last = conn[c].last
      BY <1>1, <1>2, <1>7 DEF StreamTypeOK, Connection
    <2>2. AtEnd(c)'
      BY <1>1, <1>2, <1>3, <1>4, <1>5, <2>1 DEF AtEnd, SeenIsLast, LastIsSent
    <2>3. ASSUME NEW e \in heard'[c]
          PROVE  HeardLater(c, e)'
      <3>1. HeardLater(c, e)
        BY <1>1, <1>2, <2>3 DEF ReaderInv
      <3>2. ~conn[c].live
        BY <1>7, <3>1 DEF HeardLater
      <3> QED
        BY <1>2, <1>5, <2>1, <3>1, <3>2 DEF HeardLater
    <2> QED
      BY <1>1, <1>2, <1>5, <2>2, <2>3 DEF ReaderInv
  <1> QED
    BY <1>6, <1>7 DEF Call, Wake

LEMMA PauseKeeps ==
    ASSUME StreamInv, NEW c \in Readers, TimeOut(c) \/ Hiccup(c)
    PROVE  ReaderInv(c)'
  <1>1. StreamTypeOK /\ ReaderInv(c) /\ AtEnd(c)
    BY DEF StreamInv, ReaderInv
  <1>2. /\ conn'[c].pc = "call" /\ conn[c].pc \in {"call", "wait"}
        /\ conn'[c].live = conn[c].live /\ conn'[c].last = conn[c].last
        /\ UNCHANGED <<tip, first, wire, seen, got>>
    BY <1>1 DEF TimeOut, Hiccup, StreamTypeOK, Connection
  <1>3. Path(c)' = Path(c) /\ Linked(Path(c))'
    BY <1>1, <1>2 DEF Path, ReaderInv, Linked, Link
  <1>4. AtEnd(c)'
    BY <1>1, <1>2, <1>3 DEF AtEnd, SeenIsLast, LastIsSent
  <1>5. ASSUME NEW e \in heard'[c]
        PROVE  HeardLater(c, e)'
    <2>1. e \in heard[c] /\ HeardLater(c, e) /\ e \in Nat /\ tip \in Nat
      BY <1>1, <1>5, Numbers DEF ReaderInv, TimeOut, Hiccup, StreamTypeOK
    <2>2. ~conn[c].live
      <3>1. CASE TimeOut(c)
        BY <2>1, <3>1 DEF TimeOut, HeardLater
      <3>2. CASE Hiccup(c)
        BY <1>1, <1>5, <3>2 DEF Hiccup, StreamTypeOK
      <3> QED
        BY <3>1, <3>2
    <2> QED
      BY <1>2, <1>3, <2>1, <2>2 DEF HeardLater
  <1> QED
    BY <1>1, <1>2, <1>3, <1>4, <1>5 DEF ReaderInv

LEMMA SendKeeps ==
    ASSUME StreamInv, NEW c \in Readers, Send(c)
    PROVE  ReaderInv(c)'
  <1> DEFINE x == conn[c].lo
             s == Path(c)
  <1>1. StreamTypeOK /\ ReaderInv(c) /\ AtEnd(c)
    BY DEF StreamInv, ReaderInv
  <1>2. /\ conn[c].pc = "send" /\ wire' = [wire EXCEPT ![c] = Append(@, x)]
        /\ conn'[c].live = FALSE /\ conn'[c].last = x
        /\ UNCHANGED <<tip, first, seen, got, heard>>
    BY <1>1 DEF Send, StreamTypeOK, Connection
  <1>3. /\ x <= conn[c].hi /\ conn[c].hi <= tip /\ 0 < x
        /\ x \in Nat /\ conn[c].hi \in Nat /\ tip \in Nat /\ tip <= MaxEvents
    BY <1>1, <1>2, Numbers DEF AtEnd, StreamTypeOK, Connection, EventOr0
  <1>4. /\ conn'[c].hi = conn[c].hi
        /\ \/ x < conn[c].hi /\ conn'[c].pc = "send" /\ conn'[c].lo = x + 1
           \/ conn'[c].pc = "call"
    BY <1>1, <1>2 DEF Send, StreamTypeOK, Connection
  <1>5. x \in Event
    BY <1>3, Numbers DEF Event
  <1>6. s \in Seq(Event) /\ Len(s) \in Nat /\ got[c] \in Seq(Event) /\ wire[c] \in Seq(Event)
    BY <1>1, PathTyped
  <1>7. Path(c)' = Append(s, x)
    <2>1. wire'[c] = Append(wire[c], x)
      BY <1>1, <1>2 DEF StreamTypeOK
    <2>2. got[c] \o Append(wire[c], x) = Append(got[c] \o wire[c], x)
      BY <1>5, <1>6, PathAppend
    <2> QED
      BY <1>2, <2>1, <2>2 DEF Path
  <1> HIDE DEF s, x
  <1>8. s = <<>> \/ Link(s[Len(s)], x)
    BY <1>1, <1>2 DEF AtEnd, LastIsSent, s, x
  <1>9. Linked(Append(s, x))
    BY <1>1, <1>5, <1>6, <1>8, LinkedAppend DEF ReaderInv, s
  <1>10. Linked(Path(c))'
    BY <1>2, <1>7, <1>9 DEF Linked, Link
  <1>11. /\ Len(Append(s, x)) = Len(s) + 1 /\ Append(s, x)[Len(s) + 1] = x
         /\ \A i \in 1..Len(s) : Append(s, x)[i] = s[i]
    BY <1>5, <1>6, AppendProperties
  <1>12. \A i \in 1..Len(Path(c)') : Path(c)'[i] <= tip'
    <2> SUFFICES ASSUME NEW i \in 1..(Len(s) + 1) PROVE Append(s, x)[i] <= tip
      BY <1>2, <1>7, <1>11
    <2>1. CASE i = Len(s) + 1
      BY <1>3, <1>11, <2>1
    <2>2. CASE i # Len(s) + 1
      <3>1. i \in 1..Len(s)
        BY <1>6, <2>2
      <3>2. s[i] <= tip
        BY <1>1, <3>1 DEF ReaderInv, s
      <3> QED
        BY <1>11, <3>1, <3>2
    <2> QED
      BY <2>1, <2>2
  <1>13. Append(s, x) # <<>> /\ Append(s, x)[Len(Append(s, x))] = x
    BY <1>5, <1>6, <1>11, AppendProperties
  <1>14. AtEnd(c)'
    <2>1. SeenIsLast(c)' /\ LastIsSent(c)'
      BY <1>1, <1>2, <1>7, <1>13 DEF AtEnd, SeenIsLast, LastIsSent
    <2>2. CASE x < conn[c].hi /\ conn'[c].pc = "send" /\ conn'[c].lo = x + 1
      <3>1. Link(conn[c].last, conn[c].lo)'
        BY <1>2, <1>3, <2>2 DEF Link
      <3> QED
        BY <1>2, <1>3, <1>4, <2>1, <2>2, <3>1 DEF AtEnd
    <2>3. CASE conn'[c].pc = "call"
      BY <1>2, <1>3, <2>1, <2>3 DEF AtEnd
    <2> QED
      BY <1>4, <2>2, <2>3
  <1>15. ASSUME NEW e \in heard'[c]
         PROVE  HeardLater(c, e)'
    <2>1. HeardLater(c, e)
      BY <1>1, <1>2, <1>15 DEF ReaderInv
    <2>2. e < first \/ Append(s, x)[1] <= e
      <3>1. CASE s = <<>>
        <4>1. conn[c].live
          BY <1>1, <1>2, <3>1 DEF AtEnd, LastIsSent, s
        <4>2. e < first \/ x <= e
          BY <1>2, <2>1, <4>1 DEF HeardLater, x
        <4>3. Append(s, x)[1] = x
          BY <1>6, <1>11, <3>1
        <4> QED
          BY <4>2, <4>3
      <3>2. CASE s # <<>>
        <4>1. 1 \in 1..Len(s)
          BY <1>6, <3>2, EmptySeq
        <4>2. Append(s, x)[1] = s[1]
          BY <1>11, <4>1
        <4> QED
          BY <2>1, <3>2, <4>2 DEF HeardLater, s
      <3> QED
        BY <3>1, <3>2
    <2> QED
      BY <1>2, <1>4, <1>7, <2>1, <2>2 DEF HeardLater
  <1> QED
    BY <1>10, <1>12, <1>14, <1>15 DEF ReaderInv

\* A browser that dispatches an event moves it along its path.
LEMMA ReceiveKeeps ==
    ASSUME StreamInv, NEW c \in Readers, Receive(c)
    PROVE  ReaderInv(c)'
  <1> DEFINE x == Head(wire[c])
  <1>1. StreamTypeOK /\ ReaderInv(c) /\ AtEnd(c)
    BY DEF StreamInv, ReaderInv
  <1>2. /\ wire[c] # <<>> /\ wire'[c] = Tail(wire[c])
        /\ got'[c] = Append(got[c], x) /\ seen'[c] = x
        /\ UNCHANGED <<tip, first, conn, heard>>
    BY <1>1 DEF Receive, StreamTypeOK
  <1>3. got[c] \in Seq(Event) /\ wire[c] \in Seq(Event)
    BY <1>1, PathTyped
  <1>4. Path(c)' = Path(c) /\ x \in Event
    BY ZenonT(40), <1>2, <1>3, PathMove DEF Path
  <1>5. got'[c] # <<>> /\ got'[c][Len(got'[c])] = x
    BY <1>2, <1>3, <1>4, AppendProperties
  <1>6. conn[c].pc # "off"
    BY <1>1, <1>2 DEF AtEnd
  <1>7. AtEnd(c)'
    BY <1>1, <1>2, <1>4, <1>5, <1>6 DEF AtEnd, SeenIsLast, LastIsSent, Link
  <1>8. ASSUME NEW e \in heard'[c]
        PROVE  HeardLater(c, e)'
    <2>1. HeardLater(c, e)
      BY <1>1, <1>2, <1>8 DEF ReaderInv
    <2> QED
      BY <1>2, <1>4, <1>6, <2>1 DEF HeardLater
  <1> QED
    BY <1>1, <1>2, <1>4, <1>7, <1>8 DEF ReaderInv, Linked, Link

LEMMA DisconnectKeeps ==
    ASSUME StreamInv, NEW c \in Readers, Disconnect(c)
    PROVE  ReaderInv(c)'
  <1>1. StreamTypeOK /\ ReaderInv(c) /\ AtEnd(c)
    BY DEF StreamInv, ReaderInv
  <1>2. /\ conn'[c].pc = "off" /\ wire'[c] = <<>>
        /\ heard'[c] = IF got[c] = <<>> THEN {} ELSE heard[c]
        /\ UNCHANGED <<tip, first, seen, got>>
    BY <1>1 DEF Disconnect, StreamTypeOK, Connection
  <1>3. got[c] \in Seq(Event) /\ wire[c] \in Seq(Event)
    BY <1>1, PathTyped
  <1>4. Path(c)' = got[c]
    BY <1>2, <1>3, ConcatEmptySeq DEF Path
  <1>5. Linked(Path(c))'
    <2>1. Linked(got[c])
      BY <1>1, <1>3, LinkedPrefix DEF ReaderInv, Path
    <2> QED
      BY <1>2, <1>4, <2>1 DEF Linked, Link
  <1>6. \A i \in 1..Len(Path(c)') : Path(c)'[i] <= tip'
    <2> SUFFICES ASSUME NEW i \in 1..Len(got[c]) PROVE got[c][i] <= tip
      BY <1>2, <1>4
    <2>1. i \in 1..Len(Path(c)) /\ Path(c)[i] = got[c][i]
      <3> DEFINE m == Len(got[c])
                 n == Len(wire[c])
      <3>1. m \in Nat /\ n \in Nat /\ i \in 1..m /\ Len(Path(c)) = m + n
        BY <1>3, LenProperties, ConcatProperties DEF Path
      <3> HIDE DEF m, n
      <3>2. i \in 1..(m + n) /\ i <= m
        BY <3>1
      <3> QED
        BY <1>3, <3>1, <3>2, ConcatProperties DEF Path, m, n
    <2> QED
      BY <1>1, <2>1 DEF ReaderInv
  <1>7. AtEnd(c)'
    BY <1>1, <1>2 DEF AtEnd, SeenIsLast
  <1>8. ASSUME NEW e \in heard'[c]
        PROVE  HeardLater(c, e)'
    <2>1. got[c] # <<>> /\ HeardLater(c, e)
      BY <1>1, <1>2, <1>8 DEF ReaderInv
    <2>2. e < first \/ got[c][1] <= e
      BY <1>1, <2>1, PathTyped DEF HeardLater
    <2> QED
      BY <1>2, <1>4, <2>1, <2>2 DEF HeardLater
  <1> QED
    BY <1>5, <1>6, <1>7, <1>8 DEF ReaderInv

LEMMA StreamInvInit == StreamInit => StreamInv
  <1> SUFFICES ASSUME StreamInit PROVE StreamInv
    OBVIOUS
  <1>1. StreamTypeOK /\ StreamKept
    BY Numbers DEF StreamInit, StreamTypeOK, StreamKept, Connection, EventOr0, Event
  <1>2. ASSUME NEW c \in Readers PROVE ReaderInv(c)
    <2>1. got[c] = <<>> /\ wire[c] = <<>> /\ seen[c] = 0 /\ heard[c] = {}
          /\ conn[c].pc = "off"
      BY DEF StreamInit
    <2>2. Path(c) = <<>> /\ Len(Path(c)) = 0
      BY <1>1, <2>1, PathTyped
    <2> QED
      BY <2>1, <2>2 DEF ReaderInv, Linked, AtEnd, SeenIsLast
  <1> QED
    BY <1>1, <1>2 DEF StreamInv

LEMMA StreamInvStep ==
    ASSUME StreamInv, [StreamNext]_streamVars
    PROVE  StreamInv'
  <1>1. StreamTypeOK' /\ StreamKept' /\ StreamTypeOK
    BY StreamTyped DEF StreamInv
  <1>2. SUFFICES ASSUME NEW d \in Readers PROVE ReaderInv(d)'
    BY <1>1 DEF StreamInv
  <1>3. CASE Emit
    BY <1>3, EmitKeeps
  <1>4. ASSUME NEW c \in Readers, ReaderStep(c)
        PROVE  ReaderInv(d)'
    <2>1. CASE c = d
      BY <1>4, <2>1, ConnectKeeps, CallKeeps, PauseKeeps, SendKeeps,
         ReceiveKeeps, DisconnectKeeps DEF ReaderStep
    <2>2. CASE c # d
      <3>1. UNCHANGED <<tip, first, conn[d], wire[d], seen[d], got[d], heard[d]>>
        BY <1>1, <1>4, <2>2 DEF ReaderStep, Connect, Call, Wake, TimeOut, Hiccup,
           Send, Receive, Disconnect, StreamTypeOK
      <3> QED
        BY <3>1, OthersStay DEF StreamInv
    <2> QED
      BY <2>1, <2>2
  <1>5. CASE UNCHANGED streamVars
    BY <1>5, OthersStay DEF streamVars, StreamInv
  <1> QED
    BY <1>3, <1>4, <1>5 DEF StreamNext

\* No connection asks for, carries or dispatches an entry past those emitted
\* (_sse_stream).
THEOREM StreamStaysTyped == StreamSpec => []StreamTypeOK
  <1>1. StreamInv => StreamTypeOK
    BY DEF StreamInv
  <1> QED
    BY <1>1, StreamInvInit, StreamInvStep, PTL DEF StreamSpec

\* Whatever breaks, a browser that resumes with Last-Event-ID dispatches the
\* entries of the stream in order, once, and all but those that were trimmed.
THEOREM StreamsResume == StreamSpec => []ResumedWithoutGap
  <1>1. StreamInv => ResumedWithoutGap
    <2> SUFFICES ASSUME StreamInv, NEW c \in Readers,
                        NEW i \in 1..(Len(got[c]) - 1)
                 PROVE  Link(got[c][i], got[c][i + 1])
      BY DEF ResumedWithoutGap, Link
    <2>1. got[c] \in Seq(Event) /\ wire[c] \in Seq(Event)
      BY PathTyped DEF StreamInv
    <2>2. Linked(got[c])
      BY <2>1, LinkedPrefix DEF StreamInv, ReaderInv, Path
    <2> QED
      BY <2>2 DEF Linked
  <1> QED
    BY <1>1, StreamInvInit, StreamInvStep, PTL DEF StreamSpec

\* A reader without an id loses nothing of what is emitted while Redis holds an
\* XREAD of its own that is answered.
THEOREM BlockedReadersHear == StreamSpec => []BlockedReaderHears
  <1>1. StreamInv => BlockedReaderHears
    <2> SUFFICES ASSUME StreamInv, NEW c \in Readers, got[c] # <<>>,
                        NEW e \in heard[c]
                 PROVE  e < first \/ got[c][1] <= e
      BY DEF BlockedReaderHears
    <2> QED
      BY PathTyped DEF StreamInv, ReaderInv, HeardLater
  <1> QED
    BY <1>1, StreamInvInit, StreamInvStep, PTL DEF StreamSpec

-----------------------------------------------------------------------------
(* The checkout.  Nobody reads that the directory is there before it holds   *)
(* all files or somebody is about to put the rest of them in.                *)

\* Who extracts has the rest of the files before it.
ExtractorOwes ==
    \A w \in Workers : Extracting(w) => \A f \in Files \ members[w] : file[f] # "missing"

DirectoryFull ==
    archived /\ dir /\ ~torn => Present \/ \E w \in Workers : Extracting(w)

QueriesHaveDirectory == \A w \in Workers : step[w] = "query" => dir

ExtractedInto == \A w \in Workers : step[w] \in {"extract", "release"} => dir

CheckoutInv ==
    CheckoutTypeOK /\ ExtractorOwes /\ DirectoryFull /\ QueriesHaveDirectory /\ ExtractedInto

LEMMA CheckoutInvInit == CheckoutInit => CheckoutInv
  BY DEF CheckoutInit, CheckoutInv, CheckoutTypeOK, ExtractorOwes, DirectoryFull, QueriesHaveDirectory,
         ExtractedInto, Extracting, Present, Steps

LEMMA CheckoutTypeStep ==
    ASSUME CheckoutTypeOK, [CheckoutNext]_checkoutVars PROVE CheckoutTypeOK'
  <1> USE DEF CheckoutTypeOK, StepTo, Steps
  <1>1. ASSUME NEW w \in Workers, CheckoutStep(w)
        PROVE  CheckoutTypeOK'
    <2>1. CASE LookForDirectory(w) \/ ListSnapshots(w) \/ AcquireCheckout(w)
      BY <2>1 DEF LookForDirectory, ListSnapshots, AcquireCheckout
    <2>2. CASE DownloadArchive(w) \/ ExtractionEnds(w) \/ ReleaseCheckout(w)
      BY <2>2 DEF DownloadArchive, ExtractionEnds, ReleaseCheckout
    <2>3. ASSUME NEW f \in Files, ExtractMember(w, f)
          PROVE  CheckoutTypeOK'
      BY <2>3 DEF ExtractMember
    <2>4. CASE RunQuery(w) \/ QueryRefused(w)
      BY <2>4 DEF RunQuery, QueryRefused
    <2>5. CASE CheckoutFails(w) \/ WorkerRestarts(w)
      BY <2>5 DEF CheckoutFails, WorkerRestarts, Extracting
    <2> QED
      BY <1>1, <2>1, <2>2, <2>3, <2>4, <2>5 DEF CheckoutStep
  <1>2. CASE CheckoutExpires
    BY <1>2 DEF CheckoutExpires
  <1>3. CASE UNCHANGED checkoutVars
    BY <1>3 DEF checkoutVars
  <1> QED
    BY <1>1, <1>2, <1>3 DEF CheckoutNext

LEMMA CheckoutInvStep ==
    ASSUME CheckoutInv, [CheckoutNext]_checkoutVars PROVE CheckoutInv'
  <1> USE DEF CheckoutTypeOK, StepTo, Extracting, Present
  <1> DEFINE Kept == /\ ExtractorOwes' /\ DirectoryFull' /\ QueriesHaveDirectory' /\ ExtractedInto'
  <1>0. /\ CheckoutTypeOK /\ CheckoutTypeOK' /\ ExtractorOwes /\ DirectoryFull /\ QueriesHaveDirectory
        /\ ExtractedInto
    BY CheckoutTypeStep DEF CheckoutInv
  <1>1. ASSUME NEW w \in Workers, LookForDirectory(w) \/ ListSnapshots(w) \/ AcquireCheckout(w)
        PROVE  Kept
    BY <1>0, <1>1 DEF LookForDirectory, ListSnapshots, AcquireCheckout, ExtractorOwes, DirectoryFull,
                      QueriesHaveDirectory, ExtractedInto
  <1>2. ASSUME NEW w \in Workers, DownloadArchive(w)
        PROVE  Kept
    BY <1>0, <1>2 DEF DownloadArchive, ExtractorOwes, DirectoryFull, QueriesHaveDirectory, ExtractedInto
  <1>3. ASSUME NEW w \in Workers, NEW f \in Files, ExtractMember(w, f)
        PROVE  Kept
    BY <1>0, <1>3 DEF ExtractMember, ExtractorOwes, DirectoryFull, QueriesHaveDirectory, ExtractedInto
  <1>4. ASSUME NEW w \in Workers, ExtractionEnds(w)
        PROVE  Kept
    BY <1>0, <1>4 DEF ExtractionEnds, ExtractorOwes, DirectoryFull, QueriesHaveDirectory, ExtractedInto
  <1>5. ASSUME NEW w \in Workers, ReleaseCheckout(w) \/ QueryRefused(w)
        PROVE  Kept
    BY <1>0, <1>5 DEF ReleaseCheckout, QueryRefused, ExtractorOwes, DirectoryFull, QueriesHaveDirectory,
                      ExtractedInto
  <1>6. ASSUME NEW w \in Workers, RunQuery(w)
        PROVE  Kept
    BY <1>0, <1>6 DEF RunQuery, ExtractorOwes, DirectoryFull, QueriesHaveDirectory, ExtractedInto
  <1>7. ASSUME NEW w \in Workers, CheckoutFails(w) \/ WorkerRestarts(w)
        PROVE  Kept
    BY <1>0, <1>7 DEF CheckoutFails, WorkerRestarts, ExtractorOwes, DirectoryFull, QueriesHaveDirectory,
                      ExtractedInto
  <1>8. ASSUME CheckoutExpires \/ UNCHANGED checkoutVars
        PROVE  Kept
    <2>1. UNCHANGED <<dir, file, archived, step, members, torn>>
      BY <1>8 DEF CheckoutExpires, checkoutVars
    <2>2. ExtractorOwes' /\ QueriesHaveDirectory' /\ ExtractedInto'
      BY <1>0, <2>1 DEF ExtractorOwes, QueriesHaveDirectory, ExtractedInto
    <2>3. DirectoryFull'
      BY <1>0, <2>1 DEF DirectoryFull
    <2> QED
      BY <2>2, <2>3
  <1>9. ASSUME NEW w \in Workers, CheckoutStep(w)
        PROVE  Kept
    <2> HIDE DEF Kept
    <2> QED
      BY <1>1, <1>2, <1>3, <1>4, <1>5, <1>6, <1>7, <1>9 DEF CheckoutStep
  <1>10. Kept
    <2> HIDE DEF Kept
    <2> QED
      BY <1>8, <1>9 DEF CheckoutNext
  <1> QED
    BY <1>0, <1>10 DEF CheckoutInv

LEMMA CheckoutInvHolds == CheckoutSpec => []CheckoutInv
  BY CheckoutInvInit, CheckoutInvStep, PTL DEF CheckoutSpec

\* For any number of workers and files, and whatever leases expire: a query opens
\* all files of the snapshot, unless an extraction was cut off before or is under
\* way in another worker (_ensure_local_db makes the directory after the download).
THEOREM DatabasesOpenWhole == CheckoutSpec => OpensWhole
  <1> DEFINE Whole == \A w \in Workers :
               Opens(w) /\ archived /\ ~torn /\ (\A v \in Workers : ~Extracting(v)) => Present
  <1>1. ASSUME CheckoutInv, [CheckoutNext]_checkoutVars, NEW w \in Workers, Opens(w)
        PROVE  step[w] = "query"
    <2>1. \A v \in Workers : RunQuery(v) => step[v] = "query"
                                  /\ session' = [session EXCEPT ![v] = TRUE]
      BY DEF RunQuery
    <2>2. \A v \in Workers : CheckoutStep(v) /\ ~RunQuery(v) =>
              session' = session \/ session' = [session EXCEPT ![v] = FALSE]
      BY DEF CheckoutStep, LookForDirectory, ListSnapshots, AcquireCheckout, DownloadArchive, ExtractMember,
             ExtractionEnds, ReleaseCheckout, QueryRefused, CheckoutFails, WorkerRestarts
    <2>3. CheckoutExpires \/ UNCHANGED checkoutVars => session' = session
      BY DEF CheckoutExpires, checkoutVars
    <2>4. session \in [Workers -> BOOLEAN]
      BY <1>1 DEF CheckoutInv, CheckoutTypeOK
    <2> QED
      BY <1>1, <2>1, <2>2, <2>3, <2>4 DEF CheckoutNext, Opens
  <1>2. CheckoutInv /\ [CheckoutNext]_checkoutVars => [Whole]_checkoutVars
    BY <1>1 DEF CheckoutInv, QueriesHaveDirectory, DirectoryFull
  <1> QED
    BY <1>2, CheckoutInvHolds, PTL DEF CheckoutSpec, OpensWhole

\* With one worker nobody makes the directory between its look and its lock.
OneCheckout == \A v, w \in Workers : v = w

AbsentBefore ==
    /\ ~dir => \A f \in Files : file[f] = "missing"
    /\ \A w \in Workers :
          /\ step[w] \in {"list", "lock", "download"} => ~dir
          /\ Extracting(w) => \A f \in Files : file[f] # "written"

LEMMA AbsentBeforeStep ==
    ASSUME OneCheckout, CheckoutInv, AbsentBefore, [CheckoutNext]_checkoutVars
    PROVE  AbsentBefore' /\ \A f \in Files : file[f] = "written" => file'[f] = "written"
  <1> USE DEF OneCheckout, AbsentBefore, CheckoutTypeOK, StepTo, Extracting
  <1> DEFINE Kept == AbsentBefore' /\ \A f \in Files : file[f] = "written" => file'[f] = "written"
  <1>0. CheckoutTypeOK /\ QueriesHaveDirectory /\ ExtractedInto
    BY DEF CheckoutInv
  <1>1. ASSUME NEW w \in Workers, LookForDirectory(w) \/ ListSnapshots(w) \/ AcquireCheckout(w)
        PROVE  Kept
    BY <1>0, <1>1 DEF LookForDirectory, ListSnapshots, AcquireCheckout
  <1>2. ASSUME NEW w \in Workers, DownloadArchive(w) \/ ExtractionEnds(w)
        PROVE  Kept
    BY <1>0, <1>2 DEF DownloadArchive, ExtractionEnds
  <1>3. ASSUME NEW w \in Workers, NEW f \in Files, ExtractMember(w, f)
        PROVE  Kept
    BY <1>0, <1>3 DEF ExtractMember, ExtractedInto
  <1>4. ASSUME NEW w \in Workers, ReleaseCheckout(w) \/ QueryRefused(w)
        PROVE  Kept
    BY <1>0, <1>4 DEF ReleaseCheckout, QueryRefused
  <1>5. ASSUME NEW w \in Workers, RunQuery(w)
        PROVE  Kept
    BY <1>0, <1>5 DEF RunQuery, QueriesHaveDirectory
  <1>6. ASSUME NEW w \in Workers, CheckoutFails(w) \/ WorkerRestarts(w)
        PROVE  Kept
    BY <1>0, <1>6 DEF CheckoutFails, WorkerRestarts
  <1>7. CASE CheckoutExpires \/ UNCHANGED checkoutVars
    BY <1>0, <1>7 DEF CheckoutExpires, checkoutVars
  <1> QED
    BY <1>1, <1>2, <1>3, <1>4, <1>5, <1>6, <1>7 DEF CheckoutNext, CheckoutStep

\* One worker never replaces by a snapshot what its queries have written,
\* whatever fails and however often it is killed (_ensure_local_db).
THEOREM OneWorkerKeepsWrites == ASSUME OneCheckout PROVE CheckoutSpec => WritesStay
  <1>1. CheckoutInit => AbsentBefore
    BY DEF CheckoutInit, AbsentBefore, Extracting
  <1>2. CheckoutInv /\ AbsentBefore /\ [CheckoutNext]_checkoutVars =>
            AbsentBefore' /\ [\A f \in Files : file[f] = "written" => file'[f] = "written"]_checkoutVars
    BY AbsentBeforeStep
  <1> QED
    BY <1>1, <1>2, CheckoutInvHolds, PTL DEF CheckoutSpec, WritesStay
=============================================================================
