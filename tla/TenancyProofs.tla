---------------------------- MODULE TenancyProofs ----------------------------
(***************************************************************************)
(* Proofs about accounts and databases of a tenant, for any requests, row  *)
(* of the owner, names, writes and number of failures.                     *)
(*                                                                         *)
(* The steps of Accounts and those of Databases share nothing but faults,  *)
(* so each part has an inductive invariant of its own; Tenancy combines    *)
(* them.                                                                   *)
(***************************************************************************)
EXTENDS Tenancy, SequenceTheorems, TLAPS

-----------------------------------------------------------------------------
(* Accounts                                                                *)

\* A request that is registering.
Registering == {"regEmail", "regSave", "regWelcome"}

\* A request at work on an account: what it writes back is the copy it has read.
Carrying == {"authSave", "loginSave", "passed", "revFind", "revMem", "revSave"}

\* A request that registers works on its own account, which it found active.
RegistersItself ==
    \A r \in Requests :
        /\ apc[r] \in Registering \cup {"new"} => key[r] = r
        /\ apc[r] \in Registering => copy[r] # NoRow /\ copy[r].active

\* Only the request an account is named by inserts it, once.
InsertedOnce ==
    \A r \in Requests : rows[r] # NoRow =>
        key[r] = r /\ apc[r] \in {"regWelcome"} \cup Answered

\* A copy is out of date in nothing but the flag: rows keep name and address.
CopyOfRow ==
    \A r \in Requests : apc[r] \in Carrying =>
        /\ key[r] # r /\ rows[key[r]] # NoRow
        /\ IF copy[r] = NoRow THEN apc[r] \in {"revFind", "revMem"}
           ELSE /\ copy[r].name = rows[key[r]].name
                /\ copy[r].email = rows[key[r]].email

\* The unique constraints.
RowsUnique ==
    \A a, b \in Stored :
        a # b => rows[a].name # rows[b].name /\ rows[a].email # rows[b].email

RevokedBySome(a) == \E q \in Requests : key[q] = a /\ apc[q] = "revoked"

\* An inactive row, or an inactive copy of it, is the work of a revocation that
\* is over: the account was registered active.
InactiveIsRevoked ==
    \A a \in Requests :
        /\ rows[a] # NoRow /\ ~ rows[a].active => RevokedBySome(a)
        /\ \A r \in Requests :
              apc[r] \in Carrying /\ key[r] = a /\ copy[r] # NoRow /\ ~ copy[r].active
                => RevokedBySome(a)

\* A registration that is over has its row, with the name it asked for.
InsertedIsThere ==
    \A r \in Requests : apc[r] \in {"regWelcome", "ok"} /\ key[r] = r =>
        rows[r] # NoRow /\ rows[r].name = copy[r].name

\* Nobody holds an active copy of an account in barred.
BarredStays ==
    \A a \in barred : rows[a] # NoRow /\ ~ rows[a].active /\ Holders(a) = {}

AccInv ==
    /\ AccTypeOK
    /\ RegistersItself
    /\ InsertedOnce
    /\ CopyOfRow
    /\ RowsUnique
    /\ InactiveIsRevoked
    /\ InsertedIsThere
    /\ BarredStays

LEMMA NewRow ==
    ASSUME NEW n \in Tenants, NEW e \in Emails
    PROVE  LET c == [name |-> n, email |-> e, active |-> TRUE]
           IN  c \in Row /\ c # NoRow /\ c.active = TRUE
  <1>1. [name |-> n, email |-> e, active |-> TRUE] \in Row
    BY DEF Row
  <1> QED
    BY <1>1, AccountsAssumption

LEMMA InactiveRow ==
    ASSUME NEW x \in Row
    PROVE  LET c == [x EXCEPT !.active = FALSE]
           IN  c \in Row /\ c # NoRow /\ ~ c.active /\ c.name = x.name /\ c.email = x.email
  BY AccountsAssumption DEF Row

LEMMA AccInvInit == AccInit => AccInv
  <1> SUFFICES ASSUME AccInit PROVE AccInv
    OBVIOUS
  <1> USE AccountsAssumption, FaultsAssumption DEF AccInit, Accounts
  <1>1. AccTypeOK
    BY DEF AccTypeOK, AccPC
  <1>2. \A r \in Requests : rows[r] = NoRow /\ apc[r] = "new"
    OBVIOUS
  <1>3. RegistersItself /\ CopyOfRow
    BY <1>2 DEF RegistersItself, CopyOfRow, Registering, Carrying
  <1>4. InsertedOnce /\ InsertedIsThere /\ BarredStays
    BY <1>2 DEF InsertedOnce, InsertedIsThere, BarredStays
  <1>5. RowsUnique
    BY <1>2 DEF RowsUnique, Stored
  <1>6. InactiveIsRevoked
    BY <1>2 DEF InactiveIsRevoked, Carrying
  <1> QED
    BY <1>1, <1>3, <1>4, <1>5, <1>6 DEF AccInv

LEMMA AccInvStep ==
    ASSUME AccInv, NEW r \in Requests, AccStep(r)
    PROVE  AccInv'
  <1> USE AccountsAssumption, FaultsAssumption
      DEF AccInv, AccTypeOK, RegistersItself, InsertedOnce, CopyOfRow,
          RowsUnique, InactiveIsRevoked, InsertedIsThere, BarredStays, Accounts,
          AccPC, Answered, Registering, Carrying, Stored, Holders, RevokedBySome,
          Row, Goto
  <1>1. ASSUME NEW n \in Tenants, NEW e \in Emails, FindName(r, n, e) PROVE AccInv'
    <2> DEFINE c == [name |-> n, email |-> e, active |-> TRUE]
    <2>1. c \in Row /\ c.active /\ c # NoRow
      BY NewRow
    <2> HIDE DEF c
    <2>2. copy' = [copy EXCEPT ![r] = c] /\ UNCHANGED <<rows, mem, key, barred, faults>>
      BY <1>1 DEF FindName, c
    <2>3. apc[r] = "new" /\ apc' = [apc EXCEPT ![r] = apc'[r]] /\ apc'[r] \in {"refused", "regEmail"}
      BY <1>1 DEF FindName
    <2>4. AccTypeOK'
      BY <2>1, <2>2, <2>3
    <2>5. (RegistersItself /\ InsertedOnce /\ CopyOfRow)'
      BY <2>1, <2>2, <2>3
    <2>6. (RowsUnique /\ InsertedIsThere)'
      BY <2>2, <2>3
    <2>7. InactiveIsRevoked'
      BY <2>2, <2>3
    <2>8. BarredStays'
      BY <2>2, <2>3
    <2> QED
      BY <2>4, <2>5, <2>6, <2>7, <2>8
  <1>2. CASE FindEmail(r)
    BY <1>2 DEF FindEmail
  <1>3. CASE InsertAccount(r)
    <2>1. CASE Taken(r)
      BY <1>3, <2>1 DEF InsertAccount
    <2>2. CASE ~ Taken(r)
      <3>1. /\ apc[r] = "regSave" /\ apc' = [apc EXCEPT ![r] = "regWelcome"]
            /\ rows' = [rows EXCEPT ![r] = copy[r]] /\ rows[r] = NoRow
            /\ UNCHANGED <<mem, copy, key, barred, faults>>
        BY <1>3, <2>2 DEF InsertAccount
      <3>2. /\ copy[r] \in Row /\ copy[r] # NoRow /\ copy[r].active /\ key[r] = r
            /\ \A a \in Stored : rows[a].name # copy[r].name /\ rows[a].email # copy[r].email
        BY <2>2, <3>1 DEF Taken
      <3>3. AccTypeOK' /\ RegistersItself' /\ InsertedOnce' /\ CopyOfRow' /\ InsertedIsThere'
        BY <3>1, <3>2
      <3>4. RowsUnique'
        BY <3>1, <3>2
      <3>5. InactiveIsRevoked'
        BY <3>1, <3>2
      <3>6. BarredStays'
        BY <3>1, <3>2
      <3> QED
        BY <3>3, <3>4, <3>5, <3>6
    <2> QED
      BY <2>1, <2>2
  <1>4. CASE Welcome(r)
    BY <1>4 DEF Welcome
  <1>5. ASSUME NEW a \in Accounts, FindByApiKey(r, a) PROVE AccInv'
    BY <1>5 DEF FindByApiKey
  <1>6. ASSUME NEW e \in Emails, LoginFind(r, e) PROVE AccInv'
    <2>1. CASE apc' = [apc EXCEPT ![r] = "refused"] /\ UNCHANGED <<copy, key>>
      BY <1>6, <2>1 DEF LoginFind
    <2>2. ASSUME NEW a \in Stored, NEW pc \in {"loginSave", "refused"},
                 apc[r] = "new", apc' = [apc EXCEPT ![r] = pc],
                 key' = [key EXCEPT ![r] = a], copy' = [copy EXCEPT ![r] = rows[a]],
                 UNCHANGED <<rows, mem, barred, faults>>
          PROVE  AccInv'
      BY <2>2
    <2> QED
      BY <1>6, <2>1, <2>2 DEF LoginFind
  <1>7. CASE SaveUsed(r)
    BY <1>7 DEF SaveUsed
  <1>8. ASSUME NEW a \in Accounts, StartRevoke(r, a) PROVE AccInv'
    BY <1>8 DEF StartRevoke
  <1>9. CASE FindById(r)
    BY <1>9 DEF FindById
  <1>10. CASE RevokeInMemory(r)
    <2>1. PICK pc \in {"revSave", "revoked", "notFound"} :
              /\ apc' = [apc EXCEPT ![r] = pc]
              /\ pc = "revSave" => copy[r] # NoRow
      BY <1>10 DEF RevokeInMemory
    <2>2. /\ apc[r] = "revMem"
          /\ mem' \in [Accounts -> {"none", "live", "revoked"}]
          /\ UNCHANGED <<rows, copy, key, barred, faults>>
      BY <1>10 DEF RevokeInMemory
    <2>3. AccTypeOK' /\ RegistersItself' /\ InsertedOnce' /\ CopyOfRow' /\ InsertedIsThere'
      <3>1. AccTypeOK'
        BY <2>1, <2>2
      <3>2. RegistersItself' /\ CopyOfRow'
        BY <2>1, <2>2
      <3>3. InsertedOnce' /\ InsertedIsThere'
        BY <2>1, <2>2
      <3> QED
        BY <3>1, <3>2, <3>3
    <2>4. RowsUnique'
      BY <2>1, <2>2
    <2>5. InactiveIsRevoked'
      <3>1. \A x \in Requests : RevokedBySome(x) => RevokedBySome(x)'
        BY <2>1, <2>2
      <3> QED
        BY <2>1, <2>2, <3>1
    <2>6. BarredStays'
      BY <2>1, <2>2
    <2> QED
      BY <2>3, <2>4, <2>5, <2>6
  <1>11. CASE SaveRevoked(r)
    <2> DEFINE a == key[r]
               c == [copy[r] EXCEPT !.active = FALSE]
    <2>1. /\ a \in Accounts /\ rows[a] # NoRow /\ a # r
          /\ c \in Row /\ c # NoRow /\ ~ c.active
          /\ c.name = rows[a].name /\ c.email = rows[a].email
      <3>1. apc[r] = "revSave" /\ copy[r] \in Row
        BY <1>11 DEF SaveRevoked
      <3>2. c \in Row /\ c # NoRow /\ ~ c.active /\ c.name = copy[r].name
               /\ c.email = copy[r].email
        BY <3>1, InactiveRow
      <3> QED
        BY <3>1, <3>2
    <2>2. /\ apc[r] = "revSave" /\ apc' = [apc EXCEPT ![r] = "revoked"]
          /\ rows' = [rows EXCEPT ![a] = c]
          /\ UNCHANGED <<mem, copy, key, faults>>
          /\ barred' = IF Holders(a) = {} THEN barred \cup {a} ELSE barred
      BY <1>11 DEF SaveRevoked
    <2> HIDE DEF c
    <2>3. AccTypeOK'
      BY <2>1, <2>2
    <2>4. RegistersItself' /\ InsertedOnce' /\ CopyOfRow' /\ InsertedIsThere'
      BY <2>1, <2>2
    <2>5. RowsUnique'
      BY <2>1, <2>2
    <2>6. InactiveIsRevoked'
      <3>1. \A x \in Requests : RevokedBySome(x) => RevokedBySome(x)'
        BY <2>2
      <3>2. RevokedBySome(a)'
        BY <2>2
      <3> QED
        BY <2>1, <2>2, <3>1, <3>2
    <2>7. BarredStays'
      <3>1. \A x \in Accounts : Holders(x)' \subseteq Holders(x)
        BY <2>2
      <3> QED
        BY <2>1, <2>2, <3>1
    <2> QED
      BY <2>3, <2>4, <2>5, <2>6, <2>7
  <1>12. CASE CallFails(r)
    BY <1>12 DEF CallFails
  <1> QED
    BY <1>1, <1>2, <1>3, <1>4, <1>5, <1>6, <1>7, <1>8, <1>9, <1>10, <1>11,
       <1>12 DEF AccStep

LEMMA AccInvRestart == AccInv /\ ForgetKeys => AccInv'
  BY AccountsAssumption
  DEF ForgetKeys, AccInv, AccTypeOK, RegistersItself, InsertedOnce, CopyOfRow,
      RowsUnique, InactiveIsRevoked, InsertedIsThere, BarredStays, Accounts,
      AccPC, Answered, Registering, Carrying, Stored, Holders, RevokedBySome, Row

-----------------------------------------------------------------------------
(* Databases                                                               *)

\* No name has more parts than fit.
NamesFit ==
    /\ \A d \in Databases : Len(name[d]) <= MaxParts
    /\ \A r \in Requests : dpc[r] = "provCreate" => Len(want[r]) <= MaxParts

\* A request asks for a name when it provisions.
WantsAName ==
    \A r \in Requests : op[r] \in {"provision", "branch", "branchFrom"} => want[r] \in Names

\* What a request is doing fits what it was asked.
OnCourse ==
    \A r \in Requests :
        /\ dpc[r] = "new" => op[r] = "none"
        /\ dpc[r] \in {"provFind", "provCreate"} =>
              op[r] \in {"provision", "branch", "branchFrom"} /\ src[r] # r
        /\ dpc[r] \in {"snapLock", "snapCopy", "snapSave", "snapRelease", "snapAbort"}
              /\ src[r] # r => op[r] \in {"snapshot", "branch", "merge"}

\* A request becomes the source of its own snapshots when its row is there.
SourceIsRow ==
    \A r \in Requests : src[r] = r <=> name[r] # NoName

\* Only a branch that is being restored is its own target.
TargetIsOwn ==
    \A r \in Requests : dst[r] = r =>
        /\ dpc[r] \in {"restFind", "restLock", "restRemove", "restCopy",
                       "restRelease", "restAbort"} \cup Final
        /\ src[r] = r

\* A snapshot is there when it is needed, and it is one of the database
\* that is restored.
SnapshotChosen ==
    \A r \in Requests :
        /\ dpc[r] = "snapSave" => taken[r] # NoSnap
        /\ dpc[r] = "snapRelease" /\ src[r] # r => snap[r] # NoSnap
        /\ dpc[r] \in {"provFind", "provCreate", "restFind", "duplicate"}
              /\ op[r] # "provision" => snap[r] # NoSnap
        /\ src[r] = r /\ op[r] # "provision" => snap[r] # NoSnap
        /\ dpc[r] = "duplicate" => src[r] = r
        /\ src[r] = r => op[r] \in {"provision", "branch", "branchFrom"}
        /\ op[r] = "provision" => dpc[r] \notin {"duplicate", "restFind"}
        /\ dpc[r] \in {"restLock", "restRemove", "restCopy"} =>
              snap[r] # NoSnap /\ snap[r].db = dst[r]

Sent == {w \in Writes : sentTo[w] # NoOne}

\* What a database may hold: writes that were sent, and of those sent to others
\* all of its cut or none.
MayHold(c, sent, own, part) == c \subseteq sent /\ c \ own \in {{}, part}

Allowed(d, c) == MayHold(c, Sent, Own(d), cut[d])

\* Every content, in the directory or in a snapshot of the database, is one it
\* may hold.
ContentsAllowed ==
    /\ \A d \in Databases : Allowed(d, content[d])
    /\ \A p \in snaps : Allowed(p.db, p.content)
    /\ \A r \in Requests : taken[r] # NoSnap => Allowed(taken[r].db, taken[r].content)
    /\ \A r \in Requests : snap[r] # NoSnap => Allowed(snap[r].db, snap[r].content)

\* Before it is made, nothing was cut off for a branch, nothing was sent to it
\* unless it has a row, and its future content holds nothing sent to it.
BeforeTheCut ==
    \A r \in Requests :
        /\ name[r] = NoName => Own(r) = {}
        /\ dst[r] # r => cut[r] = {}
        /\ dst[r] # r /\ snap[r] # NoSnap => snap[r].content \cap Own(r) = {}

\* The source's content, the copy of it and the snapshot have been seen.
CutSeen ==
    \A r \in Requests : op[r] = "branch" =>
        /\ dpc[r] \notin Final \cup {"new"} /\ src[r] # r => content[src[r]] \in seen[r]
        /\ dpc[r] = "snapSave" /\ src[r] # r => taken[r].content \in seen[r]
        /\ snap[r] # NoSnap => snap[r].content \in seen[r]
        /\ dst[r] = r => cut[r] \in seen[r]

DbInv ==
    /\ DbTypeOK
    /\ NamesFit
    /\ WantsAName
    /\ OnCourse
    /\ SourceIsRow
    /\ TargetIsOwn
    /\ SnapshotChosen
    /\ ContentsAllowed
    /\ BeforeTheCut
    /\ CutSeen

\* Names have one to three parts, and those that fit can be extended.
LEMMA NamesHaveParts ==
    ASSUME NEW n \in Names
    PROVE  Len(n) \in 1..3 /\ n # NoName
  <1>1. CASE \E b \in Bases : n = <<b>>
    BY <1>1 DEF NoName
  <1>2. CASE \E b \in Bases, l \in Labels : n = <<b, l>>
    BY <1>2 DEF NoName
  <1>3. CASE \E b \in Bases, l, m \in Labels : n = <<b, l, m>>
    BY <1>3 DEF NoName
  <1> QED
    BY <1>1, <1>2, <1>3 DEF Names

LEMMA AppendToOne ==
    ASSUME NEW b, NEW l
    PROVE  Append(<<b>>, l) = <<b, l>>
  <1> DEFINE S == {b, l}
  <1>1. /\ <<b>> \in Seq(S) /\ <<b, l>> \in Seq(S)
        /\ Len(<<b>>) = 1 /\ Len(<<b, l>>) = 2
    OBVIOUS
  <1>2. Append(<<b>>, l) \in Seq(S) /\ Len(Append(<<b>>, l)) = 2
    BY <1>1, AppendProperties
  <1>3. \A i \in 1..2 : Append(<<b>>, l)[i] = <<b, l>>[i]
    BY <1>1, AppendProperties
  <1> QED
    BY <1>1, <1>2, <1>3, SeqEqual

LEMMA AppendToTwo ==
    ASSUME NEW b, NEW m, NEW l
    PROVE  Append(<<b, m>>, l) = <<b, m, l>>
  <1> DEFINE S == {b, m, l}
  <1>1. /\ <<b, m>> \in Seq(S) /\ <<b, m, l>> \in Seq(S)
        /\ Len(<<b, m>>) = 2 /\ Len(<<b, m, l>>) = 3
    OBVIOUS
  <1>2. Append(<<b, m>>, l) \in Seq(S) /\ Len(Append(<<b, m>>, l)) = 3
    BY <1>1, AppendProperties
  <1>3. \A i \in 1..3 : Append(<<b, m>>, l)[i] = <<b, m, l>>[i]
    BY <1>1, AppendProperties
  <1> QED
    BY <1>1, <1>2, <1>3, SeqEqual

LEMMA BranchNames ==
    ASSUME NEW n \in Names, Len(n) <= 2, NEW l \in Labels
    PROVE  Append(n, l) \in Names
  <1>1. CASE \E b \in Bases : n = <<b>>
    BY <1>1, AppendToOne DEF Names
  <1>2. CASE \E b \in Bases, m \in Labels : n = <<b, m>>
    BY <1>2, AppendToTwo DEF Names
  <1>3. CASE \E b \in Bases, k, m \in Labels : n = <<b, k, m>>
    BY <1>3
  <1> QED
    BY <1>1, <1>2, <1>3 DEF Names

LEMMA DbInvInit == DbInit => DbInv
  <1> SUFFICES ASSUME DbInit PROVE DbInv
    OBVIOUS
  <1> USE DatabasesAssumption DEF DbInit, Databases
  <1>1. <<OriginName>> \in Names /\ Len(<<OriginName>>) = 1 /\ Len(NoName) = 0
    BY DEF Names, NoName
  <1>2. DbTypeOK
    BY <1>1 DEF DbTypeOK, DbPC, Ops, Final
  <1>3. NamesFit
    <2>1. \A d \in Databases : name[d] \in {NoName, <<OriginName>>}
      OBVIOUS
    <2>2. \A d \in Databases : Len(name[d]) <= MaxParts
      <3> TAKE d \in Databases
      <3>1. 0 <= MaxParts /\ 1 <= MaxParts
        OBVIOUS
      <3>2. CASE name[d] = NoName
        BY <1>1, <3>1, <3>2
      <3>3. CASE name[d] = <<OriginName>>
        BY <1>1, <3>1, <3>3
      <3> QED
        BY <2>1, <3>2, <3>3
    <2> QED
      BY <2>2 DEF NamesFit
  <1>4. WantsAName /\ OnCourse /\ SourceIsRow /\ TargetIsOwn
    BY DEF WantsAName, OnCourse, SourceIsRow, TargetIsOwn
  <1>5. SnapshotChosen
    BY DEF SnapshotChosen
  <1>6. ContentsAllowed
    BY DEF ContentsAllowed, Allowed, MayHold
  <1>7. BeforeTheCut /\ CutSeen
    BY DEF BeforeTheCut, CutSeen, Own
  <1> QED
    BY <1>2, <1>3, <1>4, <1>5, <1>6, <1>7 DEF DbInv

\* A step that leaves contents, copies and what was sent or cut alone.
LEMMA ContentsKept ==
    ASSUME DbInv, UNCHANGED <<content, snaps, taken, snap, sentTo, cut>>
    PROVE  ContentsAllowed'
  <1> USE DEF DbInv, DbTypeOK, Snapshot
  <1>1. Sent' = Sent /\ \A d \in Databases : Own(d)' = Own(d)
    BY DEF Sent, Own
  <1> QED
    BY <1>1 DEF ContentsAllowed, Allowed

LEMMA DbInvStep ==
    ASSUME DbInv, NEW r \in Requests, DbStep(r)
    PROVE  DbInv'
  <1>a. Origin \notin Requests /\ NoSnap \notin Snapshot /\ MaxParts \in {1, 2}
    BY DatabasesAssumption
  <1> USE <1>a
      DEF DbInv, DbTypeOK, Databases, DbPC, Ops, Final, files, locks, args, history,
          DbGoto, AfterSnapshot, Snapshot
  <1>1. CASE LockSnapshot(r)
    <2>1. DbTypeOK'
      BY <1>1 DEF LockSnapshot, SnapshotChosen
    <2>2. NamesFit' /\ WantsAName'
      BY <1>1 DEF LockSnapshot, NamesFit, WantsAName
    <2>3. OnCourse'
      BY <1>1 DEF LockSnapshot, OnCourse, SourceIsRow
    <2>4. SourceIsRow' /\ TargetIsOwn'
      BY <1>1 DEF LockSnapshot, SourceIsRow, TargetIsOwn, SnapshotChosen
    <2>5. SnapshotChosen'
      BY <1>1 DEF LockSnapshot, SnapshotChosen, OnCourse, SourceIsRow, TargetIsOwn
    <2>6. ContentsAllowed'
      BY <1>1, ContentsKept DEF LockSnapshot
    <2>7. BeforeTheCut'
      <3>1. cut' = cut /\ \A d \in Databases : Own(d)' = Own(d)
        BY <1>1 DEF LockSnapshot, Own
      <3> QED
        BY <1>1, <3>1 DEF LockSnapshot, BeforeTheCut, SourceIsRow, TargetIsOwn, SnapshotChosen
    <2>8. CutSeen'
      BY <1>1 DEF LockSnapshot, CutSeen, SnapshotChosen
    <2> QED
      BY <2>1, <2>2, <2>3, <2>4, <2>5, <2>6, <2>7, <2>8
  <1>2. CASE CopyDirectory(r)
    <2>1. DbTypeOK'
      BY <1>2 DEF CopyDirectory, SnapshotChosen
    <2>2. NamesFit' /\ WantsAName'
      BY <1>2 DEF CopyDirectory, NamesFit, WantsAName
    <2>3. OnCourse'
      BY <1>2 DEF CopyDirectory, OnCourse, SourceIsRow
    <2>4. SourceIsRow' /\ TargetIsOwn'
      BY <1>2 DEF CopyDirectory, SourceIsRow, TargetIsOwn, SnapshotChosen
    <2>5. SnapshotChosen'
      BY <1>2 DEF CopyDirectory, SnapshotChosen, OnCourse, SourceIsRow, TargetIsOwn
    <2>6. ContentsAllowed'
      <3>1. Sent' = Sent /\ cut' = cut /\ \A d \in Databases : Own(d)' = Own(d)
        BY <1>2 DEF CopyDirectory, Sent, Own
      <3> QED
        BY <1>2, <3>1 DEF CopyDirectory, ContentsAllowed, Allowed, SnapshotChosen
    <2>7. BeforeTheCut'
      <3>1. cut' = cut /\ \A d \in Databases : Own(d)' = Own(d)
        BY <1>2 DEF CopyDirectory, Own
      <3> QED
        BY <1>2, <3>1 DEF CopyDirectory, BeforeTheCut, SourceIsRow, TargetIsOwn, SnapshotChosen
    <2>8. CutSeen'
      BY <1>2 DEF CopyDirectory, CutSeen, SnapshotChosen
    <2> QED
      BY <2>1, <2>2, <2>3, <2>4, <2>5, <2>6, <2>7, <2>8
  <1>3. CASE SaveSnapshot(r)
    <2>1. DbTypeOK'
      BY <1>3 DEF SaveSnapshot, SnapshotChosen
    <2>2. NamesFit' /\ WantsAName'
      BY <1>3 DEF SaveSnapshot, NamesFit, WantsAName
    <2>3. OnCourse'
      BY <1>3 DEF SaveSnapshot, OnCourse, SourceIsRow
    <2>4. SourceIsRow' /\ TargetIsOwn'
      BY <1>3 DEF SaveSnapshot, SourceIsRow, TargetIsOwn, SnapshotChosen
    <2>5. SnapshotChosen'
      BY <1>3 DEF SaveSnapshot, SnapshotChosen, OnCourse, SourceIsRow, TargetIsOwn
    <2>6. ContentsAllowed'
      <3>1. Sent' = Sent /\ cut' = cut /\ \A d \in Databases : Own(d)' = Own(d)
        BY <1>3 DEF SaveSnapshot, Sent, Own
      <3> QED
        BY <1>3, <3>1 DEF SaveSnapshot, ContentsAllowed, Allowed, SnapshotChosen
    <2>7. BeforeTheCut'
      <3>1. cut' = cut /\ \A d \in Databases : Own(d)' = Own(d)
        BY <1>3 DEF SaveSnapshot, Own
      <3> QED
        BY <1>3, <3>1 DEF SaveSnapshot, BeforeTheCut, SourceIsRow, TargetIsOwn, SnapshotChosen
    <2>8. CutSeen'
      BY <1>3 DEF SaveSnapshot, CutSeen, SnapshotChosen
    <2> QED
      BY <2>1, <2>2, <2>3, <2>4, <2>5, <2>6, <2>7, <2>8
  <1>4. CASE ReleaseSnapshot(r)
    <2>1. DbTypeOK'
      BY <1>4 DEF ReleaseSnapshot, SnapshotChosen
    <2>2. NamesFit' /\ WantsAName'
      BY <1>4 DEF ReleaseSnapshot, NamesFit, WantsAName
    <2>3. OnCourse'
      BY <1>4 DEF ReleaseSnapshot, OnCourse, SourceIsRow
    <2>4. SourceIsRow' /\ TargetIsOwn'
      BY <1>4 DEF ReleaseSnapshot, SourceIsRow, TargetIsOwn, SnapshotChosen
    <2>5. SnapshotChosen'
      BY <1>4 DEF ReleaseSnapshot, SnapshotChosen, OnCourse, SourceIsRow, TargetIsOwn
    <2>6. ContentsAllowed'
      BY <1>4, ContentsKept DEF ReleaseSnapshot
    <2>7. BeforeTheCut'
      <3>1. cut' = cut /\ \A d \in Databases : Own(d)' = Own(d)
        BY <1>4 DEF ReleaseSnapshot, Own
      <3> QED
        BY <1>4, <3>1 DEF ReleaseSnapshot, BeforeTheCut, SourceIsRow, TargetIsOwn, SnapshotChosen
    <2>8. CutSeen'
      BY <1>4 DEF ReleaseSnapshot, CutSeen, SnapshotChosen
    <2> QED
      BY <2>1, <2>2, <2>3, <2>4, <2>5, <2>6, <2>7, <2>8
  <1>5. CASE CheckName(r)
    <2>1. DbTypeOK'
      BY <1>5 DEF CheckName, SnapshotChosen
    <2>2. NamesFit' /\ WantsAName'
      <3>1. Len(want[r]) \in 1..3
        BY <1>5, NamesHaveParts DEF CheckName, OnCourse, WantsAName
      <3> QED
        BY <1>5, <3>1 DEF CheckName, NamesFit, WantsAName
    <2>3. OnCourse'
      BY <1>5 DEF CheckName, OnCourse, SourceIsRow
    <2>4. SourceIsRow' /\ TargetIsOwn'
      BY <1>5 DEF CheckName, SourceIsRow, TargetIsOwn, SnapshotChosen
    <2>5. SnapshotChosen'
      BY <1>5 DEF CheckName, SnapshotChosen, OnCourse, SourceIsRow, TargetIsOwn
    <2>6. ContentsAllowed'
      BY <1>5, ContentsKept DEF CheckName
    <2>7. BeforeTheCut'
      <3>1. cut' = cut /\ \A d \in Databases : Own(d)' = Own(d)
        BY <1>5 DEF CheckName, Own
      <3> QED
        BY <1>5, <3>1 DEF CheckName, BeforeTheCut, SourceIsRow, TargetIsOwn, SnapshotChosen
    <2>8. CutSeen'
      BY <1>5 DEF CheckName, CutSeen, SnapshotChosen
    <2> QED
      BY <2>1, <2>2, <2>3, <2>4, <2>5, <2>6, <2>7, <2>8
  <1>6. CASE CreateDatabase(r)
    <2>a. want[r] \in Names /\ want[r] # NoName /\ name[r] = NoName /\ src[r] # r
      BY <1>6, NamesHaveParts DEF CreateDatabase, OnCourse, WantsAName, SourceIsRow
    <2>b. \/ /\ name' = [name EXCEPT ![r] = want[r]]
             /\ src' = [src EXCEPT ![r] = r]
             /\ DbGoto(r, "snapLock")
          \/ DbGoto(r, "failed") /\ UNCHANGED <<name, src>>
      BY <1>6 DEF CreateDatabase
    <2>1. DbTypeOK'
      <3>1. /\ name' \in [Databases -> Names \cup {NoName}]
            /\ src' \in [Requests -> Databases]
            /\ dpc' \in [Requests -> DbPC]
        BY SMTT(30), <2>a, <2>b
      <3>2. /\ present' = present \cup {r}
            /\ UNCHANGED <<content, conn, snaps, locks, op, dst, want, taken, snap, history>>
        BY <1>6 DEF CreateDatabase
      <3> QED
        BY <3>1, <3>2
    <2>2. NamesFit' /\ WantsAName'
      <3>1. Len(want[r]) <= MaxParts
        BY <1>6 DEF CreateDatabase, NamesFit
      <3>2. \A d \in Databases : name'[d] \in {name[d], want[r]} /\ (name'[d] # name[d] => d = r)
        BY <2>b
      <3>3. (\A d \in Databases : Len(name[d]) <= MaxParts)'
        BY <3>1, <3>2 DEF NamesFit
      <3>4. \A q \in Requests : dpc'[q] = "provCreate" => dpc[q] = "provCreate" /\ want'[q] = want[q]
        BY <1>6, <2>b DEF CreateDatabase
      <3>5. WantsAName'
        BY <1>6 DEF CreateDatabase, WantsAName
      <3> QED
        BY <3>3, <3>4, <3>5 DEF NamesFit
    <2>3. OnCourse'
      BY <1>6 DEF CreateDatabase, OnCourse, SourceIsRow
    <2>4. SourceIsRow' /\ TargetIsOwn'
      <3>1. UNCHANGED <<dst>> /\ dpc[r] = "provCreate"
        BY <1>6 DEF CreateDatabase
      <3>2. SourceIsRow'
        <4>1. CASE name' = [name EXCEPT ![r] = want[r]] /\ src' = [src EXCEPT ![r] = r]
          BY <2>a, <4>1 DEF SourceIsRow
        <4>2. CASE UNCHANGED <<name, src>>
          BY <4>2 DEF SourceIsRow
        <4> QED
          BY <2>b, <4>1, <4>2
      <3>3. TargetIsOwn'
        BY <2>a, <2>b, <3>1 DEF TargetIsOwn
      <3> QED
        BY <3>2, <3>3
    <2>5. SnapshotChosen'
      BY <1>6 DEF CreateDatabase, SnapshotChosen, OnCourse, SourceIsRow, TargetIsOwn
    <2>6. ContentsAllowed'
      BY <1>6, ContentsKept DEF CreateDatabase
    <2>7. BeforeTheCut'
      <3>1. cut' = cut /\ \A d \in Databases : Own(d)' = Own(d)
        BY <1>6 DEF CreateDatabase, Own
      <3> QED
        BY <1>6, <2>a, <2>b, <3>1 DEF CreateDatabase, BeforeTheCut
    <2>8. CutSeen'
      BY <1>6 DEF CreateDatabase, CutSeen, SnapshotChosen
    <2> QED
      BY <2>1, <2>2, <2>3, <2>4, <2>5, <2>6, <2>7, <2>8
  <1>7. CASE Duplicate(r)
    <2> DEFINE p == [db |-> r, by |-> r, content |-> snap[r].content]
    <2>a. /\ snap[r] \in Snapshot /\ snap[r] # NoSnap /\ src[r] = r /\ dst[r] # r
          /\ p \in Snapshot /\ p # NoSnap
          /\ p.db = r /\ p.content = snap[r].content
      <3>1. snap[r] \in Snapshot /\ snap[r] # NoSnap /\ src[r] = r /\ dst[r] # r
        <4>1. dpc[r] = "duplicate" /\ snap[r] \in Snapshot \cup {NoSnap}
          BY <1>7 DEF Duplicate
        <4>2. op[r] # "provision" /\ src[r] = r
          BY <4>1 DEF SnapshotChosen
        <4>3. dst[r] # r
          BY <4>1 DEF TargetIsOwn
        <4>4. snap[r] # NoSnap
          BY <4>1, <4>2 DEF SnapshotChosen
        <4> QED
          BY <4>1, <4>2, <4>3, <4>4
      <3>2. p \in Snapshot
        BY <3>1
      <3> QED
        BY <3>1, <3>2
    <2>b. /\ snaps' = snaps \cup {p} /\ snap' = [snap EXCEPT ![r] = p]
          /\ cut' = [cut EXCEPT ![r] = p.content]
          /\ dst' = [dst EXCEPT ![r] = r]
          /\ dpc[r] = "duplicate" /\ dpc' = [dpc EXCEPT ![r] = "restFind"]
          /\ UNCHANGED <<name, present, content, conn, locks, op, src, want, taken,
                         sentTo, seen, faults>>
      BY <1>7, <2>a DEF Duplicate
    <2> HIDE DEF p
    <2>1. DbTypeOK'
      BY <2>a, <2>b
    <2>2. NamesFit' /\ WantsAName'
      BY <2>a, <2>b DEF NamesFit, WantsAName
    <2>3. OnCourse'
      BY <2>a, <2>b DEF OnCourse, SourceIsRow
    <2>4. SourceIsRow' /\ TargetIsOwn'
      BY <2>a, <2>b DEF SourceIsRow, TargetIsOwn, SnapshotChosen
    <2>5. SnapshotChosen'
      BY <2>a, <2>b DEF SnapshotChosen, OnCourse, SourceIsRow, TargetIsOwn
    <2>c. Sent' = Sent /\ \A d \in Databases : Own(d)' = Own(d)
      BY <2>b DEF Sent, Own
    <2>d. \A d \in Databases : d # r => cut'[d] = cut[d]
      BY <2>a, <2>b
    <2>6. ContentsAllowed'
      <3>1. cut[r] = {} /\ cut'[r] = p.content /\ p.content \cap Own(r) = {}
        BY <2>a, <2>b DEF BeforeTheCut
      <3>2. \A d \in Databases : \A c : Allowed(d, c) => MayHold(c, Sent', Own(d)', cut'[d])
        BY <2>c, <2>d, <3>1 DEF Allowed, MayHold
      <3>3. MayHold(p.content, Sent', Own(r)', cut'[r])
        BY <2>a, <2>c, <3>1 DEF MayHold, ContentsAllowed, Allowed
      <3> USE <2>a, <2>b, <3>2, <3>3 DEF ContentsAllowed
      <3>4. \A d \in Databases : Allowed(d, content[d])'
        BY DEF Allowed
      <3>5. \A q \in snaps' : MayHold(q.content, Sent', Own(q.db)', cut'[q.db])
        OBVIOUS
      <3>6. (\A q \in Requests : taken[q] # NoSnap => Allowed(taken[q].db, taken[q].content))'
        BY DEF Allowed
      <3>7. ASSUME NEW q \in Requests, snap'[q] # NoSnap
            PROVE  MayHold(snap'[q].content, Sent', Own(snap[q].db)', cut'[snap'[q].db])
        <4>1. CASE q = r
          BY <4>1
        <4>2. CASE q # r
          BY <3>7, <4>2
        <4> QED
          BY <4>1, <4>2
      <3> QED
        BY <3>4, <3>5, <3>6, <3>7 DEF Allowed
    <2>7. BeforeTheCut'
      BY <2>a, <2>b, <2>c, <2>d DEF BeforeTheCut
    <2>8. CutSeen'
      BY <2>a, <2>b DEF CutSeen, SnapshotChosen
    <2> QED
      BY <2>1, <2>2, <2>3, <2>4, <2>5, <2>6, <2>7, <2>8
  <1>8. CASE FindRestore(r)
    <2>1. DbTypeOK'
      BY <1>8 DEF FindRestore, SnapshotChosen
    <2>2. NamesFit' /\ WantsAName'
      BY <1>8 DEF FindRestore, NamesFit, WantsAName
    <2>3. OnCourse'
      BY <1>8 DEF FindRestore, OnCourse, SourceIsRow
    <2>4. SourceIsRow' /\ TargetIsOwn'
      BY <1>8 DEF FindRestore, SourceIsRow, TargetIsOwn, SnapshotChosen
    <2>5. SnapshotChosen'
      BY <1>8 DEF FindRestore, SnapshotChosen, OnCourse, SourceIsRow, TargetIsOwn
    <2>6. ContentsAllowed'
      BY <1>8, ContentsKept DEF FindRestore
    <2>7. BeforeTheCut'
      <3>1. cut' = cut /\ \A d \in Databases : Own(d)' = Own(d)
        BY <1>8 DEF FindRestore, Own
      <3> QED
        BY <1>8, <3>1 DEF FindRestore, BeforeTheCut, SourceIsRow, TargetIsOwn, SnapshotChosen
    <2>8. CutSeen'
      BY <1>8 DEF FindRestore, CutSeen, SnapshotChosen
    <2> QED
      BY <2>1, <2>2, <2>3, <2>4, <2>5, <2>6, <2>7, <2>8
  <1>9. CASE LockRestore(r)
    <2>1. DbTypeOK'
      <3>1. /\ restLock' \in {restLock, [restLock EXCEPT ![dst[r]] = r]}
            /\ dpc' \in {[dpc EXCEPT ![r] = "restRemove"], [dpc EXCEPT ![r] = "failed"]}
            /\ UNCHANGED <<files, snapLock, args, history, faults>>
        BY <1>9 DEF LockRestore
      <3> QED
        BY <3>1
    <2>2. NamesFit' /\ WantsAName'
      BY <1>9 DEF LockRestore, NamesFit, WantsAName
    <2>3. OnCourse'
      BY <1>9 DEF LockRestore, OnCourse, SourceIsRow
    <2>4. SourceIsRow' /\ TargetIsOwn'
      BY <1>9 DEF LockRestore, SourceIsRow, TargetIsOwn, SnapshotChosen
    <2>5. SnapshotChosen'
      BY <1>9 DEF LockRestore, SnapshotChosen, OnCourse, SourceIsRow, TargetIsOwn
    <2>6. ContentsAllowed'
      BY <1>9, ContentsKept DEF LockRestore
    <2>7. BeforeTheCut'
      <3>1. cut' = cut /\ \A d \in Databases : Own(d)' = Own(d)
        BY <1>9 DEF LockRestore, Own
      <3> QED
        BY <1>9, <3>1 DEF LockRestore, BeforeTheCut, SourceIsRow, TargetIsOwn, SnapshotChosen
    <2>8. CutSeen'
      BY <1>9 DEF LockRestore, CutSeen, SnapshotChosen
    <2> QED
      BY <2>1, <2>2, <2>3, <2>4, <2>5, <2>6, <2>7, <2>8
  <1>10. CASE RemoveDirectory(r)
    <2>1. DbTypeOK'
      BY <1>10 DEF RemoveDirectory, Seen, SnapshotChosen
    <2>2. NamesFit' /\ WantsAName'
      BY <1>10 DEF RemoveDirectory, NamesFit, WantsAName
    <2>3. OnCourse'
      BY <1>10 DEF RemoveDirectory, OnCourse, SourceIsRow
    <2>4. SourceIsRow' /\ TargetIsOwn'
      BY <1>10 DEF RemoveDirectory, SourceIsRow, TargetIsOwn, SnapshotChosen
    <2>5. SnapshotChosen'
      BY <1>10 DEF RemoveDirectory, SnapshotChosen, OnCourse, SourceIsRow, TargetIsOwn
    <2>6. ContentsAllowed'
      <3>1. Sent' = Sent /\ cut' = cut /\ \A d \in Databases : Own(d)' = Own(d)
        BY <1>10 DEF RemoveDirectory, Sent, Own
      <3> QED
        <4>1. \A t, o, c : MayHold({}, t, o, c)
          BY DEF MayHold
        <4> QED
          BY <1>10, <3>1, <4>1 DEF RemoveDirectory, ContentsAllowed, Allowed
    <2>7. BeforeTheCut'
      <3>1. cut' = cut /\ \A d \in Databases : Own(d)' = Own(d)
        BY <1>10 DEF RemoveDirectory, Own
      <3> QED
        BY <1>10, <3>1 DEF RemoveDirectory, BeforeTheCut, SourceIsRow, TargetIsOwn, SnapshotChosen
    <2>8. CutSeen'
      BY <1>10 DEF RemoveDirectory, CutSeen, SnapshotChosen, Seen
    <2> QED
      BY <2>1, <2>2, <2>3, <2>4, <2>5, <2>6, <2>7, <2>8
  <1>11. CASE RestoreCopy(r)
    <2>1. DbTypeOK'
      <3>1. snap[r] \in Snapshot /\ snap[r].content \subseteq Writes
        BY <1>11 DEF RestoreCopy, SnapshotChosen
      <3>2. CASE dst[r] \in present
        BY <1>11, <3>2 DEF RestoreCopy
      <3>3. CASE dst[r] \notin present
        <4>1. Seen(dst[r], snap[r].content) \in [Requests -> SUBSET SUBSET Writes]
          BY <3>1 DEF Seen
        <4>2. [content EXCEPT ![dst[r]] = snap[r].content] \in [Databases -> SUBSET Writes]
          BY <3>1
        <4> QED
          <5>1. /\ present' = present \cup {dst[r]}
                /\ content' = [content EXCEPT ![dst[r]] = snap[r].content]
                /\ seen' = Seen(dst[r], snap[r].content)
                /\ dpc' = [dpc EXCEPT ![r] = "restRelease"]
                /\ UNCHANGED <<name, conn, snaps, locks, args, sentTo, cut, faults>>
            BY <1>11, <3>3 DEF RestoreCopy
          <5> QED
            BY <4>1, <4>2, <5>1
      <3> QED
        BY <3>2, <3>3
    <2>2. NamesFit' /\ WantsAName'
      BY <1>11 DEF RestoreCopy, NamesFit, WantsAName
    <2>3. OnCourse'
      BY <1>11 DEF RestoreCopy, OnCourse, SourceIsRow
    <2>4. SourceIsRow' /\ TargetIsOwn'
      BY <1>11 DEF RestoreCopy, SourceIsRow, TargetIsOwn, SnapshotChosen
    <2>5. SnapshotChosen'
      BY <1>11 DEF RestoreCopy, SnapshotChosen, OnCourse, SourceIsRow, TargetIsOwn
    <2>6. ContentsAllowed'
      <3>1. Sent' = Sent /\ cut' = cut /\ \A d \in Databases : Own(d)' = Own(d)
        BY <1>11 DEF RestoreCopy, Sent, Own
      <3> QED
        BY <1>11, <3>1 DEF RestoreCopy, ContentsAllowed, Allowed, SnapshotChosen
    <2>7. BeforeTheCut'
      <3>1. cut' = cut /\ \A d \in Databases : Own(d)' = Own(d)
        BY <1>11 DEF RestoreCopy, Own
      <3> QED
        BY <1>11, <3>1 DEF RestoreCopy, BeforeTheCut, SourceIsRow, TargetIsOwn, SnapshotChosen
    <2>8. CutSeen'
      <3>1. CASE dst[r] \in present
        BY <1>11, <3>1 DEF RestoreCopy, CutSeen
      <3>2. CASE dst[r] \notin present
        <4>1. /\ content' = [content EXCEPT ![dst[r]] = snap[r].content]
              /\ seen' = Seen(dst[r], snap[r].content)
              /\ dpc' = [dpc EXCEPT ![r] = "restRelease"]
              /\ UNCHANGED <<args, cut>>
          BY <1>11, <3>2 DEF RestoreCopy
        <4> QED
          BY <1>11, <4>1 DEF RestoreCopy, CutSeen, Seen
      <3> QED
        BY <3>1, <3>2
    <2> QED
      BY <2>1, <2>2, <2>3, <2>4, <2>5, <2>6, <2>7, <2>8
  <1>12. CASE ReleaseRestore(r)
    <2>1. DbTypeOK'
      BY <1>12 DEF ReleaseRestore, SnapshotChosen
    <2>2. NamesFit' /\ WantsAName'
      BY <1>12 DEF ReleaseRestore, NamesFit, WantsAName
    <2>3. OnCourse'
      BY <1>12 DEF ReleaseRestore, OnCourse, SourceIsRow
    <2>4. SourceIsRow' /\ TargetIsOwn'
      BY <1>12 DEF ReleaseRestore, SourceIsRow, TargetIsOwn, SnapshotChosen
    <2>5. SnapshotChosen'
      BY <1>12 DEF ReleaseRestore, SnapshotChosen, OnCourse, SourceIsRow, TargetIsOwn
    <2>6. ContentsAllowed'
      BY <1>12, ContentsKept DEF ReleaseRestore
    <2>7. BeforeTheCut'
      <3>1. cut' = cut /\ \A d \in Databases : Own(d)' = Own(d)
        BY <1>12 DEF ReleaseRestore, Own
      <3> QED
        BY <1>12, <3>1 DEF ReleaseRestore, BeforeTheCut, SourceIsRow, TargetIsOwn, SnapshotChosen
    <2>8. CutSeen'
      BY <1>12 DEF ReleaseRestore, CutSeen, SnapshotChosen
    <2> QED
      BY <2>1, <2>2, <2>3, <2>4, <2>5, <2>6, <2>7, <2>8
  <1>13. CASE DbCallFails(r)
    <2>1. DbTypeOK'
      BY <1>13 DEF DbCallFails, SnapshotChosen
    <2>2. NamesFit' /\ WantsAName'
      BY <1>13 DEF DbCallFails, NamesFit, WantsAName
    <2>3. OnCourse'
      BY <1>13 DEF DbCallFails, OnCourse, SourceIsRow
    <2>4. SourceIsRow' /\ TargetIsOwn'
      BY <1>13 DEF DbCallFails, SourceIsRow, TargetIsOwn, SnapshotChosen
    <2>5. SnapshotChosen'
      BY <1>13 DEF DbCallFails, SnapshotChosen, OnCourse, SourceIsRow, TargetIsOwn
    <2>6. ContentsAllowed'
      BY <1>13, ContentsKept DEF DbCallFails
    <2>7. BeforeTheCut'
      <3>1. cut' = cut /\ \A d \in Databases : Own(d)' = Own(d)
        BY <1>13 DEF DbCallFails, Own
      <3> QED
        BY <1>13, <3>1 DEF DbCallFails, BeforeTheCut, SourceIsRow, TargetIsOwn, SnapshotChosen
    <2>8. CutSeen'
      BY <1>13 DEF DbCallFails, CutSeen, SnapshotChosen
    <2> QED
      BY <2>1, <2>2, <2>3, <2>4, <2>5, <2>6, <2>7, <2>8
  <1> QED
    BY <1>1, <1>2, <1>3, <1>4, <1>5, <1>6, <1>7, <1>8, <1>9, <1>10, <1>11, <1>12, <1>13 DEF DbStep
\* What the route gives to a request is only its arguments.
LEMMA DbInvAsk ==
    ASSUME DbInv, NEW r \in Requests, NEW o \in Ops,
           NEW b \in Rows \cup {Origin}, NEW d \in Rows \cup {Origin},
           NEW n \in Names \cup {NoName}, NEW p \in snaps \cup {NoSnap},
           NEW pc \in {"provFind", "snapLock", "restFind"}, Ask(r, o, b, d, n, p, pc),
           o \in {"provision", "branch", "branchFrom"} => n \in Names,
           pc = "provFind" => o \in {"provision", "branchFrom"},
           pc = "snapLock" => o \in {"snapshot", "branch", "merge"},
           pc = "restFind" => o = "restore",
           o \in {"restore", "branchFrom"} => p # NoSnap,
           o \in {"branch", "merge"} => p = NoSnap
    PROVE  DbInv'
  <1> USE DatabasesAssumption
      DEF DbInv, DbTypeOK, Databases, DbPC, Ops, Final, files, locks, args, history,
          DbGoto, Snapshot, Ask
  <1>1. /\ name[r] = NoName /\ b \in Databases /\ b # r /\ d \in Databases /\ d # r
        /\ src[r] # r /\ dst[r] # r
    BY SMTT(30) DEF SourceIsRow, TargetIsOwn, OnCourse, Rows, SnapshotChosen
  <1>2. p \in Snapshot \cup {NoSnap}
    OBVIOUS
  <1>3. DbTypeOK'
    BY <1>1, <1>2
  <1>4. NamesFit' /\ WantsAName'
    BY DEF NamesFit, WantsAName
  <1>5. OnCourse'
    BY <1>1 DEF OnCourse
  <1>6. SourceIsRow' /\ TargetIsOwn'
    BY <1>1 DEF SourceIsRow, TargetIsOwn
  <1>7. SnapshotChosen'
    BY <1>1, <1>2 DEF SnapshotChosen
  <1>8. Sent' = Sent /\ cut' = cut /\ \A x \in Databases : Own(x)' = Own(x)
    BY DEF Sent, Own
  <1>9. ContentsAllowed'
    BY <1>8 DEF ContentsAllowed, Allowed
  <1>10. BeforeTheCut'
    BY <1>1, <1>8 DEF BeforeTheCut
  <1>11. CutSeen'
    BY <1>1 DEF CutSeen
  <1> QED
    BY <1>3, <1>4, <1>5, <1>6, <1>7, <1>9, <1>10, <1>11

LEMMA DbInvAskSomething ==
    ASSUME DbInv, NEW r \in Requests, AskSomething(r)
    PROVE  DbInv'
  <1> USE DEF Ops
  <1>a. \A p \in snaps : p # NoSnap
    BY DatabasesAssumption DEF DbInv, DbTypeOK
  <1>b. \A d \in Rows, l \in Labels : Append(name[d], l) \in Names
    <2> TAKE d \in Rows, l \in Labels
    <2>1. name[d] \in Names /\ Len(name[d]) <= MaxParts
      BY DEF Rows, DbInv, DbTypeOK, NamesFit
    <2>2. Len(name[d]) <= 2
      BY <2>1, NamesHaveParts, DatabasesAssumption
    <2> QED
      BY <2>1, <2>2, BranchNames
  <1>1. ASSUME NEW n \in Names, AskProvision(r, n) PROVE DbInv'
    BY <1>1, DbInvAsk DEF AskProvision
  <1>2. ASSUME NEW d \in Databases, AskSnapshot(r, d) PROVE DbInv'
    BY <1>2, DbInvAsk DEF AskSnapshot
  <1>3. ASSUME NEW d \in Databases, NEW p \in snaps, AskRestore(r, d, p) PROVE DbInv'
    BY <1>3, <1>a, <1>b, DbInvAsk DEF AskRestore
  <1>4. ASSUME NEW d \in Databases, NEW l \in Labels, AskBranch(r, d, l) PROVE DbInv'
    BY <1>4, <1>a, <1>b, DbInvAsk DEF AskBranch
  <1>5. ASSUME NEW d \in Databases, NEW l \in Labels, NEW p \in snaps,
               AskBranchFrom(r, d, l, p)
        PROVE  DbInv'
    BY <1>5, <1>a, <1>b, DbInvAsk DEF AskBranchFrom
  <1>6. ASSUME NEW b \in Databases, NEW d \in Databases, AskMerge(r, b, d) PROVE DbInv'
    BY <1>6, DbInvAsk DEF AskMerge
  <1> QED
    BY <1>1, <1>2, <1>3, <1>4, <1>5, <1>6 DEF AskSomething

\* A worker that writes, or finds its connection on deleted files.
LEMMA DbInvWrites ==
    ASSUME DbInv, NEW w \in Writes, NEW d \in Databases, WorkerWrites(w, d)
    PROVE  DbInv'
  <1> USE DatabasesAssumption
      DEF DbInv, DbTypeOK, Databases, DbPC, Ops, Final, locks, args, Snapshot
  <1>1. /\ sentTo[w] = NoOne /\ sentTo' = [sentTo EXCEPT ![w] = d] /\ name[d] # NoName
        /\ UNCHANGED <<name, snaps, locks, dpc, args, cut, faults>>
        /\ d # NoOne
    BY DEF WorkerWrites, Rows
  <1>2. \/ UNCHANGED <<present, content, conn, seen>>
        \/ /\ present' = present \cup {d}
           /\ content' = [content EXCEPT ![d] = @ \cup {w}]
           /\ conn' = [conn EXCEPT ![d] = "open"]
           /\ seen' = Seen(d, content[d] \cup {w})
    BY DEF WorkerWrites
  <1>3. DbTypeOK'
    <2>1. Seen(d, content[d] \cup {w}) \in [Requests -> SUBSET SUBSET Writes]
      BY DEF Seen
    <2>2. sentTo' \in [Writes -> Databases \cup {NoOne}]
      BY <1>1
    <2>3. /\ present' \subseteq Databases
          /\ content' \in [Databases -> SUBSET Writes]
          /\ conn' \in [Databases -> {"closed", "open", "stale"}]
          /\ seen' \in [Requests -> SUBSET SUBSET Writes]
      <3>1. CASE UNCHANGED <<present, content, conn, seen>>
        BY <3>1
      <3>2. CASE /\ present' = present \cup {d}
                 /\ content' = [content EXCEPT ![d] = @ \cup {w}]
                 /\ conn' = [conn EXCEPT ![d] = "open"]
                 /\ seen' = Seen(d, content[d] \cup {w})
        <4>1. content' \in [Databases -> SUBSET Writes]
          BY <3>2
        <4>2. present' \subseteq Databases /\ conn' \in [Databases -> {"closed", "open", "stale"}]
          BY <3>2
        <4> QED
          BY <2>1, <3>2, <4>1, <4>2
      <3> QED
        BY <1>2, <3>1, <3>2
    <2> QED
      BY <1>1, <2>2, <2>3
  <1>4. NamesFit' /\ WantsAName' /\ OnCourse' /\ SourceIsRow' /\ TargetIsOwn' /\ SnapshotChosen'
    BY <1>1 DEF NamesFit, WantsAName, OnCourse, SourceIsRow, TargetIsOwn, SnapshotChosen
  <1>5. /\ Sent' = Sent \cup {w} /\ w \notin Sent
        /\ \A x \in Databases : w \notin Own(x)
        /\ Own(d)' = Own(d) \cup {w}
        /\ \A x \in Databases : x # d => Own(x)' = Own(x)
    <2>1. \A v \in Writes : sentTo'[v] = IF v = w THEN d ELSE sentTo[v]
      BY <1>1
    <2>2. Sent' = Sent \cup {w} /\ w \notin Sent
      BY <1>1, <2>1 DEF Sent
    <2>3. \A x \in Databases : w \notin Own(x)
      BY <1>1 DEF Own
    <2>4. Own(d)' = Own(d) \cup {w}
      BY <1>1, <2>1 DEF Own
    <2>5. \A x \in Databases : x # d => Own(x)' = Own(x)
      BY <1>1, <2>1 DEF Own
    <2> QED
      BY <2>2, <2>3, <2>4, <2>5
  <1>6. ASSUME NEW x \in Databases, NEW c, Allowed(x, c)
        PROVE  MayHold(c, Sent', Own(x)', cut'[x])
    BY <1>1, <1>5, <1>6 DEF Allowed, MayHold
  <1>7. ContentsAllowed'
    <2>1. MayHold(content[d] \cup {w}, Sent', Own(d)', cut'[d])
      <3>1. MayHold(content[d], Sent, Own(d), cut[d])
        BY DEF ContentsAllowed, Allowed
      <3>2. MayHold(content[d] \cup {w}, Sent \cup {w}, Own(d) \cup {w}, cut[d])
        BY <1>5, <3>1 DEF MayHold
      <3> QED
        BY <1>1, <1>5, <3>2
    <2>2. (\A x \in Databases : Allowed(x, content[x]))'
      <3>1. ASSUME NEW x \in Databases PROVE MayHold(content'[x], Sent', Own(x)', cut'[x])
        <4>1. MayHold(content[x], Sent', Own(x)', cut'[x])
          BY <1>6 DEF ContentsAllowed
        <4>2. content'[x] = content[x] \/ (x = d /\ content'[x] = content[d] \cup {w})
          BY <1>2
        <4> QED
          BY <2>1, <4>1, <4>2
      <3> QED
        BY <3>1 DEF Allowed
    <2>3. (\A p \in snaps : Allowed(p.db, p.content))'
      BY <1>1, <1>6 DEF ContentsAllowed, Allowed
    <2>4. (\A q \in Requests : taken[q] # NoSnap => Allowed(taken[q].db, taken[q].content))'
      BY <1>1, <1>6 DEF ContentsAllowed, Allowed
    <2>5. (\A q \in Requests : snap[q] # NoSnap => Allowed(snap[q].db, snap[q].content))'
      BY <1>1, <1>6 DEF ContentsAllowed, Allowed
    <2> QED
      BY <2>2, <2>3, <2>4, <2>5 DEF ContentsAllowed
  <1>8. BeforeTheCut'
    <2>1. \A q \in Requests : snap[q] # NoSnap => w \notin snap[q].content
      BY <1>5 DEF ContentsAllowed, Allowed, MayHold
    <2> QED
      BY <1>1, <1>5, <2>1 DEF BeforeTheCut
  <1>9. CutSeen'
    BY <1>1, <1>2 DEF CutSeen, Seen
  <1> QED
    BY <1>3, <1>4, <1>7, <1>8, <1>9

\* Workers and API processes that end, leases that run out, and account steps.
LEMMA DbInvOther ==
    ASSUME DbInv,
           WorkerRestarts \/ (\E d \in Databases : LeaseEnds(d)) \/ AbandonRequests
              \/ UNCHANGED dbVars
    PROVE  DbInv'
  <1> USE DEF DbInv, DbTypeOK, Databases, DbPC, Ops, Final, files, locks, args, history
  <1>1. /\ UNCHANGED <<name, present, content, snaps, args, history>>
        /\ conn' \in [Databases -> {"closed", "open", "stale"}]
        /\ snapLock' \in [Databases -> Requests \cup {NoOne}]
        /\ restLock' \in [Databases -> Requests \cup {NoOne}]
    BY DEF WorkerRestarts, LeaseEnds, AbandonRequests, dbVars
  <1>2. /\ dpc' \in [Requests -> DbPC]
        /\ \A r \in Requests : dpc'[r] = dpc[r] \/ dpc'[r] = "dead"
    BY DEF WorkerRestarts, LeaseEnds, AbandonRequests, dbVars
  <1>3. DbTypeOK'
    BY <1>1, <1>2
  <1>4. NamesFit' /\ WantsAName' /\ OnCourse' /\ SourceIsRow' /\ TargetIsOwn'
    BY <1>1, <1>2 DEF NamesFit, WantsAName, OnCourse, SourceIsRow, TargetIsOwn
  <1>5. SnapshotChosen'
    BY <1>1, <1>2 DEF SnapshotChosen
  <1>6. cut' = cut /\ \A x \in Databases : Own(x)' = Own(x)
    BY <1>1 DEF Own
  <1>7. ContentsAllowed'
    BY <1>1, ContentsKept
  <1>8. BeforeTheCut'
    BY <1>1, <1>6 DEF BeforeTheCut
  <1>9. CutSeen'
    BY <1>1, <1>2 DEF CutSeen
  <1> QED
    BY <1>3, <1>4, <1>5, <1>7, <1>8, <1>9

-----------------------------------------------------------------------------
(* The tenant                                                              *)

TenancyInv == AccInv /\ DbInv

LEMMA AccInvKept ==
    ASSUME AccInv, UNCHANGED accVars, faults' \in 0..MaxFaults
    PROVE  AccInv'
  BY DEF accVars, AccInv, AccTypeOK, RegistersItself, InsertedOnce, CopyOfRow,
     RowsUnique, InactiveIsRevoked, InsertedIsThere, BarredStays, Stored, Holders,
     RevokedBySome

LEMMA FaultsOfDatabases ==
    ASSUME AccInv, NEW r \in Requests, DbStep(r)
    PROVE  faults' \in 0..MaxFaults
  <1> USE DEF AccInv, AccTypeOK
  <1>1. CASE DbCallFails(r)
    BY <1>1, FaultsAssumption DEF DbCallFails
  <1>2. CASE LockSnapshot(r) \/ CopyDirectory(r) \/ SaveSnapshot(r) \/ ReleaseSnapshot(r)
    BY <1>2 DEF LockSnapshot, CopyDirectory, SaveSnapshot, ReleaseSnapshot
  <1>3. CASE CheckName(r) \/ CreateDatabase(r) \/ Duplicate(r)
    BY <1>3 DEF CheckName, CreateDatabase, Duplicate
  <1>4. CASE FindRestore(r) \/ LockRestore(r) \/ RemoveDirectory(r) \/ RestoreCopy(r)
                \/ ReleaseRestore(r)
    BY <1>4 DEF FindRestore, LockRestore, RemoveDirectory, RestoreCopy, ReleaseRestore
  <1> QED
    BY <1>1, <1>2, <1>3, <1>4 DEF DbStep

LEMMA TenancyInvStep ==
    ASSUME TenancyInv, [Next]_vars
    PROVE  TenancyInv'
  <1>0. AccInv /\ DbInv /\ faults \in 0..MaxFaults
    BY DEF TenancyInv, AccInv, AccTypeOK
  <1>1. ASSUME NEW r \in Requests, AccountStep(r) PROVE TenancyInv'
    BY <1>0, <1>1, AccInvStep, DbInvOther DEF AccountStep, TenancyInv
  <1>2. ASSUME NEW r \in Requests, Route(r) PROVE TenancyInv'
    <2>1. UNCHANGED faults
      BY <1>2 DEF Route, AskSomething, AskProvision, AskSnapshot, AskRestore, AskBranch,
                  AskBranchFrom, AskMerge, Ask
    <2> QED
      BY <1>0, <1>2, <2>1, AccInvKept, DbInvAskSomething DEF Route, TenancyInv
  <1>3. ASSUME NEW r \in Requests, Handle(r) PROVE TenancyInv'
    BY <1>0, <1>3, FaultsOfDatabases, AccInvKept, DbInvStep DEF Handle, TenancyInv
  <1>4. CASE Elsewhere
    <2>1. UNCHANGED accVars /\ UNCHANGED faults
      BY <1>4 DEF Elsewhere, WorkerStep, WorkerRestarts, WorkerWrites, LeaseEnds
    <2> QED
      BY <1>0, <1>4, <2>1, AccInvKept, DbInvWrites, DbInvOther
      DEF Elsewhere, WorkerStep, TenancyInv
  <1>5. CASE Restart
    BY <1>0, <1>5, AccInvRestart, DbInvOther DEF Restart, TenancyInv
  <1>6. CASE UNCHANGED vars
    BY <1>0, <1>6, AccInvKept, DbInvOther DEF vars, TenancyInv
  <1> QED
    BY <1>1, <1>2, <1>3, <1>4, <1>5, <1>6 DEF Next

LEMMA TenancyInvCorrect == Spec => []TenancyInv
  <1>1. Init => TenancyInv
    BY AccInvInit, DbInvInit DEF Init, TenancyInv
  <1>2. TenancyInv /\ [Next]_vars => TenancyInv'
    BY TenancyInvStep
  <1> QED
    BY <1>1, <1>2, PTL DEF Spec

\* Typing of the tenant: names stay within the names a row may have, though
\* branches of branches extend them, and copies and snapshots are there.
THEOREM TenantTyped == Spec => []TypeOK
  <1>1. TenancyInv => TypeOK
    BY DEF TenancyInv, AccInv, DbInv, TypeOK
  <1> QED
    BY <1>1, TenancyInvCorrect, PTL

\* A registration that was answered has its row, alone with its name and
\* address, and a key that works until it is revoked.
THEOREM RegistrationsAreStored == Spec => []RegisteredIsStored
  <1>1. TenancyInv => RegisteredIsStored
    BY DEF TenancyInv, AccInv, RegisteredIsStored, InsertedIsThere, RowsUnique,
       InactiveIsRevoked, RevokedBySome, Stored, Accounts
  <1> QED
    BY <1>1, TenancyInvCorrect, PTL

\* A revocation saved while nobody holds an older copy is final.
THEOREM RevocationsHold == Spec => []RevocationHolds
  <1>1. TenancyInv => RevocationHolds
    BY DEF TenancyInv, AccInv, RevocationHolds, BarredStays
  <1> QED
    BY <1>1, TenancyInvCorrect, PTL

\* A database holds its own writes and all of its cut, or nothing of it.
THEOREM BranchesAreIsolated == Spec => []BranchIsolated
  <1>1. TenancyInv => BranchIsolated
    BY DEF TenancyInv, DbInv, DbTypeOK, ContentsAllowed, Allowed, MayHold, BranchIsolated
  <1> QED
    BY <1>1, TenancyInvCorrect, PTL

\* A branch of "latest" is made of a content its source had meanwhile.
THEOREM BranchesAreCuts == Spec => []BranchIsCut
  <1>1. TenancyInv => BranchIsCut
    BY DEF TenancyInv, DbInv, CutSeen, BranchIsCut
  <1> QED
    BY <1>1, TenancyInvCorrect, PTL
=============================================================================
