------------------------------ MODULE PitrViews ------------------------------
(***************************************************************************)
(* What a user is shown of the history of a database before a restore: the *)
(* timeline of ListDatabasePITRUseCase with its plan, the preview of       *)
(* PreviewDatabasePITRUseCase and the branch that CreateBranchUseCase makes *)
(* of a time.  They read the WAL and the snapshots and leave them as they  *)
(* are: each is a function of the state of Pitr.                           *)
(***************************************************************************)
EXTENDS Pitr
Seqs == INSTANCE SequencesExt
Sets == INSTANCE FiniteSetsExt

CONSTANT Window   \* ticks in a window of the timeline, a minute or an hour

ASSUME WindowAssumption == Window \in Nat \ {0} /\ Window % Res = 0

-----------------------------------------------------------------------------
(* ListDatabasePITRUseCase.execute                                          *)

\* A snapshot counts by created_at, a WAL object by the second in its name.
ListedSnapshots(from, to) == {s \in snaps : from <= s.at /\ s.at <= to}
ListedWal(from, to) ==
    {s \in Seconds : wal[s] # <<>> /\ from <= s /\ s <= to}

WindowStart(t) == t - (t % Window)

\* The last query of a window is the last line of its latest object.
LastQuery(files) == Seqs!Last(wal[Sets!Max(files)]).q

\* The entries of each type; _query_type knows the verbs of _is_mutating.
EntriesOf(files, Q) ==
    UNION {{<<s, i>> : i \in {j \in DOMAIN wal[s] : wal[s][j].q \in Q}} : s \in files}

TypesOf(files) ==
    [mutating |-> Cardinality(EntriesOf(files, Detected)),
     read |-> Cardinality(EntriesOf(files, Queries \ Detected))]

WindowOf(files) ==
    [files |-> files, last |-> LastQuery(files), types |-> TypesOf(files)]

Timeline(from, to) ==
    LET listed == ListedWal(from, to)
        within(w) == {s \in listed : WindowStart(s) = w}
    IN  [w \in {WindowStart(s) : s \in listed} |-> WindowOf(within(w))]

PlanFromOldest(from, to, target) ==
    LET old == {s \in ListedSnapshots(from, to) : s.at <= target}
    IN  {[snap |-> s, files |-> {f \in ListedWal(from, to) :
                                        s.at <= f /\ f <= target}] :
            s \in {u \in old : \A v \in old : u.at <= v.at}}

\* The plan knows the snapshots and objects of the listed range only; where
\* none of the snapshots is old enough the request fails.
Plan(from, to, target) ==
    LET old == {s \in ListedSnapshots(from, to) : s.at <= target}
    IN  {[snap |-> s, files |-> {f \in ListedWal(from, to) :
                                        s.at <= f /\ f <= target}] :
            s \in {u \in old : \A v \in old : v.at <= u.at}}

-----------------------------------------------------------------------------
(* PreviewDatabasePITRUseCase.execute and the time stamp of a new branch    *)

Timely(entries, target) ==
    {i \in DOMAIN entries : \A j \in 1..i : entries[j].ts <= target}

UpToNext(entries, target) ==
    IF Timely(entries, target) = DOMAIN entries THEN entries
    ELSE SubSeq(entries, 1, Cardinality(Timely(entries, target)) + 1)

\* The entries before the first one after the target.
UpTo(entries, target) == SubSeq(entries, 1, Cardinality(Timely(entries, target)))

\* The text of each is executed as the worker did; a refusal is ignored.
Applied(c, entries) ==
    LET done[i \in 0..Len(entries)] ==
            IF i = 0 THEN c
            ELSE IF entries[i].q \in Refused THEN done[i - 1]
            ELSE Append(done[i - 1], entries[i].q)
    IN  done[Len(entries)]

\* What preview and branch take from the object of a second, if it is listed.
TakenFrom(snap, target, s) ==
    IF s \in ListedWal(snap.at, target) THEN UpTo(wal[s], target) ELSE <<>>

\* An entry after the target ends its object, not the loop over the objects.
PreviewOf(snap, target) ==
    LET shown[s \in 0..target] ==
            Applied(IF s = 0 THEN snap.content ELSE shown[s - 1], TakenFrom(snap, target, s))
    IN  shown[target]

\* The content of the database that a preview queries.
Previews(target) == {PreviewOf(s, target) : s \in Nearest(target)}

\* The content of a branch of a time: a provisioned database takes over the
\* snapshot and the entries of the WAL of the source are replayed in one go.
BranchOf(snap, target) ==
    LET taken[s \in 0..target] ==
            (IF s = 0 THEN <<>> ELSE taken[s - 1]) \o TakenFrom(snap, target, s)
    IN  Applied(snap.content, taken[target])

Branches(target) == {BranchOf(s, target) : s \in Nearest(target)}

-----------------------------------------------------------------------------
(***************************************************************************)
(* Properties                                                              *)
(***************************************************************************)

\* A restore whose replay is over and that nothing has disturbed: one was made,
\* from a quiet database, and no call has failed.
Undisturbed(r) ==
    /\ restorer[r].pc = "archive" /\ restorer[r].quiet
    /\ faults = 0 /\ swaps = 1 /\ overran = {}

\* What a preview of the target shows and what a branch of the target holds is
\* what the restore to the target produced, although _replay_wal_files gives up
\* at the first entry after the target where the other two only leave the object.
PreviewForetells ==
    \A r \in Restorers : Undisturbed(r) =>
        /\ restorer[r].got \in Previews(restorer[r].target)
        /\ restorer[r].got \in Branches(restorer[r].target)

\* The plan of the default range names the objects the restore replayed, and
\* the window of each of them counts its entries.
PlanIsReplayed ==
    \A r \in Restorers : Undisturbed(r) =>
        LET t == restorer[r].target
            replayed == Values(restorer[r].got) \ Values(restorer[r].snap.content)
            line == Timeline(0, now)
        IN  \E p \in Plan(0, now, t) :
              /\ p.snap.at = restorer[r].snap.at /\ restorer[r].files \subseteq p.files
              /\ \A q \in replayed : \E s \in restorer[r].files :
                    q \in {e.q : e \in Values(wal[s])}
              /\ \A s \in p.files :
                    line[WindowStart(s)].types.mutating >= Len(wal[s])

=============================================================================
