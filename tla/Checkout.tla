------------------------------ MODULE Checkout -------------------------------
(***************************************************************************)
(* How a database gets into the local directory of the query workers:      *)
(* QueryWorker._ensure_local_db and what run_once does after it.           *)
(*                                                                         *)
(* Workers are processes that share KUZU_DATA_DIR.  A directory is a set   *)
(* of files; what another process can see between two of them is a state   *)
(* here.  Restores, which put another directory in the place of this one,  *)
(* are in Pitr and in Databases.                                           *)
(***************************************************************************)
EXTENDS Naturals

CONSTANTS
    Workers,     \* processes that run query_worker.py
    Files,       \* the files of the database
    Unlocked,    \* the key of the checkout lock does not exist
    MaxMishaps   \* bound: failing calls and killed workers

ASSUME CheckoutAssumption == Unlocked \notin Workers /\ MaxMishaps \in Nat

VARIABLES
    dir,       \* the directory of the database exists
    file,      \* file[f]: "missing", "restored" from the archive, "written" by a query
    archived,  \* a snapshot of the database has a row and an archive
    holder,    \* value of the key lock:db:<id>:checkout
    step,      \* step[w]: what the worker does next
    members,   \* members[w]: files of the archive that it has still to extract
    session,   \* session[w]: the connection it keeps is open
    torn,      \* an extraction ended half-way (history)
    mishaps

checkoutVars == <<dir, file, archived, holder, step, members, session, torn, mishaps>>

Steps == {"look", "list", "lock", "download", "extract", "release", "abandon", "query"}

\* The directory with its files, the lock and the locals of each worker.
CheckoutTypeOK ==
    /\ dir \in BOOLEAN /\ archived \in BOOLEAN /\ torn \in BOOLEAN
    /\ file \in [Files -> {"missing", "restored", "written"}]
    /\ holder \in Workers \cup {Unlocked}
    /\ step \in [Workers -> Steps]
    /\ members \in [Workers -> SUBSET Files]
    /\ session \in [Workers -> BOOLEAN]

\* Between mkdir and the end of extractall.
Extracting(w) == step[w] = "extract"

CheckoutInit ==
    /\ dir \in BOOLEAN /\ archived \in BOOLEAN
    /\ file = [f \in Files |-> IF dir THEN "restored" ELSE "missing"]
    /\ holder = Unlocked
    /\ step = [w \in Workers |-> "look"]
    /\ members = [w \in Workers |-> {}]
    /\ session = [w \in Workers |-> FALSE]
    /\ torn = FALSE
    /\ mishaps = 0

StepTo(w, s) == step' = [step EXCEPT ![w] = s]

\* A query was dequeued; a directory is taken for the database.
LookForDirectory(w) ==
    /\ step[w] = "look"
    /\ StepTo(w, IF dir THEN "query" ELSE "list")
    /\ UNCHANGED <<dir, file, archived, holder, members, session, torn, mishaps>>

\* list_by_database; without a snapshot Kuzu initialises an empty directory.
ListSnapshots(w) ==
    /\ step[w] = "list"
    /\ StepTo(w, IF archived THEN "lock" ELSE "query")
    /\ dir' = (dir \/ ~archived)
    /\ UNCHANGED <<file, archived, holder, members, session, torn, mishaps>>

\* The directory is made before the archive is there.
AcquireIntoDirectory(w) ==
    /\ step[w] = "lock"
    /\ IF holder = Unlocked
       THEN holder' = w /\ StepTo(w, "download") /\ dir' = TRUE
       ELSE StepTo(w, "look") /\ UNCHANGED <<dir, holder>>
    /\ UNCHANGED <<file, archived, members, session, torn, mishaps>>

\* The directory is not looked for again; a busy lock is a TimeoutError.
AcquireCheckout(w) ==
    /\ step[w] = "lock"
    /\ IF holder = Unlocked
       THEN holder' = w /\ StepTo(w, "download")
       ELSE StepTo(w, "look") /\ UNCHANGED holder
    /\ UNCHANGED <<dir, file, archived, members, session, torn, mishaps>>

\* The whole archive comes into memory, then the directory is made.
DownloadArchive(w) ==
    /\ step[w] = "download"
    /\ dir' = TRUE
    /\ members' = [members EXCEPT ![w] = Files]
    /\ StepTo(w, "extract")
    /\ UNCHANGED <<file, archived, holder, session, torn, mishaps>>

\* extractall opens each member for writing, whether it is there or not.
ExtractMember(w, f) ==
    /\ step[w] = "extract" /\ f \in members[w]
    /\ file' = [file EXCEPT ![f] = "restored"]
    /\ members' = [members EXCEPT ![w] = @ \ {f}]
    /\ UNCHANGED <<dir, archived, holder, step, session, torn, mishaps>>

ExtractionEnds(w) ==
    /\ step[w] = "extract" /\ members[w] = {}
    /\ StepTo(w, "release")
    /\ UNCHANGED <<dir, file, archived, holder, members, session, torn, mishaps>>

\* finally: the script deletes the key if it is this worker's still.
ReleaseCheckout(w) ==
    /\ step[w] \in {"release", "abandon"}
    /\ holder' = IF holder = w THEN Unlocked ELSE holder
    /\ StepTo(w, IF step[w] = "release" THEN "query" ELSE "look")
    /\ UNCHANGED <<dir, file, archived, members, session, torn, mishaps>>

\* execute_query opens the directory unless it has done so before, and what
\* is not there is initialised; a mutating query writes some of the files.
RunQuery(w) ==
    /\ step[w] = "query"
    /\ session' = [session EXCEPT ![w] = TRUE]
    /\ \E fs \in SUBSET Files :
          file' = [f \in Files |-> IF f \in fs \/ (file[f] = "missing" /\ ~session[w])
                                   THEN "written" ELSE file[f]]
    /\ StepTo(w, "look")
    /\ UNCHANGED <<dir, archived, holder, members, torn, mishaps>>

\* Kuzu refuses the query, or to open what is there: an answer like any other.
QueryRefused(w) ==
    /\ step[w] = "query"
    /\ StepTo(w, "look")
    /\ UNCHANGED <<dir, file, archived, holder, members, session, torn, mishaps>>

Mishap == mishaps < MaxMishaps /\ mishaps' = mishaps + 1

\* The listing, the lock, the download or the extraction raises.
CheckoutFails(w) ==
    /\ step[w] \in {"list", "lock", "download", "extract"} /\ Mishap
    /\ StepTo(w, IF step[w] \in {"list", "lock"} THEN "look" ELSE "abandon")
    /\ members' = [members EXCEPT ![w] = {}]
    /\ torn' = (torn \/ Extracting(w))
    /\ UNCHANGED <<dir, file, archived, holder, session>>

\* A worker is killed, and started again.
WorkerRestarts(w) ==
    /\ Mishap
    /\ StepTo(w, "look")
    /\ members' = [members EXCEPT ![w] = {}]
    /\ session' = [session EXCEPT ![w] = FALSE]
    /\ torn' = (torn \/ Extracting(w))
    /\ UNCHANGED <<dir, file, archived, holder>>

\* After 30 seconds, whether or not the holder still works.
CheckoutExpires ==
    /\ holder # Unlocked
    /\ holder' = Unlocked
    /\ UNCHANGED <<dir, file, archived, step, members, session, torn, mishaps>>

CheckoutStep(w) ==
    \/ LookForDirectory(w) \/ ListSnapshots(w) \/ AcquireCheckout(w) \/ DownloadArchive(w)
    \/ \E f \in Files : ExtractMember(w, f)
    \/ ExtractionEnds(w) \/ ReleaseCheckout(w) \/ RunQuery(w) \/ QueryRefused(w)
    \/ CheckoutFails(w) \/ WorkerRestarts(w)

CheckoutNext == CheckoutExpires \/ \E w \in Workers : CheckoutStep(w)

CheckoutSpec == CheckoutInit /\ [][CheckoutNext]_checkoutVars

-----------------------------------------------------------------------------
Opens(w) == ~session[w] /\ session'[w]
Present == \A f \in Files : file[f] # "missing"

\* A query does not open a database that lacks files of its snapshot: a failed
\* download leaves no directory behind.  It may do so after an extraction that
\* ended half-way, and while another worker extracts, for the directory is there
\* from the first file on: `Ensure the Kuzu DB files are present locally'
\* (query_worker.py:69) is more than the code does.
OpensWhole ==
    [][\A w \in Workers :
          Opens(w) /\ archived /\ ~torn /\ (\A v \in Workers : ~Extracting(v)) => Present]_checkoutVars

\* A checkout is for a database that is absent (query_worker.py:71), so it never
\* replaces what a query has written.  False with two workers: the directory is
\* used from mkdir on, and a worker that had looked before extracts over it.
WritesStay ==
    [][\A f \in Files : file[f] = "written" => file'[f] = "written"]_checkoutVars
=============================================================================
