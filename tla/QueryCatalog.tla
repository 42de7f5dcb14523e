----------------------------- MODULE QueryCatalog -----------------------------
(***************************************************************************)
(* What Postgres remembers of the queries on one database: how often each  *)
(* was submitted (query_usage), which are favourites (query_favorites) and *)
(* the times users have named (pitr_bookmarks).                            *)
(*                                                                         *)
(* The repositories call SQLAlchemy inside their coroutines and never      *)
(* await between two statements, so a request runs alone in its process;   *)
(* the statements of several API processes interleave.  A query is known   *)
(* by the hash of its text with the white space made even: its form.       *)
(*                                                                         *)
(* Definitions no action uses are faulty variants of the one they precede. *)
(***************************************************************************)
EXTENDS Naturals, FiniteSets

CONSTANTS
    Processes,    \* API processes
    Texts,        \* texts of queries
    Forms,        \* hashes of their even texts
    FormOf,       \* the form of each text; NoForm: nothing but white space
    NoForm,
    Limit,        \* favourites a database may have: 10
    Names,        \* of bookmarks
    Instants,     \* their times
    MaxUses       \* bound: uses counted of a form

ASSUME CatalogAssumption ==
    /\ IsFiniteSet(Processes) /\ Processes # {}
    /\ IsFiniteSet(Forms) /\ NoForm \notin Forms
    /\ FormOf \in [Texts -> Forms \cup {NoForm}]
    /\ Limit \in Nat \ {0} /\ MaxUses \in Nat

VARIABLES
    usage,        \* usage_count of each form, 0: no row
    favorites,    \* forms that have a row in query_favorites
    adder,        \* the add_favorite each process is in
    bookmarks     \* rows of pitr_bookmarks

catalogVars == <<usage, favorites, adder, bookmarks>>

Bookmark == [name : Names, at : Instants]

\* Rows and counters are what the tables of the repositories allow; only a query
\* that has a text is ever counted or made a favourite (add_favorite).
CatalogTypeOK ==
    /\ usage \in [Forms -> 0..MaxUses]
    /\ favorites \subseteq Forms
    /\ adder \in [Processes -> [pc : {"idle", "count", "insert"},
                                form : Forms \cup {NoForm}]]
    /\ \A p \in Processes : adder[p].pc # "idle" => adder[p].form \in Forms
    /\ bookmarks \subseteq Bookmark

Idle == [pc |-> "idle", form |-> NoForm]

CatalogInit ==
    /\ usage = [f \in Forms |-> 0]
    /\ favorites = {}
    /\ adder = [p \in Processes |-> Idle]
    /\ bookmarks = {}

\* SubmitAsyncQueryUseCase counts a query it has saved: one statement inserts
\* the row or adds to it.  Whatever fails here does not fail the submission.
RecordUsage(t) ==
    /\ FormOf[t] # NoForm
    /\ usage[FormOf[t]] < MaxUses
    /\ usage' = [usage EXCEPT ![FormOf[t]] = @ + 1]
    /\ UNCHANGED <<favorites, adder, bookmarks>>

\* The first statement of add_favorite: nothing is to be done for a favourite.
AddFavorite(p, t) ==
    /\ adder[p].pc = "idle"
    /\ FormOf[t] \notin favorites \cup {NoForm}
    /\ adder' = [adder EXCEPT ![p] = [pc |-> "count", form |-> FormOf[t]]]
    /\ UNCHANGED <<usage, favorites, bookmarks>>

CountAtMost(p) ==
    /\ adder[p].pc = "count"
    /\ adder' = [adder EXCEPT ![p] = IF Cardinality(favorites) > Limit
                                     THEN Idle ELSE [@ EXCEPT !.pc = "insert"]]
    /\ UNCHANGED <<usage, favorites, bookmarks>>

\* The second: BusinessRuleViolation when there are ten of them.
CountFavorites(p) ==
    /\ adder[p].pc = "count"
    /\ adder' = [adder EXCEPT ![p] = IF Cardinality(favorites) >= Limit
                                     THEN Idle ELSE [@ EXCEPT !.pc = "insert"]]
    /\ UNCHANGED <<usage, favorites, bookmarks>>

\* The third, and the commit: the primary key refuses a second row of a form.
InsertFavorite(p) ==
    /\ adder[p].pc = "insert"
    /\ favorites' = favorites \cup {adder[p].form}
    /\ adder' = [adder EXCEPT ![p] = Idle]
    /\ UNCHANGED <<usage, bookmarks>>

\* A statement raises, or the process dies: its transaction is rolled back.
AddFails(p) ==
    /\ adder[p].pc # "idle"
    /\ adder' = [adder EXCEPT ![p] = Idle]
    /\ UNCHANGED <<usage, favorites, bookmarks>>

RemoveFavorite(f) ==
    /\ f \in favorites
    /\ favorites' = favorites \ {f}
    /\ UNCHANGED <<usage, adder, bookmarks>>

\* ON CONFLICT (tenant_id, database_id, name) moves the bookmark.
SetBookmark(n, t) ==
    /\ bookmarks' = {b \in bookmarks : b.name # n} \cup {[name |-> n, at |-> t]}
    /\ UNCHANGED <<usage, favorites, adder>>

DeleteBookmark(n) ==
    /\ bookmarks' = {b \in bookmarks : b.name # n}
    /\ UNCHANGED <<usage, favorites, adder>>

CatalogNext ==
    \/ \E t \in Texts : RecordUsage(t)
    \/ \E p \in Processes :
          \/ \E t \in Texts : AddFavorite(p, t)
          \/ CountFavorites(p) \/ InsertFavorite(p) \/ AddFails(p)
    \/ \E f \in Forms : RemoveFavorite(f)
    \/ \E n \in Names : (\E t \in Instants : SetBookmark(n, t)) \/ DeleteBookmark(n)

CatalogSpec == CatalogInit /\ [][CatalogNext]_catalogVars

-----------------------------------------------------------------------------
(***************************************************************************)
(* Properties                                                              *)
(***************************************************************************)

\* add_favorite counts and inserts in two statements: each process but the one
\* that counted last may carry the table one row over the limit, and a single
\* process keeps it.
FavoritesBounded == Cardinality(favorites) < Limit + Cardinality(Processes)

=============================================================================
