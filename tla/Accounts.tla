------------------------------ MODULE Accounts ------------------------------
(***************************************************************************)
(* Customer accounts and their API keys, as the requests of the API use    *)
(* them: register, log in, authenticate with a key, revoke a key.          *)
(*                                                                         *)
(* An account is a row of the table customers.  The repository reads and   *)
(* writes whole rows and runs each SQL call in a thread, so other requests *)
(* run between the read and the write of a handler.  The keys are also     *)
(* kept in the memory of the process, by ApiKeyAuthenticationService; a    *)
(* restart forgets them.  An account and its key carry the name of the     *)
(* request that registered it.                                             *)
(*                                                                         *)
(* Definitions no action uses are faulty variants of the one they precede. *)
(***************************************************************************)
EXTENDS ApiRequests

CONSTANTS
    Owner,        \* the account that was there before
    Tenants,      \* tenant names
    Emails,       \* addresses of administrators
    OwnerRow,     \* its row
    NoRow         \* there is no row

Accounts == Requests \cup {Owner}
Row      == [name : Tenants, email : Emails, active : BOOLEAN]

ASSUME AccountsAssumption ==
    /\ Owner \notin Requests
    /\ OwnerRow \in Row
    /\ NoRow \notin Row

AccPC == {"new", "regEmail", "regSave", "regWelcome", "authSave", "passed",
          "revFind", "revMem", "revSave", "loginSave",
          "ok", "refused", "failed", "revoked", "notFound", "dead"}
Answered == {"ok", "refused", "failed", "revoked", "notFound", "dead"}

VARIABLES
    rows,    \* the table customers
    mem,     \* _keys: "none", "live" or "revoked"
    apc,     \* next call of a request, or its answer
    copy,    \* the account a request has read, or is about to insert
    key,     \* whose account that is
    barred   \* history: keys revoked while no request held an active copy

accVars == <<rows, mem, apc, copy, key, barred>>

AccTypeOK ==
    /\ rows \in [Accounts -> Row \cup {NoRow}]
    /\ mem \in [Accounts -> {"none", "live", "revoked"}]
    /\ apc \in [Requests -> AccPC]
    /\ copy \in [Requests -> Row \cup {NoRow}]
    /\ key \in [Requests -> Accounts]
    /\ barred \subseteq Accounts
    /\ faults \in 0..MaxFaults

\* Owner was registered by this process, or before its last restart.
AccInit ==
    /\ rows = [a \in Accounts |-> IF a = Owner THEN OwnerRow ELSE NoRow]
    /\ \E m \in {"none", "live"} :
          mem = [a \in Accounts |-> IF a = Owner THEN m ELSE "none"]
    /\ apc = [r \in Requests |-> "new"]
    /\ copy = [r \in Requests |-> NoRow]
    /\ key = [r \in Requests |-> r]
    /\ barred = {}
    /\ faults = 0

Stored       == {a \in Accounts : rows[a] # NoRow}
Goto(r, pc)  == apc' = [apc EXCEPT ![r] = pc]

-----------------------------------------------------------------------------
(* RegisterCustomerUseCase.execute behind POST /auth/register              *)

FindName(r, n, e) ==
    /\ apc[r] = "new"
    /\ copy' = [copy EXCEPT ![r] = [name |-> n, email |-> e, active |-> TRUE]]
    /\ Goto(r, IF \E a \in Stored : rows[a].name = n THEN "refused" ELSE "regEmail")
    /\ UNCHANGED <<rows, mem, key, barred, faults>>

\* With the address free, generate_api_key puts the new key into the memory.
FindEmail(r) ==
    /\ apc[r] = "regEmail"
    /\ IF \E a \in Stored : rows[a].email = copy[r].email
       THEN Goto(r, "refused") /\ UNCHANGED mem
       ELSE Goto(r, "regSave") /\ mem' = [mem EXCEPT ![r] = "live"]
    /\ UNCHANGED <<rows, copy, key, barred, faults>>

\* The table without its unique constraints.
InsertUnconstrained(r) ==
    /\ apc[r] = "regSave"
    /\ Goto(r, "regWelcome")
    /\ rows' = [rows EXCEPT ![r] = copy[r]]
    /\ UNCHANGED <<mem, copy, key, barred, faults>>

\* The unique constraints of the table stop the second of two racing requests.
Taken(r) ==
    \E a \in Stored : rows[a].name = copy[r].name \/ rows[a].email = copy[r].email

InsertAccount(r) ==
    /\ apc[r] = "regSave"
    /\ IF Taken(r)
       THEN Goto(r, "failed") /\ UNCHANGED rows
       ELSE Goto(r, "regWelcome") /\ rows' = [rows EXCEPT ![r] = copy[r]]
    /\ UNCHANGED <<mem, copy, key, barred, faults>>

\* The default database is best effort; the event and the cached summary
\* are not, but the account is there by now.
Welcome(r) ==
    /\ apc[r] = "regWelcome"
    /\ Goto(r, "ok")
    /\ UNCHANGED <<rows, mem, copy, key, barred, faults>>

-----------------------------------------------------------------------------
(* AuthenticationMiddleware.dispatch and POST /auth/login: each reads an   *)
(* account and writes the whole row back with a new time stamp.            *)

FindByApiKey(r, a) ==
    /\ apc[r] = "new"
    /\ a \in Stored
    /\ key' = [key EXCEPT ![r] = a]
    /\ copy' = [copy EXCEPT ![r] = rows[a]]
    /\ Goto(r, IF rows[a].active THEN "authSave" ELSE "refused")
    /\ UNCHANGED <<rows, mem, barred, faults>>

SaveUsedReactivating(r) ==
    /\ apc[r] \in {"authSave", "loginSave"}
    /\ rows' = [rows EXCEPT ![key[r]] = [copy[r] EXCEPT !.active = TRUE]]
    /\ Goto(r, IF apc[r] = "authSave" THEN "passed" ELSE "ok")
    /\ UNCHANGED <<mem, copy, key, barred, faults>>

SaveUsed(r) ==
    /\ apc[r] \in {"authSave", "loginSave"}
    /\ rows' = [rows EXCEPT ![key[r]] = copy[r]]
    /\ Goto(r, IF apc[r] = "authSave" THEN "passed" ELSE "ok")
    /\ UNCHANGED <<mem, copy, key, barred, faults>>

LoginFind(r, e) ==
    /\ apc[r] = "new"
    /\ \/ /\ \A a \in Stored : rows[a].email # e
          /\ Goto(r, "refused")
          /\ UNCHANGED <<copy, key>>
       \/ \E a \in Stored :
             /\ rows[a].email = e
             /\ key' = [key EXCEPT ![r] = a]
             /\ copy' = [copy EXCEPT ![r] = rows[a]]
             /\ \E pc \in {"loginSave", "refused"} : Goto(r, pc)  \* the password
    /\ UNCHANGED <<rows, mem, barred, faults>>

-----------------------------------------------------------------------------
(* RevokeCustomerApiKeyUseCase.execute.  The path names the customer and    *)
(* the key, and nothing compares them with the caller or with each other.  *)

StartRevoke(r, a) ==
    /\ apc[r] = "passed"
    /\ a \in Stored
    /\ key' = [key EXCEPT ![r] = a]
    /\ copy' = [copy EXCEPT ![r] = NoRow]
    /\ Goto(r, "revFind")
    /\ UNCHANGED <<rows, mem, barred, faults>>

\* The customer is the one of the key, another one, of whom nothing will be
\* saved, or unknown.
FindById(r) ==
    /\ apc[r] = "revFind"
    /\ \/ copy' = [copy EXCEPT ![r] = rows[key[r]]] /\ Goto(r, "revMem")
       \/ Stored # {key[r]} /\ UNCHANGED copy /\ Goto(r, "revMem")
       \/ UNCHANGED copy /\ Goto(r, "notFound")
    /\ UNCHANGED <<rows, mem, key, barred, faults>>

\* A key the memory does not know, or knows as revoked, is answered 404.
RevokeInMemory(r) ==
    /\ apc[r] = "revMem"
    /\ IF mem[key[r]] = "live"
       THEN /\ mem' = [mem EXCEPT ![key[r]] = "revoked"]
            /\ Goto(r, IF copy[r] # NoRow /\ copy[r].active THEN "revSave" ELSE "revoked")
       ELSE Goto(r, "notFound") /\ UNCHANGED mem
    /\ UNCHANGED <<rows, copy, key, barred, faults>>

\* Requests that will write back what they read before the revocation.
Holders(a) ==
    {q \in Requests : apc[q] \in {"authSave", "loginSave"}
                        /\ key[q] = a /\ copy[q].active}

SaveRevoked(r) ==
    /\ apc[r] = "revSave"
    /\ rows' = [rows EXCEPT ![key[r]] = [copy[r] EXCEPT !.active = FALSE]]
    /\ barred' = IF Holders(key[r]) = {} THEN barred \cup {key[r]} ELSE barred
    /\ Goto(r, "revoked")
    /\ UNCHANGED <<mem, copy, key, faults>>

\* An awaited SQL or Redis call raises; the handler answers an error.
CallFails(r) ==
    /\ apc[r] \in {"regEmail", "regSave", "regWelcome", "authSave", "loginSave",
                   "revFind", "revSave"}
    /\ faults < MaxFaults
    /\ faults' = faults + 1
    /\ Goto(r, "failed")
    /\ UNCHANGED <<rows, mem, copy, key, barred>>

\* The process ends and comes back with an empty memory.
ForgetKeys ==
    /\ mem' = [a \in Accounts |-> "none"]
    /\ apc' = [r \in Requests |->
                  IF apc[r] \in Answered \cup {"new"} THEN apc[r] ELSE "dead"]
    /\ UNCHANGED <<rows, copy, key, barred, faults>>

AccStep(r) ==
    \/ \E n \in Tenants, e \in Emails : FindName(r, n, e)
    \/ FindEmail(r) \/ InsertAccount(r) \/ Welcome(r)
    \/ \E a \in Accounts : FindByApiKey(r, a)
    \/ \E e \in Emails : LoginFind(r, e)
    \/ SaveUsed(r)
    \/ \E a \in Accounts : StartRevoke(r, a)
    \/ FindById(r) \/ RevokeInMemory(r) \/ SaveRevoked(r)
    \/ CallFails(r)

-----------------------------------------------------------------------------
\* A registration that is answered with a key has its account: no request that
\* raced for the name or the address has taken or replaced it, and its key
\* works unless somebody revoked it.
RegisteredIsStored ==
    \A r \in Requests :
        apc[r] = "ok" /\ key[r] = r =>
            /\ rows[r] # NoRow
            /\ rows[r].name = copy[r].name
            /\ \/ rows[r].active
               \/ \E q \in Requests : key[q] = r /\ apc[q] = "revoked"
            /\ \A a \in Stored \ {r} : rows[a].name # rows[r].name
                                          /\ rows[a].email # rows[r].email

\* A revocation that is saved while no other request is about to write the
\* row back is final: no interleaving of logins, requests, second revocations
\* and restarts makes the key work again.
RevocationHolds == \A a \in barred : rows[a] # NoRow /\ ~ rows[a].active
=============================================================================
