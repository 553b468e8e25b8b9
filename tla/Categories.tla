----------------------------- MODULE Categories -----------------------------
(***************************************************************************)
(* The categories of an account, next to its payments: a free account may  *)
(* have three.  Creating one is a transaction that reads is_premium with   *)
(* the users row locked, counts, and inserts; renaming and deleting are    *)
(* single statements that take no lock.  A payment that settles writes the *)
(* same users row, and waits for it.                                       *)
(***************************************************************************)
EXTENDS Payments, FiniteSets

CONSTANTS
    Owners,         \* the users whose categories are looked at
    Names,          \* category names
    CatRequests     \* goroutines that serve POST /categories, one after another

ASSUME OwnersAreUsers == Owners \subseteq Users
ASSUME NoneIsNoRequest == None \notin CatRequests

VARIABLES
    categories,     \* the names of each user's categories
    catReq,         \* where each request is, and for whom
    userLock        \* who holds the users row of each user

catVars == <<categories, catReq, userLock>>
allVars == <<payVars, catVars>>

FreeLimit == 3
Waiting == [at |-> "waiting", user |-> None]
Absent == [at |-> "absent", user |-> None]

CatInit ==
    /\ PayInit
    /\ categories = [u \in Owners |-> {}]
    /\ catReq \in [CatRequests -> {Waiting, Absent}]
    /\ userLock = [u \in Users |-> None]

\* Mutant: is_premium is read without FOR UPDATE.
ReadPremium(r, u) ==
    /\ catReq[r] = Waiting
    /\ catReq' = [catReq EXCEPT ![r] =
                    [at |-> IF u \in premium THEN "admitted" ELSE "free", user |-> u]]
    /\ UNCHANGED <<payVars, categories, userLock>>

\* A request arrives for user u: BEGIN, and is_premium is read FOR UPDATE.
LockUser(r, u) ==
    /\ catReq[r] = Waiting
    /\ userLock[u] = None
    /\ userLock' = [userLock EXCEPT ![u] = r]
    /\ catReq' = [catReq EXCEPT ![r] =
                    [at |-> IF u \in premium THEN "admitted" ELSE "free", user |-> u]]
    /\ UNCHANGED <<payVars, categories>>

\* The transaction ends, and with it the request.
End(r) ==
    /\ catReq' = [catReq EXCEPT ![r] = Waiting]
    /\ userLock' = [u \in Users |-> IF userLock[u] = r THEN None ELSE userLock[u]]

Full(u) == Cardinality(categories[u]) >= FreeLimit

\* The categories of a free account are counted; at the limit the request ends
\* with 403.
Count(r) ==
    /\ catReq[r].at = "free"
    /\ IF Full(catReq[r].user)
       THEN End(r)
       ELSE /\ catReq' = [catReq EXCEPT ![r].at = "admitted"]
            /\ UNCHANGED userLock
    /\ UNCHANGED <<payVars, categories>>

\* INSERT and COMMIT.  A name the user has is refused by its unique index.
Insert(r) ==
    LET u == catReq[r].user IN
    /\ catReq[r].at = "admitted"
    /\ \E name \in Names : categories' = [categories EXCEPT ![u] = @ \cup {name}]
    /\ End(r)
    /\ UNCHANGED payVars

\* A query fails or the client leaves: everything is rolled back.
Fail(r) ==
    /\ catReq[r].at \in {"free", "admitted"}
    /\ End(r)
    /\ UNCHANGED <<payVars, categories>>

\* UpdateCategory: no lock, and a name that is taken is an error.
RenameCategory(u, name, to) ==
    /\ name \in categories[u]
    /\ to \notin categories[u]
    /\ categories' = [categories EXCEPT ![u] = (@ \ {name}) \cup {to}]
    /\ UNCHANGED <<payVars, catReq, userLock>>

DeleteCategory(u, name) ==
    /\ name \in categories[u]
    /\ categories' = [categories EXCEPT ![u] = @ \ {name}]
    /\ UNCHANGED <<payVars, catReq, userLock>>

\* A completed payment writes the users row of its user, so waits for the lock.
MayGrant(p) == userLock[rows[p].user] = None

ApplyHook(p) ==
    /\ Apply(p)
    /\ provider[p].status = "succeeded" => MayGrant(p)
    /\ UNCHANGED catVars

SettleSync(u, p) ==
    /\ SyncSettle(u, p)
    /\ sync[u].at = "succeeded" => MayGrant(p)
    /\ UNCHANGED catVars

\* The steps of payments that do not touch the users row.
OtherPayment ==
    /\ \/ \E p \in PaymentIds :
            \/ Pay(p)
            \/ Decline(p)
            \/ Verify(p)
            \/ Miss(p)
            \/ Classify(p)
            \/ HookFails(p)
            \/ Redeliver(p)
            \/ \E u \in Users : SyncFind(u, p)
       \/ Create
       \/ \E u \in Users : SyncUser(u) \/ SyncList(u) \/ SyncFails(u)
    /\ UNCHANGED catVars

CatNext ==
    \/ OtherPayment
    \/ \E p \in PaymentIds : ApplyHook(p) \/ \E u \in Users : SettleSync(u, p)
    \/ \E r \in CatRequests :
        \/ \E u \in Owners : LockUser(r, u)
        \/ Count(r)
        \/ Insert(r)
        \/ Fail(r)
    \/ \E u \in Owners, name, to \in Names : RenameCategory(u, name, to)
    \/ \E u \in Owners, name \in Names : DeleteCategory(u, name)

\* A webhook is delivered until it is answered with 200, and its queries do not
\* fail for ever; nobody has to create a payment, pay it or ask for it.
\* Transactions end, and the users row is a lock that is passed on.
CatFairness ==
    /\ \A p \in PaymentIds : /\ WF_allVars(Verify(p) /\ UNCHANGED catVars)
                             /\ SF_allVars(ApplyHook(p))
                             /\ WF_allVars(Classify(p) /\ UNCHANGED catVars)
    /\ \A r \in CatRequests : WF_allVars(Count(r) \/ Insert(r))

CatSpec == CatInit /\ [][CatNext]_allVars /\ CatFairness

-----------------------------------------------------------------------------
(* Properties. *)

\* The limit of the tariff under concurrent requests, payments, renames and
\* deletions: a free account never has a fourth category, and no account is
\* refused one, or counted at all, once it is premium (LANDING-CONCEPT-AUDIT.md:
\* the current Premium is read under the lock of the user).
CategoryLimit ==
    /\ \A u \in Owners : Cardinality(categories[u]) > FreeLimit => u \in premium
    /\ \A r \in CatRequests : catReq[r].at = "free" => catReq[r].user \notin premium

=============================================================================
