----------------------------- MODULE Operations -----------------------------
(***************************************************************************)
(* Idempotent commands of one user: ExecuteOperation and the Operation     *)
(* middleware around a handler.  A request names a command (its method,    *)
(* URI and JSON body, of which the code keeps a SHA-256 fingerprint) and,  *)
(* unless it is missing, an Idempotency-Key.  The handler's effect and the *)
(* stored response are one transaction under the lock of the users row;    *)
(* the log and webhook callbacks run after its COMMIT, in the memory of    *)
(* the process.                                                            *)
(*                                                                         *)
(* The operation a handler performs is named by the request that ran it:   *)
(* that is the operation_id of the response.                               *)
(***************************************************************************)
EXTENDS Naturals, FiniteSets

CONSTANTS
    Requests,       \* HTTP requests, each sent once
    Commands,       \* fingerprints
    Keys,           \* Idempotency-Keys
    None            \* nothing

ASSUME NoneIsNothing == None \notin Requests \cup Keys

VARIABLES
    req,            \* where each request is and what it was answered
    stored,         \* api_operations: the command and operation of each key
    userLock,       \* the request whose transaction holds the users row
    committed,      \* operations whose transaction has committed
    notified        \* operations whose callbacks have run

opVars == <<req, stored, userLock, committed, notified>>

Operation(r) == [kind |-> "success", op |-> r]
Conflict == [kind |-> "conflict", op |-> None]      \* 409 IDEMPOTENCY_KEY_REUSED
Rejected == [kind |-> "rejected", op |-> None]      \* the handler's 4xx
Failed == [kind |-> "failed", op |-> None]          \* 500, nothing written
Unanswered == [kind |-> "none", op |-> None]

Unsent == [at |-> "unsent", cmd |-> None, key |-> None, answer |-> Unanswered]
NoRow == [cmd |-> None, op |-> None]

Sent(c, k) == [Unsent EXCEPT !.at = "sent", !.cmd = c, !.key = k]

\* Some requests may be on their way at the start.
OpInit ==
    /\ req \in [Requests -> {Unsent} \cup {Sent(c, k) : c \in Commands, k \in Keys \cup {None}}]
    /\ stored = [k \in Keys |-> NoRow]
    /\ userLock = None
    /\ committed = {}
    /\ notified = {}

Send(r, c, k) ==
    /\ req[r].at = "unsent"
    /\ req' = [req EXCEPT ![r] = Sent(c, k)]
    /\ UNCHANGED <<stored, userLock, committed, notified>>

Answer(r, answer) ==
    req' = [req EXCEPT ![r].at = "answered", ![r].answer = answer]

\* What is stored under the request's key; a request without one finds nothing.
Row(r) == IF req[r].key = None THEN NoRow ELSE stored[req[r].key]

\* The response of request r is stored under its key, if it has one.
Store(r) ==
    stored' = [k \in Keys |-> IF k = req[r].key THEN [cmd |-> req[r].cmd, op |-> r]
                              ELSE stored[k]]

\* Mutant: the fingerprint is not compared.
ReplayAnything(r) ==
    /\ req[r].at = "sent"
    /\ userLock = None
    /\ Row(r) # NoRow
    /\ Answer(r, Operation(Row(r).op))
    /\ UNCHANGED <<stored, userLock, committed, notified>>

\* The transaction starts: with the users row locked, the key is looked up.  A
\* stored response is replayed, and ends the transaction, as does a conflict.
Replay(r) ==
    /\ req[r].at = "sent"
    /\ userLock = None
    /\ Row(r) # NoRow
    /\ Answer(r, IF Row(r).cmd = req[r].cmd THEN Operation(Row(r).op) ELSE Conflict)
    /\ UNCHANGED <<stored, userLock, committed, notified>>

\* Mutant: the key is looked up before the users row is locked.
InvokeUnlocked(r) ==
    /\ req[r].at = "sent"
    /\ Row(r) = NoRow
    /\ userLock' = r
    /\ req' = [req EXCEPT ![r].at = "invoked"]
    /\ UNCHANGED <<stored, committed, notified>>

Invoke(r) ==
    /\ req[r].at = "sent"
    /\ userLock = None
    /\ Row(r) = NoRow
    /\ userLock' = r
    /\ req' = [req EXCEPT ![r].at = "invoked"]
    /\ UNCHANGED <<stored, committed, notified>>

\* Mutant: the transaction of a rejected request stays open.
AbortLeaking(r, answer) ==
    /\ req[r].at = "invoked"
    /\ Answer(r, answer)
    /\ UNCHANGED <<stored, userLock, committed, notified>>

\* The handler or a query refuses or fails: everything is rolled back, the
\* callbacks it queued are dropped and nothing is stored under the key.
Abort(r, answer) ==
    /\ req[r].at = "invoked"
    /\ userLock' = None
    /\ Answer(r, answer)
    /\ UNCHANGED <<stored, committed, notified>>

\* Mutant: the callbacks run before the answer of COMMIT is known.
CommitNotifying(r) ==
    /\ req[r].at = "invoked"
    /\ Store(r)
    /\ committed' = committed \cup {r}
    /\ notified' = notified \cup {r}
    /\ userLock' = None
    /\ \/ req' = [req EXCEPT ![r].at = "committed"]
       \/ Answer(r, Failed)

\* COMMIT of the effect with its stored response.  Its acknowledgement may be
\* lost on the way from the database: the request then fails, and its
\* callbacks are dropped, although the effect is there.
Commit(r) ==
    /\ req[r].at = "invoked"
    /\ Store(r)
    /\ committed' = committed \cup {r}
    /\ userLock' = None
    /\ \/ req' = [req EXCEPT ![r].at = "committed"]
       \/ Answer(r, Failed)
    /\ UNCHANGED notified

\* The queued callbacks run, then the response is written.
Notify(r) ==
    /\ req[r].at = "committed"
    /\ notified' = notified \cup {r}
    /\ Answer(r, Operation(r))
    /\ UNCHANGED <<stored, userLock, committed>>

\* The process stops: open transactions are rolled back by the database,
\* callbacks that have not run are lost, and no response is sent.
Crash ==
    /\ \E r \in Requests : req[r].at \in {"sent", "invoked", "committed"}
    /\ req' = [r \in Requests |->
                 IF req[r].at \in {"sent", "invoked", "committed"}
                 THEN [req[r] EXCEPT !.at = "lost"] ELSE req[r]]
    /\ userLock' = None
    /\ UNCHANGED <<stored, committed, notified>>

\* What the server does with request r, once it has it.
Process(r) ==
    \/ Replay(r)
    \/ Invoke(r)
    \/ Abort(r, Rejected)
    \/ Abort(r, Failed)
    \/ Commit(r)

Serve(r) == Process(r) \/ Notify(r)

\* Any client: the same key with the same or another command, at any time.
OpNext ==
    \/ \E r \in Requests, c \in Commands, k \in Keys \cup {None} : Send(r, c, k)
    \/ \E r \in Requests : Serve(r)
    \/ Crash

OpSpec == OpInit /\ [][OpNext]_opVars

-----------------------------------------------------------------------------
(* Properties. *)

\* Parallel repeats of a command do its work once: at most one operation is
\* ever committed under a key, crashes and lost responses included
\* (docs/BUSINESS-LOGIC.md: repeats return the same response without new
\* actions).
OneEffectPerKey ==
    \A q, r \in committed : req[q].key = req[r].key /\ req[r].key # None => q = r

\* A success names a committed operation of that very key and command, so that
\* repeats agree with each other and a key reused for another command is not
\* answered with the first one's response.  The row of a key is written with the
\* effect or not at all.
AnswersAreTrue ==
    /\ \A r \in Requests : req[r].answer.kind = "success" =>
         LET op == req[r].answer.op IN
         /\ op \in committed
         /\ req[op].key = req[r].key
         /\ req[op].cmd = req[r].cmd
    /\ \A r \in committed :
         req[r].key # None => stored[req[r].key] = [cmd |-> req[r].cmd, op |-> r]
    /\ \A k \in Keys : stored[k] # NoRow => /\ stored[k].op \in committed
                                            /\ req[stored[k].op].key = k

\* Callbacks run once the operation is committed, before its response, and in
\* the request that performed it only: a replay, a rejection and a failure run
\* none.
NotifiedAfterCommit ==
    /\ notified \subseteq committed
    /\ \A r \in Requests :
         req[r].at = "answered" => (r \in notified <=> req[r].answer = Operation(r))

\* Every request that reached the server is answered, unless the process dies.
EveryRequestAnswered ==
    \A r \in Requests : req[r].at = "sent" ~> req[r].at \in {"answered", "lost"}

=============================================================================
