------------------------------ MODULE RewardTx ------------------------------
(***************************************************************************)
(* The same transactions as in Rewards, split at the row locks they take.  *)
(* A business action locks the users row first (withUserTx), then the      *)
(* tasks it touches, then the session.  DELETE /tasks does not lock the    *)
(* user: it locks the task rows it meets, and its trigger the active       *)
(* sessions of each.  Between two steps of one transaction those of the    *)
(* others run, so what was read may be old by the time it is used.         *)
(*                                                                         *)
(* The database runs READ COMMITTED: a transaction's writes become visible *)
(* at its COMMIT, where they are made here, from the values it read.  A    *)
(* row lock is held to the end of the transaction.  The rows of stats,     *)
(* wallet, ledger and achievements are written under the user's lock only  *)
(* and need none of their own; the lock of focus_states is the last one    *)
(* that any transaction takes and is not kept apart.                       *)
(***************************************************************************)
EXTENDS Rewards, SequencesExt

CONSTANTS
    Requests,       \* requests served at the same time
    MaxBegun        \* bound: transactions begun in a behaviour

NoOne == "no one"

ASSUME RewardTxAssumption ==
    /\ Tasks \subseteq Nat /\ MaxBegun \in Nat
    /\ NoOne \notin Requests

VARIABLES
    tx,             \* the transaction of each request, or NoTx
    userLock,       \* the request that holds the users row, or NoOne
    taskLock,       \* the holder of each tasks row
    sessionLock,    \* the holder of each pomodoro_sessions row
    begun           \* transactions begun so far

locks == <<userLock, taskLock, sessionLock>>
txVars == <<vars, tx, locks, begun>>

\* kind    which operation it is, "none" when the request has no transaction
\* at      the lock it waits for next, or "commit"
\* todo    the tasks still to be locked, in the order they are met
\* rows    the task rows read under their locks
\* held    the active sessions a deletion's trigger has abandoned so far
\* s, tk, arg, age   the session, its task, the action's argument and the age
\*         of the session at BEGIN
NoTx == [kind |-> "none", at |-> "end", todo |-> <<>>, rows |-> <<>>, held |-> {},
         s |-> None, tk |-> None, arg |-> "none", age |-> Fresh]

Begin(r, kind, at, todo, s, tk, arg) ==
    /\ tx[r] = NoTx
    /\ begun < MaxBegun
    /\ begun' = begun + 1
    /\ tx' = [tx EXCEPT ![r] = [NoTx EXCEPT
                !.kind = kind, !.at = at, !.todo = todo, !.s = s, !.tk = tk,
                !.arg = arg, !.age = IF s = None THEN Fresh ELSE session[s].age]]
    /\ UNCHANGED <<vars, locks>>

\* The end of r's transaction: every lock it holds is released.
End(r) ==
    /\ tx' = [tx EXCEPT ![r] = NoTx]
    /\ userLock' = IF userLock = r THEN NoOne ELSE userLock
    /\ taskLock' = [t \in Tasks |-> IF taskLock[t] = r THEN NoOne ELSE taskLock[t]]
    /\ sessionLock' =
         [s \in Sessions |-> IF sessionLock[s] = r THEN NoOne ELSE sessionLock[s]]
    /\ UNCHANGED begun

\* The lock is free, or r has it already.
Free(holder, r) == holder \in {NoOne, r}

LockUser(r) ==
    /\ tx[r].at = "user"
    /\ Free(userLock, r)
    /\ userLock' = r
    /\ UNCHANGED <<vars, taskLock, sessionLock, begun>>

TakeTask(r, t) ==
    /\ Free(taskLock[t], r)
    /\ taskLock' = IF t \in Live THEN [taskLock EXCEPT ![t] = r] ELSE taskLock
    /\ UNCHANGED <<vars, userLock, sessionLock, begun>>

TakeSession(r, s) ==
    /\ Free(sessionLock[s], r)
    /\ sessionLock' = [sessionLock EXCEPT ![s] = r]
    /\ UNCHANGED <<vars, userLock, taskLock, begun>>

\* The rows a transaction has read, with the row of t as it is now.
ReadRow(rows, t) == [u \in DOMAIN rows \cup {t} |-> IF u = t THEN task[t] ELSE rows[u]]

\* Rolled back and answered with an error: the code's own refusal, a lost
\* connection, a cancelled request or the victim of a deadlock.
Rollback(r) ==
    /\ tx[r].kind # "none"
    /\ End(r)
    /\ UNCHANGED vars

-----------------------------------------------------------------------------
(* PATCH /tasks/{id}: the user, then the task. *)

BeginUpdate(r, t, status) == Begin(r, "update", "user", <<t>>, None, t, status)

UpdateUser(r) ==
    /\ tx[r].kind = "update"
    /\ LockUser(r)
    /\ tx' = [tx EXCEPT ![r].at = "task"]

\* lockTask: the request is refused when the row is no longer there.
UpdateLock(r) ==
    LET t == tx[r].tk IN
    /\ tx[r].kind = "update" /\ tx[r].at = "task"
    /\ t \in Live
    /\ TakeTask(r, t)
    /\ tx' = [tx EXCEPT ![r].at = "commit", ![r].rows = ReadRow(@, t)]

\* The tasks whose rows, as this transaction read them, earn the reward.
RowsRewardable(r) ==
    {t \in DOMAIN tx[r].rows :
       tx[r].rows[t].status # "done" /\ ~tx[r].rows[t].claimed}

UpdateCommit(r) ==
    /\ tx[r].kind = "update" /\ tx[r].at = "commit"
    /\ WriteUpdate(tx[r].tk, tx[r].arg,
                   IF tx[r].arg = "done" THEN RowsRewardable(r) ELSE {})
    /\ End(r)

-----------------------------------------------------------------------------
(* POST /tasks/bulk-complete: the user, then the tasks in the order of ids. *)

InIdOrder(order) == \A i, j \in DOMAIN order : i < j => order[i] < order[j]

BeginComplete(r, order) ==
    /\ InIdOrder(order)
    /\ Begin(r, "complete", "user", order, None, None, "done")

CompleteUser(r) ==
    /\ tx[r].kind = "complete"
    /\ LockUser(r)
    /\ tx' = [tx EXCEPT ![r].at = "task"]

\* The rows that are there and not done; others, or a row deleted while the
\* request waited for it, do not match the WHERE and are skipped.
Matching(t) == t \in Live /\ task[t].status # "done"

CompleteLock(r) ==
    LET t == Head(tx[r].todo) IN
    /\ tx[r].kind = "complete" /\ tx[r].at = "task" /\ tx[r].todo # <<>>
    /\ \/ /\ Matching(t)
          /\ TakeTask(r, t)
          /\ tx' = [tx EXCEPT ![r].todo = Tail(@), ![r].rows = ReadRow(@, t)]
       \/ /\ ~Matching(t)
          /\ tx' = [tx EXCEPT ![r].todo = Tail(@)]
          /\ UNCHANGED <<vars, locks, begun>>

CompleteCommit(r) ==
    /\ tx[r].kind = "complete" /\ tx[r].at = "task" /\ tx[r].todo = <<>>
    /\ WriteComplete(DOMAIN tx[r].rows, RowsRewardable(r))
    /\ End(r)

-----------------------------------------------------------------------------
(* DELETE /tasks/{id} and bulk-delete: the rows in the order of the scan,    *)
(* and after each row its active sessions, which the trigger updates.        *)

BeginDelete(r, order) == Begin(r, "delete", "task", order, None, None, "none")

DeleteLock(r) ==
    LET t == Head(tx[r].todo) IN
    /\ tx[r].kind = "delete" /\ tx[r].at = "task" /\ tx[r].todo # <<>>
    /\ TakeTask(r, t)
    /\ tx' = [tx EXCEPT
                ![r].todo = Tail(@),
                ![r].at = IF t \in Live THEN "session" ELSE @,
                ![r].tk = t,
                ![r].rows = IF t \in Live THEN ReadRow(@, t) ELSE @]

\* The trigger on the row of task tk: one active session, or none is left.
DeleteAbandon(r) ==
    LET attached == {s \in Active \ tx[r].held : session[s].task = tx[r].tk} IN
    /\ tx[r].kind = "delete" /\ tx[r].at = "session"
    /\ \/ /\ attached = {}
          /\ tx' = [tx EXCEPT ![r].at = "task"]
          /\ UNCHANGED <<vars, locks, begun>>
       \/ \E s \in attached :
            /\ TakeSession(r, s)
            /\ tx' = [tx EXCEPT ![r].held = @ \cup {s}]

\* The foreign keys detach every session of the tasks, once no one else has
\* its row.
DeleteCommit(r) ==
    LET gone == DOMAIN tx[r].rows IN
    /\ tx[r].kind = "delete" /\ tx[r].at = "task" /\ tx[r].todo = <<>>
    /\ gone # {}
    /\ \A s \in Sessions : session[s].task \in gone => Free(sessionLock[s], r)
    /\ WriteDelete(gone, tx[r].held)
    /\ End(r)

-----------------------------------------------------------------------------
(* POST /pomodoros/start: the user, then the task, then the INSERT. *)

BeginStart(r, tk) ==
    Begin(r, "start", "user", IF tk = None THEN <<>> ELSE <<tk>>, None, tk, "none")

StartUser(r) ==
    /\ tx[r].kind = "start"
    /\ LockUser(r)
    /\ tx' = [tx EXCEPT ![r].at = IF tx[r].tk = None THEN "commit" ELSE "task"]

StartLock(r) ==
    /\ tx[r].kind = "start" /\ tx[r].at = "task"
    /\ tx[r].tk \in Live
    /\ TakeTask(r, tx[r].tk)
    /\ tx' = [tx EXCEPT ![r].at = "commit"]

\* Refused when another session is active.
StartCommit(r) ==
    /\ tx[r].kind = "start" /\ tx[r].at = "commit"
    /\ Active = {}
    /\ \E s \in Sessions : WriteStart(s, tx[r].tk)
    /\ End(r)

-----------------------------------------------------------------------------
(* POST /pomodoros/{id}/stop: the user, then the session's task as read      *)
(* without a lock, then the session, which is read again.                    *)

BeginFinish(r, s, arg) == Begin(r, "finish", "user", <<>>, s, None, arg)

\* Mutant: the first read locks the session already, before its task.
FinishUserAndSession(r) ==
    LET s == tx[r].s IN
    /\ tx[r].kind = "finish" /\ tx[r].at = "user"
    /\ Free(userLock, r) /\ Free(sessionLock[s], r)
    /\ userLock' = r
    /\ sessionLock' = [sessionLock EXCEPT ![s] = r]
    /\ UNCHANGED <<vars, taskLock, begun>>
    /\ tx' = [tx EXCEPT ![r].tk = session[s].task,
                        ![r].at = IF session[s].task = None THEN "session" ELSE "task"]

FinishUser(r) ==
    LET tk == session[tx[r].s].task IN
    /\ tx[r].kind = "finish"
    /\ LockUser(r)
    /\ tx' = [tx EXCEPT ![r].tk = tk, ![r].at = IF tk = None THEN "session" ELSE "task"]

\* A task that is gone is no error yet: the session decides.
FinishLock(r) ==
    LET t == tx[r].tk IN
    /\ tx[r].kind = "finish" /\ tx[r].at = "task"
    /\ TakeTask(r, t)
    /\ tx' = [tx EXCEPT ![r].at = "session",
                        ![r].rows = IF t \in Live THEN ReadRow(@, t) ELSE @]

\* Mutant: the second read does not ask whether the session is still active.
FinishAnySession(r) ==
    LET s == tx[r].s
        tk == session[s].task
    IN
    /\ tx[r].kind = "finish" /\ tx[r].at = "session"
    /\ TakeSession(r, s)
    /\ tk \in DOMAIN tx[r].rows \cup {None}
    /\ tx' = [tx EXCEPT ![r].at = "commit", ![r].tk = tk]

\* The session as it is now: active, and of no task or of the locked one.
FinishSession(r) ==
    LET s == tx[r].s
        tk == session[s].task
    IN
    /\ tx[r].kind = "finish" /\ tx[r].at = "session"
    /\ TakeSession(r, s)
    /\ s \in Active
    /\ tk \in DOMAIN tx[r].rows \cup {None}
    /\ tx' = [tx EXCEPT ![r].at = "commit", ![r].tk = tk]

FinishArgs == {"completed", "abandoned", "completed with task"}

FinishCommit(r) ==
    LET withTask == tx[r].arg = "completed with task"
        action == IF withTask THEN "completed" ELSE tx[r].arg
    IN
    /\ tx[r].kind = "finish" /\ tx[r].at = "commit"
    /\ WriteFinish(tx[r].s, tx[r].tk, action, withTask, tx[r].age, RowsRewardable(r))
    /\ End(r)

-----------------------------------------------------------------------------
(* The transactions with a single row lock besides the user's: one step. *)

Short ==
    /\ userLock = NoOne
    /\ \/ \E t \in Tasks : SaveTask(t)
       \/ \E s \in Sessions : /\ sessionLock[s] = NoOne
                              /\ TakeBreak(s) \/ EndBreak(s) \/ CancelFocus(s)
       \/ \E s \in Sessions : /\ focus.task # None => taskLock[focus.task] = NoOne
                              /\ ResumeRest(s)
       \/ FinishRest
       \/ GetAchievements
       \/ Shop
    /\ UNCHANGED <<tx, locks, begun>>

\* Time needs no lock.
Time ==
    /\ \E s \in Sessions : Elapse(s)
    /\ UNCHANGED <<tx, locks, begun>>

-----------------------------------------------------------------------------
BeginAny(r) ==
    \/ \E t \in Live, status \in TaskStatuses : BeginUpdate(r, t, status)
    \/ \E T \in SUBSET Live \ {{}} : \E order \in SetToSeqs(T) :
         BeginComplete(r, order) \/ BeginDelete(r, order)
    \/ \E tk \in Live \cup {None} : BeginStart(r, tk)
    \/ \E s \in Sessions, arg \in FinishArgs :
         session[s].status # "unborn" /\ BeginFinish(r, s, arg)

\* The next step of r's transaction.
Step(r) ==
    \/ UpdateUser(r) \/ UpdateLock(r) \/ UpdateCommit(r)
    \/ CompleteUser(r) \/ CompleteLock(r) \/ CompleteCommit(r)
    \/ DeleteLock(r) \/ DeleteAbandon(r) \/ DeleteCommit(r)
    \/ StartUser(r) \/ StartLock(r) \/ StartCommit(r)
    \/ FinishUser(r) \/ FinishLock(r) \/ FinishSession(r) \/ FinishCommit(r)

TxInit ==
    /\ Init
    /\ tx = [r \in Requests |-> NoTx]
    /\ userLock = NoOne
    /\ taskLock = [t \in Tasks |-> NoOne]
    /\ sessionLock = [s \in Sessions |-> NoOne]
    /\ begun = 0

TxNext ==
    \/ \E r \in Requests : BeginAny(r) \/ Step(r) \/ Rollback(r)
    \/ Short
    \/ Time

-----------------------------------------------------------------------------
(* Waiting. *)

\* The holders of the locks that r's next step needs.
Holders(r) ==
    LET next == IF tx[r].kind \in {"complete", "delete"}
                THEN IF tx[r].todo = <<>> THEN None ELSE Head(tx[r].todo)
                ELSE tx[r].tk
        detached == {s \in Sessions : session[s].task \in DOMAIN tx[r].rows}
        attached == {s \in Active : session[s].task = tx[r].tk}
    IN
    CASE tx[r].at = "user" -> {userLock}
      [] tx[r].at = "task" /\ next # None ->
           IF tx[r].kind = "complete" /\ ~Matching(next) THEN {} ELSE {taskLock[next]}
      [] tx[r].at = "task" /\ tx[r].kind = "delete" /\ next = None ->
           {sessionLock[s] : s \in detached}
      [] tx[r].at = "session" ->
           IF tx[r].kind = "delete" THEN {sessionLock[s] : s \in attached}
           ELSE {sessionLock[tx[r].s]}
      [] OTHER -> {}

Blockers(r) == Holders(r) \ {NoOne, r}

\* Requests that wait for each other in a circle.
Knot(D) == D # {} /\ \A r \in D : Blockers(r) \cap D # {}

\* Requests that lock the rows of several tasks.
Bulk == {r \in Requests : /\ tx[r].kind \in {"complete", "delete"}
                          /\ Cardinality(DOMAIN tx[r].rows) + Len(tx[r].todo) > 1}

\* The deadlock detector ends a request of every circle.
Victim(r) ==
    /\ \E D \in SUBSET Requests : r \in D /\ Knot(D)
    /\ Rollback(r)

\* The code refuses the request, which then rolls back: the task of the PATCH
\* or of the start is gone, the session of the finish is not active, another
\* session is active, the tasks to delete were deleted by someone else.
Refused(r) ==
    \/ /\ tx[r].kind \in {"update", "start"} /\ tx[r].at = "task"
       /\ tx[r].tk \notin Live
    \/ /\ tx[r].kind = "finish" /\ tx[r].at = "session"
       /\ \/ tx[r].s \notin Active
          \/ session[tx[r].s].task \notin DOMAIN tx[r].rows \cup {None}
    \/ /\ tx[r].kind = "start" /\ tx[r].at = "commit"
       /\ Active # {} \/ \A s \in Sessions : session[s].status # "unborn"
    \/ /\ tx[r].kind = "delete" /\ tx[r].at = "task"
       /\ tx[r].todo = <<>> /\ DOMAIN tx[r].rows = {}

\* Mutant: an early return forgets the open transaction.
RefuseLeaking(r) == Refused(r) /\ UNCHANGED txVars

Refuse(r) == Refused(r) /\ Rollback(r)

TxSpec == TxInit /\ [][TxNext]_txVars

\* A transaction that can go on does; the lock queues of the database are
\* served in order, so a lock that comes free again and again is got.
FairTxSpec ==
    /\ TxSpec
    /\ \A r \in Requests : /\ SF_txVars(Step(r))
                            /\ WF_txVars(Refuse(r))
                            /\ WF_txVars(Victim(r))

-----------------------------------------------------------------------------
(* Properties. *)

\* The split transactions do what the atomic ones of Rewards do: whatever they
\* read before another transaction committed, each commit is one step of
\* Rewards from the state it finds (withUserTx, lockTask, the trigger).
Serialisable == Spec

\* What a transaction read of a task under its lock is still what the database
\* holds when it uses it, and a deletion has abandoned every active session of
\* the tasks it is about to delete.
ReadsStayFresh ==
    \A r \in Requests :
        /\ \A t \in DOMAIN tx[r].rows : tx[r].rows[t] = task[t]
        /\ tx[r].kind = "delete" /\ tx[r].at = "task" =>
             {s \in Active : session[s].task \in DOMAIN tx[r].rows} = tx[r].held

\* The comment on FinishPomodoroSession: tasks are locked before sessions,
\* which avoids a deadlock with concurrent task deletion.  Every circle of
\* requests that wait for each other contains one of requests that lock several
\* tasks each; finishing, starting and updating never close one.
OnlyBulkDeadlocks ==
    \A D \in SUBSET Requests : Knot(D) => \E E \in SUBSET (D \cap Bulk) : Knot(E)

\* Every request is answered: it commits, is refused, or is rolled back.
EveryRequestEnds ==
    \A r \in Requests : tx[r].kind # "none" ~> tx[r].kind = "none"

=============================================================================
