------------------------------ MODULE Reminders ------------------------------
(***************************************************************************)
(* The delivery of task reminders: the rows task_reminders and             *)
(* reminder_delivery_attempts, the schedulers of the notifier processes    *)
(* that claim and mail them, and the requests of the API that edit, close  *)
(* or delete the task meanwhile.                                           *)
(*                                                                         *)
(* A worker claims a due reminder under a lease, asks whether it is still  *)
(* wanted, mails it outside of any transaction, and acknowledges.  Each of *)
(* these is a step of its own, and between two of them the lease may run   *)
(* out, another worker may claim, the user may change anything.            *)
(*                                                                         *)
(* Time is not counted: "due" says that next_attempt_at has passed, and a  *)
(* lease is "held" until its 90 seconds end.  A lease's token is the name  *)
(* of the worker that drew it, since a worker has one delivery at a time   *)
(* and a reminder of an ended delivery is known by work[w].rem.            *)
(***************************************************************************)
EXTENDS Naturals, FiniteSets

CONSTANTS
    Tasks,
    Reminders,      \* ids of task_reminders; each is used for one row only
    TaskOf,         \* the task each of them belongs to
    Workers,        \* schedulers of the notifier processes
    MaxAttempts,    \* deliveries tried per plan of a reminder (5)
    MaxEdits,       \* bound: requests that lock a task or change the address
    None

ASSUME RemindersAssumption ==
    /\ TaskOf \in [Reminders -> Tasks]
    /\ MaxAttempts \in Nat \ {0}
    /\ MaxEdits \in Nat
    /\ None \notin Tasks \cup Reminders \cup Workers

VARIABLES
    task,           \* tasks.status; "absent" before it is saved
    locked,         \* tasks whose row a request's transaction has locked
    verified,       \* users.is_verified
    address,        \* users.email, as the number of its version
    reminder,       \* the rows of task_reminders
    work,           \* what each scheduler is doing
    history,        \* per reminder: its plan's number, the mails and the
                    \* acknowledgement of that plan, and the losses
    edits           \* requests so far

vars == <<task, locked, verified, address, reminder, work, history, edits>>

Statuses == {"none", "scheduled", "sent", "failed", "cancelled"}

\* A row that has just been inserted, or moved to another instant.
Scheduled == [status |-> "scheduled", attempts |-> 0, due |-> FALSE,
              lease |-> "none", token |-> None]
NoRow == [Scheduled EXCEPT !.status = "none"]

Idle == [at |-> "idle", task |-> None, rem |-> None, attempt |-> 0, plan |-> 0,
         address |-> 0, ok |-> FALSE, live |-> FALSE]

NoHistory == [plan |-> 0, mails |-> 0, lost |-> 0, acked |-> FALSE]

RemindersOf(t) == {r \in Reminders : TaskOf[r] = t}

\* The reminders a task shows: reminderJSON leaves the cancelled ones out.
Visible(t) == {r \in RemindersOf(t) : reminder[r].status \notin {"none", "cancelled"}}

Withdrawn(row) == [row EXCEPT !.status = "cancelled", !.lease = "none", !.token = None]

\* The rows of R begin a new plan: no mail of it has been sent yet.
NewPlan(R) ==
    history' = [r \in Reminders |-> IF r \in R
                  THEN [NoHistory EXCEPT !.plan = history[r].plan + 1]
                  ELSE history[r]]

Init ==
    /\ task = [t \in Tasks |-> "absent"]
    /\ locked = {}
    /\ verified = TRUE
    /\ address = 1
    /\ reminder = [r \in Reminders |-> NoRow]
    /\ work = [w \in Workers |-> Idle]
    /\ history = [r \in Reminders |-> NoHistory]
    /\ edits = 0

-----------------------------------------------------------------------------
(* The requests of the API. *)

\* POST /tasks: the task and its reminders in one transaction.
SaveTask(t, added) ==
    /\ task[t] = "absent"
    /\ task' = [task EXCEPT ![t] = "pending"]
    /\ reminder' = [r \in Reminders |-> IF r \in added THEN Scheduled ELSE reminder[r]]
    /\ NewPlan(added)
    /\ UNCHANGED <<locked, verified, address, work, edits>>

Request == edits < MaxEdits /\ edits' = edits + 1

\* A request's transaction takes the task's row lock.  What it goes on to do
\* is decided when it commits.
LockTask(t) ==
    /\ task[t] \in {"pending", "closed"}
    /\ t \notin locked
    /\ Request
    /\ locked' = locked \cup {t}
    /\ UNCHANGED <<task, verified, address, reminder, work, history>>

Unlock(t) == t \in locked /\ locked' = locked \ {t}

Rollback(t) ==
    /\ Unlock(t)
    /\ UNCHANGED <<task, verified, address, reminder, work, history, edits>>

\* Mutant of Cancelled: a failed reminder is left alone.
CancelsWaitingOnly(t, status, rows) ==
    [r \in Reminders |->
        IF status = "closed" /\ TaskOf[r] = t /\ rows[r].status = "scheduled"
        THEN Withdrawn(rows[r]) ELSE rows[r]]

\* The trigger cancel_task_reminders, after a write of the column status.
Cancelled(t, status, rows) ==
    [r \in Reminders |->
        IF /\ status = "closed" /\ TaskOf[r] = t
           /\ rows[r].status \in {"scheduled", "failed"}
        THEN Withdrawn(rows[r]) ELSE rows[r]]

\* A reminder that was sent cannot be planned anew, and does not follow the
\* deadline either.
Movable(t) == {r \in Visible(t) : reminder[r].status # "sent"}

\* tasks.status after a request with this status, None when it names none.
Written(t, status) == IF status = None THEN task[t] ELSE status

\* PATCH /tasks/{id}, bulk completion and the end of a focus: replaceTaskReminders
\* takes the removed reminders out, moves others to a new instant and inserts
\* the added ones; then the status, unless it is None, is written.
UpdateTask(t, status, removed, moved, added) ==
    /\ Unlock(t)
    /\ removed \subseteq Visible(t)
    /\ moved \subseteq Movable(t) \ removed
    /\ added \subseteq {r \in RemindersOf(t) : reminder[r].status = "none"}
    /\ added # {} => Written(t, status) = "pending"
    /\ reminder' = Cancelled(t, status,
                     [r \in Reminders |->
                        IF r \in removed THEN Withdrawn(reminder[r])
                        ELSE IF r \in moved \cup added THEN Scheduled
                        ELSE reminder[r]])
    /\ NewPlan(moved \cup added)
    /\ task' = [task EXCEPT ![t] = Written(t, status)]
    /\ UNCHANGED <<verified, address, work, edits>>

\* DELETE /tasks/{id}: the reminders and their journals go with the row.
DeleteTask(t) ==
    /\ Unlock(t)
    /\ task' = [task EXCEPT ![t] = "deleted"]
    /\ reminder' = [r \in Reminders |-> IF TaskOf[r] = t THEN NoRow ELSE reminder[r]]
    /\ history' = [r \in Reminders |-> IF TaskOf[r] = t THEN NoHistory ELSE history[r]]
    /\ UNCHANGED <<verified, address, work, edits>>

ChangeEmail ==
    /\ Request
    /\ address' = address + 1
    /\ verified' = FALSE
    /\ UNCHANGED <<task, locked, reminder, work, history>>

ConfirmEmail ==
    /\ ~verified
    /\ verified' = TRUE
    /\ UNCHANGED <<task, locked, address, reminder, work, history, edits>>

-----------------------------------------------------------------------------
(* A scheduler: ClaimReminder in three steps, then the delivery. *)

\* Mutant of Exhausted: an attempt too late.
ExhaustedTooLate(r) ==
    /\ reminder[r].status = "scheduled"
    /\ reminder[r].attempts > MaxAttempts
    /\ reminder[r].lease = "expired"

\* The first statement of ClaimReminder, a transaction of its own: a worker
\* that died in the last attempt leaves a row that nobody may claim.
Exhausted(r) ==
    /\ reminder[r].status = "scheduled"
    /\ reminder[r].attempts >= MaxAttempts
    /\ reminder[r].lease = "expired"

Retire(w) ==
    /\ work[w] = Idle
    /\ work' = [work EXCEPT ![w].at = "select"]
    /\ reminder' = [r \in Reminders |->
            IF Exhausted(r)
            THEN [reminder[r] EXCEPT !.status = "failed", !.lease = "none", !.token = None]
            ELSE reminder[r]]
    /\ UNCHANGED <<task, locked, verified, address, history, edits>>

\* Mutants of Claimable: attempts are not looked at, or leases are not.
ClaimableForEver(r) ==
    reminder[r].status = "scheduled" /\ reminder[r].due /\ reminder[r].lease # "held"

ClaimableUnderLease(r) ==
    /\ reminder[r].status = "scheduled"
    /\ reminder[r].attempts < MaxAttempts
    /\ reminder[r].due

Claimable(r) ==
    /\ reminder[r].status = "scheduled"
    /\ reminder[r].attempts < MaxAttempts
    /\ reminder[r].due
    /\ reminder[r].lease # "held"

\* The task a snapshot finds; its lock is taken in the next step.
Select(w) ==
    /\ work[w].at = "select"
    /\ LET found == {t \in Tasks : /\ task[t] = "pending" /\ verified
                                   /\ \E r \in RemindersOf(t) : Claimable(r)}
       IN  \/ \E t \in found : work' = [work EXCEPT ![w].at = "claim", ![w].task = t]
           \/ found = {} /\ work' = [work EXCEPT ![w] = Idle]
    /\ UNCHANGED <<task, locked, verified, address, reminder, history, edits>>

Claim(w, r) ==
    /\ work[w].at = "claim"
    /\ TaskOf[r] = work[w].task
    /\ work[w].task \notin locked
    /\ task[work[w].task] = "pending"
    /\ Claimable(r)
    /\ reminder' = [reminder EXCEPT ![r].lease = "held", ![r].token = w,
                                    ![r].attempts = @ + 1]
    /\ work' = [work EXCEPT ![w] = [Idle EXCEPT
            !.at = "check", !.task = TaskOf[r], !.rem = r, !.address = address,
            !.attempt = reminder[r].attempts + 1, !.plan = history[r].plan]]
    /\ UNCHANGED <<task, locked, verified, address, history, edits>>

\* SKIP LOCKED passes over a task whose row is locked, the lock's recheck over
\* one that is no longer pending, and another worker may have claimed since
\* the snapshot.
ClaimNothing(w) ==
    /\ work[w].at = "claim"
    /\ \/ work[w].task \in locked
       \/ task[work[w].task] # "pending"
       \/ \A r \in RemindersOf(work[w].task) : ~Claimable(r)
    /\ work' = [work EXCEPT ![w] = Idle]
    /\ UNCHANGED <<task, locked, verified, address, reminder, history, edits>>

\* ReminderReady: is the delivery still wanted, at this address?
Ready(w) ==
    LET d == work[w] IN
    /\ reminder[d.rem].token = w
    /\ reminder[d.rem].status = "scheduled"
    /\ reminder[d.rem].lease = "held"
    /\ task[d.task] = "pending"
    /\ verified
    /\ address = d.address

Check(w) ==
    /\ work[w].at = "check"
    /\ work' = IF Ready(w) THEN [work EXCEPT ![w].at = "send"]
                           ELSE [work EXCEPT ![w] = Idle]
    /\ UNCHANGED <<task, locked, verified, address, reminder, history, edits>>

\* A mail, a loss, both at once, or an acknowledgement is counted.
Counted(h, field) ==
    CASE field = "mail" -> [h EXCEPT !.mails = @ + 1]
      [] field = "unanswered" -> [h EXCEPT !.mails = @ + 1, !.lost = @ + 1]
      [] field = "loss" -> [h EXCEPT !.lost = @ + 1]
      [] field = "ack" -> [h EXCEPT !.acked = TRUE]

\* The history counts only what belongs to the present plan of a reminder.
Count(w, field) ==
    LET d == work[w] IN
    IF d.plan # history[d.rem].plan THEN history
    ELSE [history EXCEPT ![d.rem] = Counted(history[d.rem], field)]

\* The SMTP server accepts the mail, or does not, or accepts it and the
\* answer to the end of DATA is lost.
Send(w) ==
    /\ work[w].at = "send"
    /\ \E outcome \in {"accepted", "refused", "unanswered"} :
        /\ work' = [work EXCEPT ![w].at = "finish", ![w].ok = outcome = "accepted"]
        /\ history' = CASE outcome = "accepted" -> Count(w, "mail")
                        [] outcome = "unanswered" -> Count(w, "unanswered")
                        [] OTHER -> history
    /\ UNCHANGED <<task, locked, verified, address, reminder, edits>>

\* FinishReminder begins; CURRENT_TIMESTAMP is the time of this step, however
\* long the transaction then waits for the task's row.
BeginFinish(w) ==
    /\ work[w].at = "finish"
    /\ work' = [work EXCEPT ![w].at = "ack", ![w].live = reminder[work[w].rem].lease = "held"]
    /\ UNCHANGED <<task, locked, verified, address, reminder, history, edits>>

\* Mutant of Fenced: the token is not compared.
FencedByStatus(w) == reminder[work[w].rem].status = "scheduled" /\ work[w].live

Fenced(w) ==
    /\ reminder[work[w].rem].token = w
    /\ reminder[work[w].rem].status = "scheduled"
    /\ work[w].live

\* What an acknowledgement makes of the row.
Acknowledged(row, attempt, ok) ==
    [row EXCEPT !.status = IF ok THEN "sent"
                           ELSE IF attempt >= MaxAttempts THEN "failed" ELSE "scheduled",
                !.due = ok \/ attempt >= MaxAttempts,
                !.lease = "none", !.token = None]

Finish(w) ==
    LET d == work[w] IN
    /\ d.at = "ack"
    /\ d.task \notin locked
    /\ work' = [work EXCEPT ![w] = Idle]
    /\ IF task[d.task] # "deleted" /\ Fenced(w)
       THEN /\ reminder' = [reminder EXCEPT ![d.rem] = Acknowledged(@, d.attempt, d.ok)]
            /\ history' = IF d.ok THEN Count(w, "ack") ELSE history
       ELSE UNCHANGED <<reminder, history>>
    /\ UNCHANGED <<task, locked, verified, address, edits>>

\* The process dies, or a call to the database fails or times out: poll
\* returns and the delivery is forgotten, with the news of a mail that went out.
Drop(w) ==
    /\ work[w].at \in {"check", "send", "finish", "ack"}
    /\ work' = [work EXCEPT ![w] = Idle]
    /\ history' = IF work[w].ok THEN Count(w, "loss") ELSE history
    /\ UNCHANGED <<task, locked, verified, address, reminder, edits>>

-----------------------------------------------------------------------------
(* Time. *)

BecomesDue(r) ==
    /\ reminder[r].status = "scheduled"
    /\ ~reminder[r].due
    /\ reminder' = [reminder EXCEPT ![r].due = TRUE]
    /\ UNCHANGED <<task, locked, verified, address, work, history, edits>>

\* w is still busy with the delivery that leased r.
Delivering(w, r) ==
    /\ work[w].at \in {"check", "send", "finish", "ack"}
    /\ work[w].rem = r
    /\ work[w].plan = history[r].plan
    /\ work[w].attempt = reminder[r].attempts

\* The 90 seconds of a lease end.  The timeouts of a delivery are shorter (5
\* seconds to claim, 5 to check, 10 to connect and 45 to mail, 5 to
\* acknowledge), so they end under a delivery only when its process stood
\* still; that counts as a loss.
Expire(r) ==
    /\ reminder[r].lease = "held"
    /\ reminder' = [reminder EXCEPT ![r].lease = "expired"]
    /\ history' = IF \E w \in Workers : Delivering(w, r)
                  THEN [history EXCEPT ![r].lost = @ + 1] ELSE history
    /\ UNCHANGED <<task, locked, verified, address, work, edits>>

-----------------------------------------------------------------------------

Deliver(w) ==
    \/ Retire(w) \/ Select(w)
    \/ \E r \in Reminders : Claim(w, r)
    \/ ClaimNothing(w) \/ Check(w) \/ Send(w) \/ BeginFinish(w) \/ Finish(w)

EndRequest(t) ==
    \/ Rollback(t) \/ DeleteTask(t)
    \/ \E status \in {"pending", "closed", None} :
         \E removed, moved, added \in SUBSET RemindersOf(t) :
            UpdateTask(t, status, removed, moved, added)

Next ==
    \/ \E t \in Tasks :
        \/ \E added \in SUBSET RemindersOf(t) : SaveTask(t, added)
        \/ LockTask(t) \/ EndRequest(t)
    \/ ChangeEmail \/ ConfirmEmail
    \/ \E w \in Workers : Deliver(w) \/ Drop(w)
    \/ \E r \in Reminders : BecomesDue(r) \/ Expire(r)

Spec == Init /\ [][Next]_vars

\* The schedulers poll every 30 seconds at the latest, a transaction ends,
\* and time goes on.
FairSpec ==
    /\ Spec
    /\ \A w \in Workers : WF_vars(Deliver(w))
    /\ \A t \in Tasks : WF_vars(EndRequest(t))
    /\ \A r \in Reminders : WF_vars(BecomesDue(r)) /\ WF_vars(Expire(r))

-----------------------------------------------------------------------------

\* Every mail of a plan was paid for with an attempt that was counted before
\* it went out, and there are no more than MaxAttempts of them, whatever
\* crashes, expired leases and second workers come between (docs/REMINDERS.md:
\* five attempts in all; ClaimReminder counts, FinishReminder and Retire end).
AttemptsBoundMails ==
    \A r \in Reminders :
        /\ history[r].mails <= reminder[r].attempts
        /\ reminder[r].attempts <= MaxAttempts

\* The records of a plan are true.  A reminder is shown as sent only if a mail
\* of its present plan was handed over: the acknowledgement of a worker that
\* mailed an earlier plan, or that lost its lease, does not count.  And what was
\* acknowledged is never delivered again: the late failure of another worker
\* does not put it back into the queue (the fence of FinishReminder).
RecordsAreTrue ==
    \A r \in Reminders :
        /\ reminder[r].status = "sent" => history[r].mails > 0 /\ history[r].acked
        /\ history[r].acked => reminder[r].status \in {"sent", "cancelled"}

\* What waits is dealt with.  A closed task has nothing left to deliver,
\* although the cancellation (a trigger), an edit of the reminders in the same
\* request and the acknowledgement of a delivery under way write the same rows.
\* A row whose attempts are used up is under a lease: Claim no longer takes it
\* and Retire looks for the lease's end, so without one it would stay for ever.
WaitingIsServed ==
    \A r \in Reminders :
        /\ task[TaskOf[r]] = "closed" => reminder[r].status \notin {"scheduled", "failed"}
        /\ reminder[r].status = "scheduled" /\ reminder[r].attempts >= MaxAttempts
           => reminder[r].lease # "none" /\ reminder[r].token # None

\* A plan is mailed once more only for each loss: of the SMTP server's answer,
\* of the acknowledgement by a worker that died or could not reach the
\* database, or of the lease under a process that stood still.  Two workers,
\* retries and edits alone never mail anything twice.
DuplicateNeedsLoss ==
    \A r \in Reminders : history[r].mails <= 1 + history[r].lost

\* A reminder does not wait for ever while the address is confirmed: it is
\* sent, fails or is taken back, whatever workers die on the way.
EventuallySettled ==
    \A r \in Reminders :
        reminder[r].status = "scheduled" /\ verified
        ~> reminder[r].status # "scheduled" \/ ~verified

=============================================================================
