--------------------------- MODULE RemindersProofs ---------------------------
(***************************************************************************)
(* Proofs about Reminders for any number of tasks, reminders, schedulers   *)
(* and attempts.                                                           *)
(*                                                                         *)
(* The row of a reminder knows its latest claim only, while deliveries of  *)
(* earlier claims and of earlier plans may still be under way.  The        *)
(* invariant says of each of them what it can still do: at most one counts *)
(* as unpaid by a loss, it is the one of the latest attempt, and while the *)
(* row waits, its lease has not run out.                                   *)
(***************************************************************************)
EXTENDS Reminders, FiniteSetTheorems, TLAPS

Stages == {"idle", "select", "claim", "check", "send", "finish", "ack"}
Busy == {"check", "send", "finish", "ack"}

RowType == [status : Statuses, attempts : Nat, due : BOOLEAN,
            lease : {"none", "held", "expired"}, token : Workers \cup {None}]

HistoryType == [plan : Nat, mails : Nat, lost : Nat, acked : BOOLEAN]

WorkType == [at : Stages, task : Tasks \cup {None}, rem : Reminders \cup {None},
             attempt : Nat, plan : Nat, address : Nat, ok : BOOLEAN, live : BOOLEAN]

Typed ==
    /\ task \in [Tasks -> {"absent", "pending", "closed", "deleted"}]
    /\ locked \subseteq Tasks
    /\ verified \in BOOLEAN /\ address \in Nat /\ edits \in Nat
    /\ reminder \in [Reminders -> RowType]
    /\ work \in [Workers -> WorkType]
    /\ history \in [Reminders -> HistoryType]

\* Rows belong to living tasks, and a row has a plan.
RowsInv ==
    /\ \A t \in locked : task[t] \in {"pending", "closed"}
    /\ \A r \in Reminders :
        /\ task[TaskOf[r]] \in {"absent", "deleted"} => reminder[r].status = "none"
        /\ reminder[r].status # "none" => history[r].plan > 0
        /\ reminder[r].attempts <= MaxAttempts

\* A delivery is of a plan that is or was.
DeliveryInv ==
    \A w \in Workers : work[w].at \in Busy =>
        /\ work[w].rem \in Reminders
        /\ work[w].task = TaskOf[work[w].rem]
        /\ work[w].plan > 0
        /\ \/ task[work[w].task] = "deleted" /\ history[work[w].rem].plan = 0
           \/ work[w].plan <= history[work[w].rem].plan
        /\ work[w].at \in {"check", "send"} => ~work[w].ok

\* w delivers r in its present plan.
Current(w, r) ==
    /\ work[w].at \in Busy
    /\ work[w].rem = r
    /\ work[w].plan = history[r].plan

\* The attempts of a plan are different ones, the latest is the row's, and
\* while its lease lasts the row has its token.
CurrentInv ==
    \A r \in Reminders, w \in Workers : Current(w, r) =>
        /\ work[w].attempt <= reminder[r].attempts
        /\ work[w].ok => history[r].mails > 0
        /\ work[w].attempt = reminder[r].attempts /\ reminder[r].lease = "held"
           => /\ reminder[r].token = w
              /\ work[w].at = "ack" => work[w].live
        /\ \A v \in Workers : Current(v, r) /\ work[v].attempt = work[w].attempt => v = w

\* A worker whose token the row has, and that delivers it, is the latest.
TokenInv ==
    \A w \in Workers, r \in Reminders :
        work[w].at \in Busy /\ work[w].rem = r /\ reminder[r].token = w => Delivering(w, r)

\* The deliveries of r's present plan that may still mail.
Unsent(r) == {w \in Workers : Current(w, r) /\ work[w].at \in {"check", "send"}}

\* The mails of a plan, those that may yet come included.
Mailable(r) == history[r].mails + Cardinality(Unsent(r))

\* w delivers r and has mailed it without a loss, or may mail it.
Open(w, r) == Delivering(w, r) /\ (work[w].at \in {"check", "send"} \/ work[w].ok)

\* Every mail is paid for by an attempt, and all but one by a loss.  While the
\* row waits, that one belongs to the delivery of a lease that lasts.
Paid(r) ==
    /\ IsFiniteSet(Unsent(r))
    /\ Mailable(r) <= reminder[r].attempts
    /\ Mailable(r) <= history[r].lost + 1
    /\ reminder[r].status = "scheduled" /\ Mailable(r) = history[r].lost + 1
       => reminder[r].lease = "held" /\ \E w \in Workers : Open(w, r)

CountInv == \A r \in Reminders : Paid(r)

ReminderInv ==
    /\ Typed
    /\ RowsInv
    /\ DeliveryInv
    /\ CurrentInv
    /\ TokenInv
    /\ CountInv
    /\ RecordsAreTrue
    /\ WaitingIsServed

-----------------------------------------------------------------------------
(* Types. *)

LEMMA RowTypes ==
    /\ Scheduled \in RowType /\ NoRow \in RowType /\ NoHistory \in HistoryType
    /\ Idle \in WorkType
    /\ \A row \in RowType : Withdrawn(row) \in RowType
    /\ \A h \in HistoryType : [NoHistory EXCEPT !.plan = h.plan + 1] \in HistoryType
  <1>1. Scheduled \in RowType /\ NoRow \in RowType
    BY DEF Scheduled, NoRow, RowType, Statuses
  <1>2. Idle \in WorkType
    BY DEF Idle, WorkType, Stages
  <1>3. \A row \in RowType : Withdrawn(row) \in RowType
    BY DEF RowType, Statuses, Withdrawn
  <1>4. NoHistory \in HistoryType
    BY DEF NoHistory, HistoryType
  <1>5. \A h \in HistoryType : [NoHistory EXCEPT !.plan = h.plan + 1] \in HistoryType
    <2> SUFFICES ASSUME NEW h \in HistoryType
                 PROVE  [NoHistory EXCEPT !.plan = h.plan + 1] \in HistoryType
      OBVIOUS
    <2> DEFINE n == h.plan + 1
    <2>1. n \in Nat
      BY DEF HistoryType
    <2> HIDE DEF n
    <2>2. [NoHistory EXCEPT !.plan = n] \in HistoryType
      BY <2>1 DEF NoHistory, HistoryType
    <2>3. QED
      BY <2>2 DEF n
  <1>6. QED
    BY <1>1, <1>2, <1>3, <1>4, <1>5

LEMMA NewPlanTyped ==
    ASSUME Typed, NEW R, NewPlan(R)
    PROVE  history' \in [Reminders -> HistoryType]
  BY RowTypes DEF NewPlan, Typed

LEMMA CancelledTyped ==
    ASSUME NEW t, NEW status, NEW rows \in [Reminders -> RowType]
    PROVE  Cancelled(t, status, rows) \in [Reminders -> RowType]
  BY RowTypes DEF Cancelled

LEMMA RequestsTyped ==
    ASSUME Typed, NEW t \in Tasks,
           \/ \E added \in SUBSET RemindersOf(t) : SaveTask(t, added)
           \/ LockTask(t) \/ EndRequest(t)
    PROVE  Typed'
  <1> USE RowTypes DEF Typed
  <1>1. ASSUME NEW added, SaveTask(t, added)
        PROVE  Typed'
    BY <1>1, NewPlanTyped DEF SaveTask
  <1>2. CASE LockTask(t)
    BY <1>2 DEF LockTask, Request
  <1>3. CASE Rollback(t)
    BY <1>3 DEF Rollback, Unlock
  <1>4. CASE DeleteTask(t)
    BY <1>4 DEF DeleteTask, Unlock
  <1>5. ASSUME NEW status \in {"pending", "closed", None}, NEW removed, NEW moved, NEW added,
               UpdateTask(t, status, removed, moved, added)
        PROVE  Typed'
    <2> DEFINE rows == [r \in Reminders |->
                          IF r \in removed THEN Withdrawn(reminder[r])
                          ELSE IF r \in moved \cup added THEN Scheduled
                          ELSE reminder[r]]
    <2>1. rows \in [Reminders -> RowType]
      OBVIOUS
    <2>2. reminder' = Cancelled(t, status, rows)
      BY <1>5 DEF UpdateTask
    <2> HIDE DEF rows
    <2>3. reminder' \in [Reminders -> RowType]
      BY <2>1, <2>2, CancelledTyped
    <2>4. history' \in [Reminders -> HistoryType]
      BY <1>5, NewPlanTyped DEF UpdateTask
    <2>5. task' \in [Tasks -> {"absent", "pending", "closed", "deleted"}]
      BY <1>5 DEF UpdateTask, Written
    <2>6. QED
      BY <1>5, <2>3, <2>4, <2>5 DEF UpdateTask, Unlock
  <1>6. QED
    BY <1>1, <1>2, <1>3, <1>4, <1>5 DEF EndRequest

\* Of a delivery only its stage and what comes with it change.
LEMMA WorkTyped ==
    ASSUME Typed, NEW w \in Workers, NEW e \in WorkType, work' = [work EXCEPT ![w] = e]
    PROVE  work' \in [Workers -> WorkType]
  BY DEF Typed

\* What is counted moves one counter or two, and never the plan.
LEMMA CountedFields ==
    ASSUME NEW h \in HistoryType
    PROVE  /\ \A field \in {"mail", "unanswered", "loss", "ack"} :
                Counted(h, field) \in HistoryType /\ Counted(h, field).plan = h.plan
           /\ Counted(h, "mail") = [h EXCEPT !.mails = h.mails + 1]
           /\ Counted(h, "unanswered") = [h EXCEPT !.mails = h.mails + 1, !.lost = h.lost + 1]
           /\ Counted(h, "loss") = [h EXCEPT !.lost = h.lost + 1]
           /\ Counted(h, "ack") = [h EXCEPT !.acked = TRUE]
  <1>1. Counted(h, "mail") = [h EXCEPT !.mails = h.mails + 1]
    BY DEF Counted
  <1>2. Counted(h, "unanswered") = [h EXCEPT !.mails = h.mails + 1, !.lost = h.lost + 1]
    BY DEF Counted
  <1>3. Counted(h, "loss") = [h EXCEPT !.lost = h.lost + 1]
    BY DEF Counted
  <1>4. Counted(h, "ack") = [h EXCEPT !.acked = TRUE]
    BY DEF Counted
  <1>5. \A field \in {"mail", "unanswered", "loss", "ack"} :
          Counted(h, field) \in HistoryType /\ Counted(h, field).plan = h.plan
    <2> DEFINE m == h.mails + 1
               l == h.lost + 1
    <2>0. /\ Counted(h, "mail") = [h EXCEPT !.mails = m]
          /\ Counted(h, "unanswered") = [h EXCEPT !.mails = m, !.lost = l]
          /\ Counted(h, "loss") = [h EXCEPT !.lost = l]
      BY <1>1, <1>2, <1>3
    <2>1. m \in Nat /\ l \in Nat
      BY DEF HistoryType
    <2> HIDE DEF m, l
    <2>2. /\ [h EXCEPT !.mails = m] \in HistoryType
          /\ [h EXCEPT !.lost = l] \in HistoryType
          /\ [h EXCEPT !.mails = m, !.lost = l] \in HistoryType
          /\ [h EXCEPT !.acked = TRUE] \in HistoryType
          /\ [h EXCEPT !.mails = m].plan = h.plan
          /\ [h EXCEPT !.lost = l].plan = h.plan
          /\ [h EXCEPT !.mails = m, !.lost = l].plan = h.plan
          /\ [h EXCEPT !.acked = TRUE].plan = h.plan
      BY <2>1 DEF HistoryType
    <2>3. QED
      BY <1>4, <2>0, <2>2
  <1>6. QED
    BY <1>1, <1>2, <1>3, <1>4, <1>5

LEMMA CountTyped ==
    ASSUME Typed, NEW w \in Workers,
           NEW field \in {"mail", "unanswered", "loss", "ack"}, history' = Count(w, field)
    PROVE  history' \in [Reminders -> HistoryType]
  <1>1. history \in [Reminders -> HistoryType]
    BY DEF Typed
  <1> DEFINE q == work[w].rem
  <1>2. \/ history' = history
        \/ history' = [history EXCEPT ![q] = Counted(history[q], field)]
    BY DEF Count
  <1>3. q \in Reminders => Counted(history[q], field) \in HistoryType
    BY <1>1, CountedFields
  <1> HIDE DEF q
  <1>4. QED
    BY <1>1, <1>2, <1>3

LEMMA WorkersTyped ==
    ASSUME Typed, NEW w \in Workers, Deliver(w) \/ Drop(w)
    PROVE  Typed'
  <1> USE RowTypes
  <1>1. /\ work[w] \in WorkType
        /\ task \in [Tasks -> {"absent", "pending", "closed", "deleted"}]
        /\ locked \subseteq Tasks
        /\ verified \in BOOLEAN /\ address \in Nat /\ edits \in Nat
        /\ reminder \in [Reminders -> RowType]
        /\ history \in [Reminders -> HistoryType]
    BY DEF Typed
  <1> DEFINE Rest == /\ task' \in [Tasks -> {"absent", "pending", "closed", "deleted"}]
                     /\ locked' \subseteq Tasks
                     /\ verified' \in BOOLEAN /\ address' \in Nat /\ edits' \in Nat
  <1>2. ASSUME UNCHANGED <<task, locked, verified, address, edits>>
        PROVE  Rest
    BY <1>1, <1>2
  <1>3. CASE Retire(w)
    <2>1. [work[w] EXCEPT !.at = "select"] \in WorkType
      BY <1>1 DEF WorkType, Stages
    <2>2. work' = [work EXCEPT ![w] = [work[w] EXCEPT !.at = "select"]]
      BY <1>3 DEF Retire
    <2>3. work' \in [Workers -> WorkType]
      BY <2>1, <2>2, WorkTyped
    <2>4. \A row \in RowType : [row EXCEPT !.status = "failed", !.lease = "none", !.token = None]
                                 \in RowType
      BY DEF RowType, Statuses
    <2>5. reminder' \in [Reminders -> RowType]
      BY <1>1, <1>3, <2>4 DEF Retire
    <2>6. QED
      BY <1>1, <1>2, <1>3, <2>3, <2>5 DEF Retire, Typed
  <1>4. CASE Select(w)
    <2>1. ASSUME NEW t \in Tasks
          PROVE  [work[w] EXCEPT !.at = "claim", !.task = t] \in WorkType
      BY <1>1 DEF WorkType, Stages
    <2>2. \/ \E t \in Tasks : work' = [work EXCEPT ![w] = [work[w] EXCEPT !.at = "claim", !.task = t]]
          \/ work' = [work EXCEPT ![w] = Idle]
      BY <1>4 DEF Select
    <2>3. work' \in [Workers -> WorkType]
      BY <2>1, <2>2, WorkTyped
    <2>4. QED
      BY <1>1, <1>2, <1>4, <2>3 DEF Select, Typed
  <1>5. ASSUME NEW r \in Reminders, Claim(w, r)
        PROVE  Typed'
    <2> DEFINE e == [Idle EXCEPT
            !.at = "check", !.task = TaskOf[r], !.rem = r, !.address = address,
            !.attempt = reminder[r].attempts + 1, !.plan = history[r].plan]
               row == [reminder[r] EXCEPT !.lease = "held", !.token = w, !.attempts = @ + 1]
    <2>0. /\ reminder[r] \in RowType /\ history[r] \in HistoryType
          /\ TaskOf[r] \in Tasks /\ address \in Nat
          /\ history[r].plan \in Nat /\ reminder[r].attempts \in Nat
          /\ reminder[r].attempts + 1 \in Nat
      BY <1>1, RemindersAssumption DEF RemindersAssumption, RowType, HistoryType
    <2>1. e \in WorkType
      BY <2>0 DEF Idle, WorkType, Stages
    <2>2. row \in RowType
      BY <2>0 DEF RowType
    <2>3. work' = [work EXCEPT ![w] = e] /\ reminder' = [reminder EXCEPT ![r] = row]
      BY <1>5 DEF Claim
    <2> HIDE DEF e, row
    <2>4. work' \in [Workers -> WorkType] /\ reminder' \in [Reminders -> RowType]
      BY <1>1, <2>1, <2>2, <2>3, WorkTyped
    <2>5. QED
      BY <1>1, <1>2, <1>5, <2>4 DEF Claim, Typed
  <1>6. CASE ClaimNothing(w)
    BY <1>1, <1>2, <1>6, WorkTyped DEF ClaimNothing, Typed
  <1>7. CASE Check(w)
    <2>1. [work[w] EXCEPT !.at = "send"] \in WorkType
      BY <1>1 DEF WorkType, Stages
    <2>2. \/ work' = [work EXCEPT ![w] = [work[w] EXCEPT !.at = "send"]]
          \/ work' = [work EXCEPT ![w] = Idle]
      BY <1>7 DEF Check
    <2>3. work' \in [Workers -> WorkType]
      BY <2>1, <2>2, WorkTyped
    <2>4. QED
      BY <1>1, <1>2, <1>7, <2>3 DEF Check, Typed
  <1>8. CASE Send(w)
    <2>1. PICK outcome \in {"accepted", "refused", "unanswered"} :
            /\ work' = [work EXCEPT ![w] = [work[w] EXCEPT !.at = "finish", !.ok = outcome = "accepted"]]
            /\ history' \in {Count(w, "mail"), Count(w, "unanswered"), history}
      BY <1>8 DEF Send
    <2>2. [work[w] EXCEPT !.at = "finish", !.ok = outcome = "accepted"] \in WorkType
      BY <1>1 DEF WorkType, Stages
    <2>3. work' \in [Workers -> WorkType]
      BY <2>1, <2>2, WorkTyped
    <2>4. history' \in [Reminders -> HistoryType]
      BY <1>1, <2>1, CountTyped
    <2>5. QED
      BY <1>1, <1>2, <1>8, <2>3, <2>4 DEF Send, Typed
  <1>9. CASE BeginFinish(w)
    <2> DEFINE live == reminder[work[w].rem].lease = "held"
    <2>1. live \in BOOLEAN
      OBVIOUS
    <2>2. work' = [work EXCEPT ![w] = [work[w] EXCEPT !.at = "ack", !.live = live]]
      BY <1>9 DEF BeginFinish
    <2> HIDE DEF live
    <2>3. [work[w] EXCEPT !.at = "ack", !.live = live] \in WorkType
      BY <1>1, <2>1 DEF WorkType, Stages
    <2>4. work' \in [Workers -> WorkType]
      BY <2>2, <2>3, WorkTyped
    <2>5. QED
      BY <1>1, <1>2, <1>9, <2>4 DEF BeginFinish, Typed
  <1>10. CASE Finish(w)
    <2>1. work' \in [Workers -> WorkType]
      BY <1>10, WorkTyped DEF Finish
    <2>2. history' \in [Reminders -> HistoryType]
      BY <1>1, <1>10, CountTyped DEF Finish
    <2>3. \A row \in RowType : \A a, ok : Acknowledged(row, a, ok) \in RowType
      <3> SUFFICES ASSUME NEW row \in RowType, NEW a, NEW ok
                   PROVE  Acknowledged(row, a, ok) \in RowType
        OBVIOUS
      <3> DEFINE st == IF ok THEN "sent" ELSE IF a >= MaxAttempts THEN "failed" ELSE "scheduled"
                 due == ok \/ a >= MaxAttempts
      <3>1. Acknowledged(row, a, ok) =
              [row EXCEPT !.status = st, !.due = due, !.lease = "none", !.token = None]
        BY DEF Acknowledged
      <3>2. st \in Statuses /\ due \in BOOLEAN
        BY DEF Statuses
      <3> HIDE DEF st, due
      <3>3. QED
        BY <3>1, <3>2 DEF RowType
    <2>4. reminder' \in [Reminders -> RowType]
      BY <1>1, <1>10, <2>3 DEF Finish
    <2>5. QED
      BY <1>1, <1>2, <1>10, <2>1, <2>2, <2>4 DEF Finish, Typed
  <1>11. CASE Drop(w)
    <2>1. work' \in [Workers -> WorkType] /\ history' \in [Reminders -> HistoryType]
      BY <1>1, <1>11, WorkTyped, CountTyped DEF Drop
    <2>2. QED
      BY <1>1, <1>2, <1>11, <2>1 DEF Drop, Typed
  <1>12. QED
    BY <1>3, <1>4, <1>5, <1>6, <1>7, <1>8, <1>9, <1>10, <1>11 DEF Deliver

LEMMA TypedStep ==
    ASSUME Typed, [Next]_vars
    PROVE  Typed'
  <1>1. ASSUME NEW r \in Reminders, BecomesDue(r)
        PROVE  Typed'
    <2>1. [reminder[r] EXCEPT !.due = TRUE] \in RowType
      BY DEF Typed, RowType
    <2>2. reminder' = [reminder EXCEPT ![r] = [reminder[r] EXCEPT !.due = TRUE]]
      BY <1>1 DEF BecomesDue
    <2>3. QED
      BY <1>1, <2>1, <2>2 DEF BecomesDue, Typed
  <1>2. ASSUME NEW r \in Reminders, Expire(r)
        PROVE  Typed'
    <2>1. [reminder[r] EXCEPT !.lease = "expired"] \in RowType
      BY DEF Typed, RowType
    <2>2. reminder' = [reminder EXCEPT ![r] = [reminder[r] EXCEPT !.lease = "expired"]]
      BY <1>2 DEF Expire
    <2>3. [history[r] EXCEPT !.lost = history[r].lost + 1] \in HistoryType
      BY DEF Typed, HistoryType
    <2>4. \/ history' = history
          \/ history' = [history EXCEPT ![r] = [history[r] EXCEPT !.lost = history[r].lost + 1]]
      BY <1>2 DEF Expire
    <2>5. reminder' \in [Reminders -> RowType] /\ history' \in [Reminders -> HistoryType]
      BY <2>1, <2>2, <2>3, <2>4 DEF Typed
    <2>6. QED
      BY <1>2, <2>5 DEF Expire, Typed
  <1>3. CASE ChangeEmail
    <2>1. address' = address + 1 /\ edits' = edits + 1 /\ verified' = FALSE
      BY <1>3 DEF ChangeEmail, Request
    <2>2. address' \in Nat /\ edits' \in Nat /\ verified' \in BOOLEAN
      <3>1. address \in Nat /\ edits \in Nat
        BY DEF Typed
      <3>2. address' = address + 1 /\ edits' = edits + 1
        BY <2>1
      <3>3. address' \in Nat /\ edits' \in Nat
        BY <3>1, <3>2
      <3>4. verified' \in BOOLEAN
        BY <2>1
      <3>5. QED
        BY <3>3, <3>4
    <2>3. QED
      BY <1>3, <2>2 DEF ChangeEmail, Typed
  <1>4. CASE ConfirmEmail
    BY <1>4 DEF ConfirmEmail, Typed
  <1>5. CASE UNCHANGED vars
    BY <1>5 DEF vars, Typed
  <1>6. QED
    BY <1>1, <1>2, <1>3, <1>4, <1>5, RequestsTyped, WorkersTyped DEF Next

-----------------------------------------------------------------------------
(* What the deliveries keep when the plans stay as they are. *)

\* The plans stay; a token or a lease can only be lost.
PlansKept ==
    \A r \in Reminders :
        /\ history'[r].plan = history[r].plan
        /\ history'[r].mails >= history[r].mails
        /\ reminder'[r].attempts = reminder[r].attempts
        /\ reminder'[r].token \in {reminder[r].token, None}
        /\ reminder'[r].lease = "held"
           => reminder[r].lease = "held" /\ reminder'[r].token = reminder[r].token

Ended(v) == work'[v].at \notin Busy

\* The delivery of v goes on to its next stage.
Moved(v) ==
    /\ work[v].at \in Busy /\ work'[v].at \in Busy
    /\ work'[v].rem = work[v].rem /\ work'[v].task = work[v].task
    /\ work'[v].plan = work[v].plan /\ work'[v].attempt = work[v].attempt
    /\ work'[v].at \in {"check", "send"} => ~work'[v].ok
    /\ \A r \in Reminders : Current(v, r) /\ work'[v].ok => history'[r].mails > 0
    /\ work'[v].at = "ack" => \A r \in Reminders :
          work[v].rem = r /\ reminder'[r].lease = "held" => work'[v].live

LEMMA CurrentKept ==
    ASSUME PlansKept, NEW r \in Reminders, NEW v \in Workers,
           work'[v] = work[v] \/ Ended(v) \/ Moved(v)
    PROVE  /\ Current(v, r)' => Current(v, r)
           /\ ~Ended(v) => (Current(v, r)' <=> Current(v, r))
  BY DEF PlansKept, Ended, Moved, Current

LEMMA DeliveriesKept ==
    ASSUME ReminderInv, Typed', UNCHANGED task, PlansKept,
           \A v \in Workers : work'[v] = work[v] \/ Ended(v) \/ Moved(v)
    PROVE  DeliveryInv' /\ CurrentInv' /\ TokenInv'
  <1> USE DEF ReminderInv
  <1>1. \A v \in Workers : work'[v].at \in Busy =>
           /\ work[v].at \in Busy
           /\ work'[v].rem = work[v].rem /\ work'[v].task = work[v].task
           /\ work'[v].plan = work[v].plan /\ work'[v].attempt = work[v].attempt
    BY DEF Ended, Moved
  <1>2. DeliveryInv'
    <2> SUFFICES ASSUME NEW v \in Workers, work'[v].at \in Busy
                 PROVE  /\ work'[v].rem \in Reminders
                        /\ work'[v].task = TaskOf[work'[v].rem]
                        /\ work'[v].plan > 0
                        /\ \/ task'[work'[v].task] = "deleted" /\ history'[work'[v].rem].plan = 0
                           \/ work'[v].plan <= history'[work'[v].rem].plan
                        /\ work'[v].at \in {"check", "send"} => ~work'[v].ok
      BY DEF DeliveryInv
    <2>1. /\ work[v].rem \in Reminders
          /\ work[v].task = TaskOf[work[v].rem]
          /\ work[v].plan > 0
          /\ \/ task[work[v].task] = "deleted" /\ history[work[v].rem].plan = 0
             \/ work[v].plan <= history[work[v].rem].plan
          /\ work[v].at \in {"check", "send"} => ~work[v].ok
      BY <1>1 DEF DeliveryInv
    <2>2. work'[v].at \in {"check", "send"} => ~work'[v].ok
      BY <2>1 DEF Ended, Moved
    <2>3. history'[work[v].rem].plan = history[work[v].rem].plan
      BY <2>1 DEF PlansKept
    <2>4. QED
      BY <1>1, <2>1, <2>2, <2>3
  <1>3. CurrentInv'
    <2> SUFFICES ASSUME NEW r \in Reminders, NEW v \in Workers, Current(v, r)'
                 PROVE  /\ work'[v].attempt <= reminder'[r].attempts
                        /\ work'[v].ok => history'[r].mails > 0
                        /\ work'[v].attempt = reminder'[r].attempts /\ reminder'[r].lease = "held"
                           => /\ reminder'[r].token = v
                              /\ work'[v].at = "ack" => work'[v].live
                        /\ \A u \in Workers :
                              Current(u, r)' /\ work'[u].attempt = work'[v].attempt => u = v
      BY DEF CurrentInv
    <2>1. Current(v, r) /\ work'[v].at \in Busy
      BY CurrentKept DEF Current
    <2>2. /\ work[v].attempt <= reminder[r].attempts
          /\ work[v].ok => history[r].mails > 0
          /\ work[v].attempt = reminder[r].attempts /\ reminder[r].lease = "held"
             => /\ reminder[r].token = v
                /\ work[v].at = "ack" => work[v].live
          /\ \A u \in Workers : Current(u, r) /\ work[u].attempt = work[v].attempt => u = v
      BY <2>1 DEF CurrentInv
    <2>3. /\ work'[v].attempt = work[v].attempt /\ reminder'[r].attempts = reminder[r].attempts
          /\ reminder'[r].lease = "held"
             => reminder[r].lease = "held" /\ reminder'[r].token = reminder[r].token
      BY <1>1, <2>1 DEF PlansKept
    <2>4. work'[v].ok => history'[r].mails > 0
      <3>1. /\ history'[r].mails \in Nat /\ history[r].mails \in Nat
            /\ history'[r].mails >= history[r].mails
        BY DEF Typed, HistoryType, PlansKept
      <3>2. work'[v] = work[v] \/ Moved(v)
        BY <2>1 DEF Ended
      <3>3. CASE work'[v] = work[v]
        BY <2>2, <3>1, <3>3
      <3>4. CASE Moved(v)
        BY <2>1, <3>4 DEF Moved
      <3>5. QED
        BY <3>2, <3>3, <3>4
    <2>5. work'[v].attempt = reminder'[r].attempts /\ reminder'[r].lease = "held"
          => /\ reminder'[r].token = v
             /\ work'[v].at = "ack" => work'[v].live
      <3>1. work'[v] = work[v] \/ Moved(v)
        BY <2>1 DEF Ended
      <3>2. work[v].rem = r
        BY <2>1 DEF Current
      <3>3. QED
        BY <2>2, <2>3, <3>1, <3>2 DEF Moved
    <2>6. ASSUME NEW u \in Workers, Current(u, r)', work'[u].attempt = work'[v].attempt
          PROVE  u = v
      <3>1. Current(u, r) /\ work'[u].at \in Busy
        BY <2>6, CurrentKept DEF Current
      <3>2. work[u].attempt = work[v].attempt
        BY <1>1, <2>3, <2>6, <3>1
      <3>3. QED
        BY <2>2, <3>1, <3>2
    <2>7. QED
      BY <2>2, <2>3, <2>4, <2>5, <2>6
  <1>4. TokenInv'
    <2> SUFFICES ASSUME NEW v \in Workers, NEW r \in Reminders,
                        work'[v].at \in Busy, work'[v].rem = r, reminder'[r].token = v
                 PROVE  Delivering(v, r)'
      BY DEF TokenInv
    <2>1. reminder[r].token = v
      BY RemindersAssumption DEF PlansKept, RemindersAssumption
    <2>2. Delivering(v, r)
      BY <1>1, <2>1 DEF TokenInv
    <2>3. QED
      BY <1>1, <2>2 DEF Delivering, PlansKept, Busy
  <1>5. QED
    BY <1>2, <1>3, <1>4

-----------------------------------------------------------------------------
(* Counting mails. *)

LEMMA UnsentCount ==
    ASSUME NEW r \in Reminders, IsFiniteSet(Unsent(r)), NEW w \in Workers
    PROVE  /\ Cardinality(Unsent(r)) \in Nat
           /\ w \in Unsent(r) => /\ IsFiniteSet(Unsent(r) \ {w})
                                 /\ Cardinality(Unsent(r) \ {w}) = Cardinality(Unsent(r)) - 1
           /\ w \notin Unsent(r) => /\ IsFiniteSet(Unsent(r) \cup {w})
                                    /\ Cardinality(Unsent(r) \cup {w}) = Cardinality(Unsent(r)) + 1
  BY FS_CardinalityType, FS_AddElement, FS_RemoveElement

\* All mails are paid by losses: nothing more to say.
LEMMA PaidByLosses ==
    ASSUME NEW r \in Reminders, Typed', IsFiniteSet(Unsent(r))',
           Mailable(r)' \in Nat,
           (Mailable(r) <= reminder[r].attempts)', (Mailable(r) <= history[r].lost)'
    PROVE  Paid(r)'
  <1>1. history'[r].lost \in Nat
    BY DEF Typed, HistoryType
  <1> DEFINE m == Mailable(r)'
  <1>2. m <= history'[r].lost /\ m \in Nat /\ m <= reminder'[r].attempts
    OBVIOUS
  <1>3. Mailable(r)' = m
    OBVIOUS
  <1> HIDE DEF m
  <1>4. m <= history'[r].lost + 1 /\ m # history'[r].lost + 1
    BY <1>1, <1>2
  <1>5. QED
    BY <1>2, <1>3, <1>4 DEF Paid

\* The plan is mailed as it was, and a row that waits keeps its open delivery.
LEMMA PaidKept ==
    ASSUME NEW r \in Reminders, Paid(r), Unsent(r)' = Unsent(r),
           history'[r].mails = history[r].mails, history'[r].lost = history[r].lost,
           reminder'[r].attempts = reminder[r].attempts,
           reminder'[r].status = "scheduled" =>
              /\ reminder[r].status = "scheduled"
              /\ Mailable(r) = history[r].lost + 1 =>
                    /\ reminder'[r].lease = reminder[r].lease
                    /\ \A v \in Workers : Open(v, r) => Open(v, r)'
    PROVE  Paid(r)'
  <1>1. Mailable(r)' = Mailable(r)
    BY DEF Mailable
  <1>2. QED
    BY <1>1 DEF Paid

\* In a plan with nothing unsent, that has not mailed.
LEMMA PaidAnew ==
    ASSUME NEW r \in Reminders, Typed', Unsent(r)' = {}, history'[r].mails = 0
    PROVE  Paid(r)'
  <1>1. Cardinality({}) = 0 /\ IsFiniteSet({})
    BY FS_EmptySet
  <1>2. Mailable(r)' = 0
    BY <1>1 DEF Mailable
  <1>3. reminder'[r].attempts \in Nat /\ history'[r].lost \in Nat
    BY DEF Typed, RowType, HistoryType
  <1>4. /\ IsFiniteSet(Unsent(r))' /\ Mailable(r)' \in Nat
        /\ (Mailable(r) <= reminder[r].attempts)' /\ (Mailable(r) <= history[r].lost)'
    BY <1>1, <1>2, <1>3
  <1>5. QED
    BY <1>4, PaidByLosses

-----------------------------------------------------------------------------
(* One lemma per action: first the scheduler. *)

\* Between two deliveries: nothing of a delivery changes, and rows may fail.
LEMMA RetireHolds ==
    ASSUME ReminderInv, Typed', NEW w \in Workers, Retire(w)
    PROVE  ReminderInv'
  <1> USE DEF ReminderInv
  <1>1. /\ UNCHANGED <<task, locked, history>>
        /\ Ended(w) /\ work[w].at \notin Busy
        /\ \A v \in Workers \ {w} : work'[v] = work[v]
    <2>0. work[w] = Idle /\ Idle.at = "idle"
      BY DEF Retire, Idle
    <2>1. work[w].at = "idle" /\ work' = [work EXCEPT ![w].at = "select"]
      BY <2>0 DEF Retire
    <2>2. work'[w].at = "select" /\ \A v \in Workers \ {w} : work'[v] = work[v]
      BY <2>1 DEF Typed, WorkType
    <2>3. QED
      BY <2>1, <2>2 DEF Retire, Ended, Busy
  <1>2. \A r \in Reminders :
           \/ reminder'[r] = reminder[r]
           \/ /\ Exhausted(r)
              /\ reminder'[r].status = "failed" /\ reminder'[r].attempts = reminder[r].attempts
              /\ reminder'[r].lease = "none" /\ reminder'[r].token = None
    <2> SUFFICES ASSUME NEW r \in Reminders, Exhausted(r)
                 PROVE  /\ reminder'[r].status = "failed"
                        /\ reminder'[r].attempts = reminder[r].attempts
                        /\ reminder'[r].lease = "none" /\ reminder'[r].token = None
      BY DEF Retire
    <2>1. reminder[r] \in RowType
      BY DEF Typed
    <2>2. reminder'[r] = [reminder[r] EXCEPT !.status = "failed", !.lease = "none", !.token = None]
      BY DEF Retire
    <2>3. QED
      BY <2>1, <2>2 DEF RowType
  <1>3. PlansKept
    <2>1. \A r \in Reminders : history[r].mails \in Nat
      BY DEF Typed, HistoryType
    <2>2. QED
      BY <1>1, <1>2, <2>1 DEF PlansKept
  <1>4. DeliveryInv' /\ CurrentInv' /\ TokenInv'
    BY <1>1, <1>3, DeliveriesKept
  <1>5. CountInv'
    <2> SUFFICES ASSUME NEW r \in Reminders PROVE Paid(r)'
      BY DEF CountInv
    <2>1. \A v \in Workers : Current(v, r)' <=> Current(v, r)
      BY <1>1, <1>3, CurrentKept DEF Current, Ended
    <2>2. Unsent(r)' = Unsent(r)
      BY <1>1, <2>1 DEF Unsent, Current
    <2>3. ASSUME reminder'[r].status = "scheduled"
          PROVE  /\ reminder[r].status = "scheduled"
                 /\ reminder'[r].lease = reminder[r].lease
                 /\ \A v \in Workers : Open(v, r) => Open(v, r)'
      <3>1. reminder'[r] = reminder[r]
        BY <1>2, <2>3
      <3>2. \A v \in Workers : Open(v, r) => work'[v] = work[v]
        BY <1>1 DEF Open, Delivering, Busy
      <3>3. QED
        BY <1>1, <2>3, <3>1, <3>2 DEF Open, Delivering
    <2>4. QED
      BY <1>1, <1>2, <2>2, <2>3, PaidKept DEF CountInv
  <1>6. RowsInv'
    BY <1>1, <1>2 DEF RowsInv, Exhausted
  <1>7. RecordsAreTrue' /\ WaitingIsServed'
    BY <1>1, <1>2 DEF RecordsAreTrue, WaitingIsServed, Exhausted
  <1>8. QED
    BY <1>4, <1>5, <1>6, <1>7

\* A step in which nothing but the due time of rows and idle workers change.
LEMMA QuietHolds ==
    ASSUME ReminderInv, Typed', UNCHANGED <<task, history>>,
           \A t \in locked' : task[t] \in {"pending", "closed"},
           \A v \in Workers : \/ work'[v] = work[v]
                              \/ work[v].at \notin Busy /\ work'[v].at \notin Busy,
           \A r \in Reminders : /\ reminder'[r].status = reminder[r].status
                                /\ reminder'[r].attempts = reminder[r].attempts
                                /\ reminder'[r].lease = reminder[r].lease
                                /\ reminder'[r].token = reminder[r].token
    PROVE  ReminderInv'
  <1> USE DEF ReminderInv
  <1>1. PlansKept
    <2>1. \A r \in Reminders : history[r].mails \in Nat
      BY DEF Typed, HistoryType
    <2>2. QED
      BY <2>1 DEF PlansKept
  <1>2. DeliveryInv' /\ CurrentInv' /\ TokenInv'
    BY <1>1, DeliveriesKept DEF Ended
  <1>3. CountInv'
    <2> SUFFICES ASSUME NEW r \in Reminders PROVE Paid(r)'
      BY DEF CountInv
    <2>1. \A v \in Workers : /\ Current(v, r)' <=> Current(v, r)
                             /\ Current(v, r) => work'[v] = work[v]
      BY DEF Current
    <2>2. Unsent(r)' = Unsent(r)
      BY <2>1 DEF Unsent
    <2>3. \A v \in Workers : Open(v, r) => Open(v, r)'
      BY DEF Open, Delivering, Busy
    <2>4. QED
      BY <2>2, <2>3, PaidKept DEF CountInv
  <1>4. RowsInv' /\ RecordsAreTrue' /\ WaitingIsServed'
    BY DEF RowsInv, RecordsAreTrue, WaitingIsServed
  <1>5. QED
    BY <1>2, <1>3, <1>4

LEMMA ClaimHolds ==
    ASSUME ReminderInv, Typed', NEW w \in Workers, NEW q \in Reminders, Claim(w, q)
    PROVE  ReminderInv'
  <1> USE DEF ReminderInv
  <1>1. /\ UNCHANGED <<task, locked, history>>
        /\ work[w].at = "claim" /\ task[TaskOf[q]] = "pending"
        /\ reminder[q].status = "scheduled" /\ reminder[q].attempts < MaxAttempts
        /\ reminder[q].lease # "held"
        /\ \A v \in Workers \ {w} : work'[v] = work[v]
        /\ \A r \in Reminders \ {q} : reminder'[r] = reminder[r]
    BY DEF Claim, Claimable, Typed
  <1>2. /\ work'[w].at = "check" /\ work'[w].task = TaskOf[q] /\ work'[w].rem = q
        /\ work'[w].attempt = reminder[q].attempts + 1 /\ work'[w].plan = history[q].plan
        /\ ~work'[w].ok
    <2> DEFINE n == reminder[q].attempts + 1
               p == history[q].plan
               tk == TaskOf[q]
    <2>1. work' = [work EXCEPT ![w] = [Idle EXCEPT
            !.at = "check", !.task = tk, !.rem = q, !.address = address,
            !.attempt = n, !.plan = p]]
      BY DEF Claim
    <2> HIDE DEF n, p, tk
    <2>2. /\ work'[w].at = "check" /\ work'[w].task = tk /\ work'[w].rem = q
          /\ work'[w].attempt = n /\ work'[w].plan = p /\ ~work'[w].ok
      BY <2>1 DEF Typed, Idle
    <2>3. QED
      BY <2>2 DEF n, p, tk
  <1>3. /\ reminder'[q].status = "scheduled" /\ reminder'[q].lease = "held"
        /\ reminder'[q].token = w /\ reminder'[q].attempts = reminder[q].attempts + 1
    BY <1>1 DEF Claim, Typed, RowType
  <1>4. /\ reminder[q].attempts \in Nat /\ MaxAttempts \in Nat
        /\ reminder'[q].attempts > reminder[q].attempts
        /\ reminder'[q].attempts <= MaxAttempts
    BY <1>1, <1>3, RemindersAssumption DEF Typed, RowType, RemindersAssumption
  <1>5. history[q].plan > 0 /\ history[q].plan \in Nat
    BY <1>1 DEF RowsInv, Typed, HistoryType
  <1>6. /\ Current(w, q)' /\ \A r \in Reminders : ~Current(w, r)
        /\ \A r \in Reminders \ {q} : ~Current(w, r)'
        /\ \A r \in Reminders, v \in Workers \ {w} : Current(v, r)' <=> Current(v, r)
    BY <1>1, <1>2 DEF Current, Busy
  <1>7. DeliveryInv'
    <2>1. work'[w].plan <= history'[work'[w].rem].plan
      BY <1>1, <1>2, <1>5
    <2>2. QED
      BY <1>1, <1>2, <1>5, <2>1 DEF DeliveryInv
  <1>8. CurrentInv'
    <2>1. \A v \in Workers \ {w} :
             Current(v, q)' => work'[v].attempt \in Nat /\ work'[v].attempt <= reminder[q].attempts
      BY <1>1, <1>6 DEF CurrentInv, Typed, WorkType
    <2>2. \A v \in Workers \ {w} :
             Current(v, q)' => /\ work'[v].attempt < reminder'[q].attempts
                               /\ work'[v].attempt # work'[w].attempt
      BY <1>2, <1>3, <1>4, <2>1
    <2> SUFFICES ASSUME NEW r \in Reminders, NEW v \in Workers, Current(v, r)'
                 PROVE  /\ work'[v].attempt <= reminder'[r].attempts
                        /\ work'[v].ok => history'[r].mails > 0
                        /\ work'[v].attempt = reminder'[r].attempts /\ reminder'[r].lease = "held"
                           => /\ reminder'[r].token = v
                              /\ work'[v].at = "ack" => work'[v].live
                        /\ \A u \in Workers :
                              Current(u, r)' /\ work'[u].attempt = work'[v].attempt => u = v
      BY DEF CurrentInv
    <2>3. CASE r # q
      BY <1>1, <1>6, <2>3 DEF CurrentInv
    <2>4. CASE r = q /\ v = w
      BY <1>2, <1>3, <1>4, <2>2, <2>4
    <2>5. CASE r = q /\ v # w
      <3>1. /\ Current(v, q) /\ work'[v] = work[v] /\ history' = history
        BY <1>1, <1>6, <2>5
      <3>2. work'[v].ok => history'[q].mails > 0
        BY <3>1 DEF CurrentInv
      <3>3. \A u \in Workers \ {w} :
              Current(u, q)' /\ work'[u].attempt = work'[v].attempt => u = v
        BY <1>1, <1>6, <3>1 DEF CurrentInv
      <3>4. work'[v].attempt \in Nat /\ reminder'[q].attempts \in Nat
        BY <1>3, <1>4, <2>1, <2>5
      <3>5. QED
        BY <2>2, <2>5, <3>2, <3>3, <3>4
    <2>6. QED
      BY <2>3, <2>4, <2>5
  <1>9. TokenInv'
    <2> SUFFICES ASSUME NEW v \in Workers, NEW r \in Reminders,
                        work'[v].at \in Busy, work'[v].rem = r, reminder'[r].token = v
                 PROVE  Delivering(v, r)'
      BY DEF TokenInv
    <2>1. CASE v = w
      BY <1>1, <1>2, <1>3, <2>1 DEF Delivering
    <2>2. CASE v # w
      BY <1>1, <1>3, <2>2 DEF TokenInv, Delivering
    <2>3. QED
      BY <2>1, <2>2
  <1>10. CountInv'
    <2> SUFFICES ASSUME NEW r \in Reminders PROVE Paid(r)'
      BY DEF CountInv
    <2>1. CASE r # q
      <3>1. Unsent(r)' = Unsent(r)
        BY <1>1, <1>6, <2>1 DEF Unsent
      <3>2. \A v \in Workers : Open(v, r) => Open(v, r)'
        BY <1>1, <2>1 DEF Open, Delivering
      <3>3. QED
        BY <1>1, <2>1, <3>1, <3>2, PaidKept DEF CountInv
    <2>2. CASE r = q
      <3>1. Unsent(q)' = Unsent(q) \cup {w} /\ w \notin Unsent(q)
        BY <1>1, <1>2, <1>6 DEF Unsent
      <3>2. /\ IsFiniteSet(Unsent(q)) /\ Mailable(q) <= reminder[q].attempts
            /\ Mailable(q) <= history[q].lost + 1 /\ Mailable(q) # history[q].lost + 1
        BY <1>1 DEF CountInv, Paid
      <3>3. /\ IsFiniteSet(Unsent(q)') /\ Cardinality(Unsent(q)) \in Nat
            /\ Cardinality(Unsent(q)') = Cardinality(Unsent(q)) + 1
        BY <3>1, <3>2, UnsentCount
      <3>4. history[q].mails \in Nat /\ history[q].lost \in Nat
        BY DEF Typed, HistoryType
      <3>5. Mailable(q) \in Nat /\ Mailable(q)' = Mailable(q) + 1
        BY <1>1, <3>3, <3>4 DEF Mailable
      <3>6. /\ Mailable(q)' <= reminder'[q].attempts
            /\ Mailable(q)' <= history[q].lost + 1
        BY <1>3, <1>4, <3>2, <3>4, <3>5
      <3>7. Open(w, q)'
        BY <1>1, <1>2, <1>3 DEF Open, Delivering
      <3>8. QED
        BY <1>1, <1>3, <2>2, <3>3, <3>6, <3>7 DEF Paid
    <2>3. QED
      BY <2>1, <2>2
  <1>11. RowsInv'
    BY <1>1, <1>3, <1>4 DEF RowsInv
  <1>12. RecordsAreTrue' /\ WaitingIsServed'
    <2>1. w # None
      BY RemindersAssumption DEF RemindersAssumption
    <2>2. RecordsAreTrue'
      BY <1>1, <1>3 DEF RecordsAreTrue
    <2>3. WaitingIsServed'
      BY <1>1, <1>3, <2>1 DEF WaitingIsServed
    <2>4. QED
      BY <2>2, <2>3
  <1>13. QED
    BY <1>7, <1>8, <1>9, <1>10, <1>11, <1>12

\* The scheduler w goes on with its delivery, or ends it; rows stay as they are
\* and only the history of a plan it still delivers changes.
LEMMA DeliveryStep ==
    ASSUME ReminderInv, Typed', NEW w \in Workers, work[w].at \in Busy,
           UNCHANGED <<task, locked, reminder>>,
           \A v \in Workers \ {w} : work'[v] = work[v],
           Ended(w) \/ Moved(w),
           \A r \in Reminders : /\ history'[r].plan = history[r].plan
                                /\ history'[r].acked = history[r].acked
                                /\ history'[r].mails >= history[r].mails,
           \A r \in Reminders : ~Current(w, r) => history'[r] = history[r],
           \A r \in Reminders : Current(w, r) => Paid(r)'
    PROVE  ReminderInv'
  <1> USE DEF ReminderInv
  <1>1. PlansKept
    BY DEF PlansKept
  <1>2. DeliveryInv' /\ CurrentInv' /\ TokenInv'
    BY <1>1, DeliveriesKept
  <1>3. CountInv'
    <2> SUFFICES ASSUME NEW r \in Reminders, ~Current(w, r) PROVE Paid(r)'
      BY DEF CountInv
    <2>1. ~Current(w, r)'
      BY <1>1, CurrentKept
    <2>2. \A v \in Workers \ {w} : Current(v, r)' <=> Current(v, r)
      BY DEF Current
    <2>3. Unsent(r)' = Unsent(r)
      BY <2>1, <2>2 DEF Unsent
    <2>4. \A v \in Workers : Open(v, r) => Open(v, r)'
      BY DEF Open, Delivering, Current, Busy
    <2>5. QED
      BY <2>3, <2>4, PaidKept DEF CountInv
  <1>4. RowsInv' /\ RecordsAreTrue' /\ WaitingIsServed'
    <2>1. RowsInv'
      BY DEF RowsInv
    <2>2. RecordsAreTrue'
      <3>1. \A r \in Reminders : history'[r].mails \in Nat /\ history[r].mails \in Nat
        BY DEF Typed, HistoryType
      <3>2. QED
        BY <3>1 DEF RecordsAreTrue
    <2>3. WaitingIsServed'
      BY DEF WaitingIsServed
    <2>4. QED
      BY <2>1, <2>2, <2>3
  <1>5. QED
    BY <1>2, <1>3, <1>4

\* What Count changes: the history of the plan the worker delivers.
LEMMA CountedAt ==
    ASSUME Typed, NEW w \in Workers, work[w].at \in Busy,
           NEW field \in {"mail", "unanswered", "loss"}, history' = Count(w, field)
    PROVE  /\ \A r \in Reminders : /\ history'[r].plan = history[r].plan
                                  /\ history'[r].acked = history[r].acked
                                  /\ history'[r].mails >= history[r].mails
           /\ \A r \in Reminders : ~Current(w, r) => history'[r] = history[r]
           /\ \A r \in Reminders : Current(w, r) => history'[r] = Counted(history[r], field)
  <1>1. ASSUME NEW r \in Reminders
        PROVE  history'[r] = IF Current(w, r) THEN Counted(history[r], field) ELSE history[r]
    <2> DEFINE q == work[w].rem
    <2>1. history' = IF work[w].plan # history[q].plan THEN history
                     ELSE [history EXCEPT ![q] = Counted(history[q], field)]
      BY DEF Count
    <2>2. Current(w, r) <=> q = r /\ work[w].plan = history[q].plan
      BY DEF Current
    <2> HIDE DEF q
    <2>3. QED
      BY <2>1, <2>2 DEF Typed
  <1>2. ASSUME NEW r \in Reminders
        PROVE  LET h == Counted(history[r], field) IN
               h.plan = history[r].plan /\ h.acked = history[r].acked /\ h.mails >= history[r].mails
    <2> DEFINE h == history[r]
    <2>1. h \in HistoryType
      BY DEF Typed
    <2> HIDE DEF h
    <2>2. PICK k \in Nat : h.mails = k
      BY <2>1 DEF HistoryType
    <2> DEFINE m == k + 1
               l == h.lost + 1
    <2>3. Counted(h, field) \in {[h EXCEPT !.mails = m], [h EXCEPT !.mails = m, !.lost = l],
                                 [h EXCEPT !.lost = l]}
      BY <2>1, <2>2, CountedFields
    <2>4. m >= k /\ k >= k
      BY <2>2
    <2> HIDE DEF m, l
    <2>5. /\ Counted(h, field).plan = h.plan /\ Counted(h, field).acked = h.acked
          /\ Counted(h, field).mails \in {k, m}
      BY <2>1, <2>2, <2>3 DEF HistoryType
    <2>6. Counted(h, field).mails >= h.mails
      BY <2>2, <2>4, <2>5
    <2>7. QED
      BY <2>5, <2>6 DEF h
  <1>3. \A r \in Reminders : history[r].mails >= history[r].mails
    <2>1. \A r \in Reminders : history[r].mails \in Nat
      BY DEF Typed, HistoryType
    <2>2. QED
      BY <2>1
  <1>4. ASSUME NEW r \in Reminders
        PROVE  /\ history'[r].plan = history[r].plan
               /\ history'[r].acked = history[r].acked
               /\ history'[r].mails >= history[r].mails
    <2>1. CASE Current(w, r)
      BY <1>1, <1>2, <2>1
    <2>2. CASE ~Current(w, r)
      BY <1>1, <1>3, <2>2
    <2>3. QED
      BY <2>1, <2>2
  <1>5. QED
    BY <1>1, <1>4

\* A delivery that has not mailed ends, or its mail is refused.
LEMMA UnsentEnds ==
    ASSUME NEW r \in Reminders, Paid(r), Typed, Typed', NEW w \in Workers,
           w \in Unsent(r), Unsent(r)' = Unsent(r) \ {w},
           history'[r] = history[r], reminder'[r] = reminder[r]
    PROVE  Paid(r)'
  <1>1. /\ IsFiniteSet(Unsent(r)') /\ Cardinality(Unsent(r)) \in Nat
        /\ Cardinality(Unsent(r)') = Cardinality(Unsent(r)) - 1
        /\ Cardinality(Unsent(r)') \in Nat
    BY UnsentCount, FS_CardinalityType DEF Paid
  <1>2. history[r].mails \in Nat /\ history[r].lost \in Nat /\ reminder[r].attempts \in Nat
    BY DEF Typed, HistoryType, RowType
  <1>3. Mailable(r)' \in Nat /\ Mailable(r)' = Mailable(r) - 1 /\ Mailable(r) \in Nat
    BY <1>1, <1>2 DEF Mailable
  <1>4. Mailable(r) <= reminder[r].attempts /\ Mailable(r) <= history[r].lost + 1
    BY DEF Paid
  <1>5. Mailable(r)' <= reminder'[r].attempts /\ Mailable(r)' <= history'[r].lost
    BY <1>2, <1>3, <1>4
  <1>6. QED
    BY <1>1, <1>3, <1>5, PaidByLosses

LEMMA CheckHolds ==
    ASSUME ReminderInv, Typed', NEW w \in Workers, Check(w)
    PROVE  ReminderInv'
  <1> USE DEF ReminderInv
  <1>1. /\ UNCHANGED <<task, locked, reminder, history>>
        /\ work[w].at = "check"
        /\ \A v \in Workers \ {w} : work'[v] = work[v]
    BY DEF Check, Typed
  <1>2. work[w].at \in Busy /\ \A r \in Reminders : history[r].mails \in Nat
    BY <1>1 DEF Typed, HistoryType, Busy
  <1>3. CASE Ready(w)
    <2>1. /\ work'[w].at = "send" /\ work'[w].rem = work[w].rem /\ work'[w].task = work[w].task
          /\ work'[w].plan = work[w].plan /\ work'[w].attempt = work[w].attempt
          /\ work'[w].ok = work[w].ok
      BY <1>3 DEF Check, Typed, WorkType
    <2>2. Moved(w)
      BY <1>1, <2>1 DEF Moved, DeliveryInv, CurrentInv, Busy
    <2>3. ASSUME NEW r \in Reminders, Current(w, r)
          PROVE  Paid(r)'
      <3>1. \A v \in Workers : Current(v, r)' <=> Current(v, r)
        BY <1>1, <2>1 DEF Current, Busy
      <3>2. Unsent(r)' = Unsent(r)
        BY <1>1, <2>1, <3>1 DEF Unsent
      <3>3. \A v \in Workers : Open(v, r) => Open(v, r)'
        BY <1>1, <2>1 DEF Open, Delivering
      <3>4. QED
        BY <1>1, <3>2, <3>3, PaidKept DEF CountInv
    <2>4. QED
      BY <1>1, <1>2, <2>2, <2>3, DeliveryStep
  <1>4. CASE ~Ready(w)
    <2>1. work'[w].at = "idle" /\ Ended(w)
      BY <1>4 DEF Check, Typed, Idle, Ended, Busy
    <2>2. ASSUME NEW r \in Reminders, Current(w, r)
          PROVE  Paid(r)'
      <3>1. w \in Unsent(r) /\ Unsent(r)' = Unsent(r) \ {w}
        BY <1>1, <2>1, <2>2 DEF Unsent, Current
      <3>2. QED
        BY <1>1, <3>1, UnsentEnds DEF CountInv
    <2>3. QED
      BY <1>1, <1>2, <2>1, <2>2, DeliveryStep
  <1>5. QED
    BY <1>3, <1>4

LEMMA SendHolds ==
    ASSUME ReminderInv, Typed', NEW w \in Workers, Send(w)
    PROVE  ReminderInv'
  <1> USE DEF ReminderInv
  <1>1. /\ UNCHANGED <<task, locked, reminder>>
        /\ work[w].at = "send" /\ work[w].at \in Busy
        /\ \A v \in Workers \ {w} : work'[v] = work[v]
    BY DEF Send, Typed, Busy
  <1>2. PICK outcome \in {"accepted", "refused", "unanswered"} :
          /\ work' = [work EXCEPT ![w].at = "finish", ![w].ok = outcome = "accepted"]
          /\ history' = CASE outcome = "accepted" -> Count(w, "mail")
                          [] outcome = "unanswered" -> Count(w, "unanswered")
                          [] OTHER -> history
    BY DEF Send
  <1>3. /\ work'[w].at = "finish" /\ work'[w].rem = work[w].rem /\ work'[w].task = work[w].task
        /\ work'[w].plan = work[w].plan /\ work'[w].attempt = work[w].attempt
        /\ work'[w].ok <=> outcome = "accepted"
    <2> DEFINE ok == outcome = "accepted"
    <2>1. work' = [work EXCEPT ![w] = [work[w] EXCEPT !.at = "finish", !.ok = ok]]
      BY <1>2
    <2> HIDE DEF ok
    <2>2. /\ work'[w].at = "finish" /\ work'[w].rem = work[w].rem /\ work'[w].task = work[w].task
          /\ work'[w].plan = work[w].plan /\ work'[w].attempt = work[w].attempt
          /\ work'[w].ok = ok
      BY <2>1 DEF Typed, WorkType
    <2>3. QED
      BY <2>2 DEF ok
  <1>4. ASSUME NEW r \in Reminders, Current(w, r)
        PROVE  /\ history[r] \in HistoryType
               /\ w \in Unsent(r) /\ Unsent(r)' = Unsent(r) \ {w}
               /\ IsFiniteSet(Unsent(r)')
               /\ Cardinality(Unsent(r)) \in Nat /\ Cardinality(Unsent(r)') \in Nat
               /\ Cardinality(Unsent(r)') = Cardinality(Unsent(r)) - 1
               /\ Mailable(r) <= reminder[r].attempts /\ Mailable(r) <= history[r].lost + 1
    <2>1. history[r] \in HistoryType /\ history'[r].plan = history[r].plan
      BY <1>2, CountedFields, CountedAt, <1>1 DEF Typed
    <2>2. w \in Unsent(r) /\ Unsent(r)' = Unsent(r) \ {w}
      BY <1>1, <1>3, <1>4, <2>1 DEF Unsent, Current
    <2>3. /\ IsFiniteSet(Unsent(r)) /\ Mailable(r) <= reminder[r].attempts
          /\ Mailable(r) <= history[r].lost + 1
      BY DEF CountInv, Paid
    <2>4. QED
      BY <2>1, <2>2, <2>3, UnsentCount, FS_CardinalityType
  <1>5. CASE outcome = "accepted"
    <2>1. history' = Count(w, "mail")
      BY <1>2, <1>5
    <2>2. /\ \A r \in Reminders : /\ history'[r].plan = history[r].plan
                                  /\ history'[r].acked = history[r].acked
                                  /\ history'[r].mails >= history[r].mails
          /\ \A r \in Reminders : ~Current(w, r) => history'[r] = history[r]
          /\ \A r \in Reminders : Current(w, r) => history'[r] = Counted(history[r], "mail")
      BY <1>1, <2>1, CountedAt
    <2>3. ASSUME NEW r \in Reminders, Current(w, r)
          PROVE  /\ history'[r].mails = history[r].mails + 1 /\ history'[r].lost = history[r].lost
                 /\ history[r].mails \in Nat /\ history[r].lost \in Nat
      <3> DEFINE m == history[r].mails + 1
      <3>1. history'[r] = [history[r] EXCEPT !.mails = m]
        BY <1>4, <2>2, <2>3, CountedFields
      <3> HIDE DEF m
      <3>2. history'[r].mails = m /\ history'[r].lost = history[r].lost
        BY <1>4, <2>3, <3>1 DEF HistoryType
      <3>3. QED
        BY <1>4, <2>3, <3>2 DEF HistoryType, m
    <2>4. Moved(w)
      BY <1>1, <1>3, <2>3 DEF Moved, Busy
    <2>5. ASSUME NEW r \in Reminders, Current(w, r)
          PROVE  Paid(r)'
      <3>1. Mailable(r)' = Mailable(r)
        BY <1>4, <2>3, <2>5 DEF Mailable
      <3>2. \A v \in Workers : Open(v, r) => Open(v, r)'
        BY <1>1, <1>3, <1>5, <2>2 DEF Open, Delivering
      <3>3. Paid(r)
        BY DEF CountInv
      <3>4. QED
        BY <1>1, <1>4, <2>3, <2>5, <3>1, <3>2, <3>3 DEF Paid
    <2>6. QED
      BY <1>1, <2>2, <2>4, <2>5, DeliveryStep
  <1>6. CASE outcome = "unanswered"
    <2>1. history' = Count(w, "unanswered")
      BY <1>2, <1>6
    <2>2. /\ \A r \in Reminders : /\ history'[r].plan = history[r].plan
                                  /\ history'[r].acked = history[r].acked
                                  /\ history'[r].mails >= history[r].mails
          /\ \A r \in Reminders : ~Current(w, r) => history'[r] = history[r]
          /\ \A r \in Reminders : Current(w, r) => history'[r] = Counted(history[r], "unanswered")
      BY <1>1, <2>1, CountedAt
    <2>3. ASSUME NEW r \in Reminders, Current(w, r)
          PROVE  /\ history'[r].mails = history[r].mails + 1 /\ history'[r].lost = history[r].lost + 1
                 /\ history[r].mails \in Nat /\ history[r].lost \in Nat
      <3> DEFINE m == history[r].mails + 1
                 l == history[r].lost + 1
      <3>1. history'[r] = [history[r] EXCEPT !.mails = m, !.lost = l]
        BY <1>4, <2>2, <2>3, CountedFields
      <3> HIDE DEF m, l
      <3>2. history'[r].mails = m /\ history'[r].lost = l
        BY <1>4, <2>3, <3>1 DEF HistoryType
      <3>3. QED
        BY <1>4, <2>3, <3>2 DEF HistoryType, m, l
    <2>4. Moved(w)
      BY <1>1, <1>3, <1>6 DEF Moved, Busy
    <2>5. ASSUME NEW r \in Reminders, Current(w, r)
          PROVE  Paid(r)'
      <3>1. Mailable(r)' = Mailable(r) /\ Mailable(r) \in Nat
        BY <1>4, <2>3, <2>5 DEF Mailable
      <3>2. Mailable(r)' <= reminder'[r].attempts /\ Mailable(r)' <= history'[r].lost
        BY <1>1, <1>4, <2>3, <2>5, <3>1
      <3>3. QED
        BY <1>4, <2>5, <3>1, <3>2, PaidByLosses
    <2>6. QED
      BY <1>1, <2>2, <2>4, <2>5, DeliveryStep
  <1>7. CASE outcome = "refused"
    <2>1. history' = history
      BY <1>2, <1>7
    <2>2. Moved(w)
      BY <1>1, <1>3, <1>7 DEF Moved, Busy
    <2>3. ASSUME NEW r \in Reminders, Current(w, r)
          PROVE  Paid(r)'
      BY <1>1, <1>4, <2>1, <2>3, UnsentEnds DEF CountInv
    <2>4. \A r \in Reminders : history[r].mails \in Nat
      BY DEF Typed, HistoryType
    <2>5. QED
      BY <1>1, <2>1, <2>2, <2>3, <2>4, DeliveryStep
  <1>8. QED
    BY <1>5, <1>6, <1>7

LEMMA BeginFinishHolds ==
    ASSUME ReminderInv, Typed', NEW w \in Workers, BeginFinish(w)
    PROVE  ReminderInv'
  <1> USE DEF ReminderInv
  <1>1. /\ UNCHANGED <<task, locked, reminder, history>>
        /\ work[w].at = "finish" /\ work[w].at \in Busy
        /\ \A v \in Workers \ {w} : work'[v] = work[v]
    BY DEF BeginFinish, Typed, Busy
  <1>2. \A r \in Reminders : history[r].mails \in Nat
    BY DEF Typed, HistoryType
  <1>3. /\ work'[w].at = "ack" /\ work'[w].rem = work[w].rem /\ work'[w].task = work[w].task
        /\ work'[w].plan = work[w].plan /\ work'[w].attempt = work[w].attempt
        /\ work'[w].ok = work[w].ok
        /\ work'[w].live <=> reminder[work[w].rem].lease = "held"
    <2> DEFINE live == reminder[work[w].rem].lease = "held"
    <2>1. work' = [work EXCEPT ![w] = [work[w] EXCEPT !.at = "ack", !.live = live]]
      BY DEF BeginFinish
    <2> HIDE DEF live
    <2>2. /\ work'[w].at = "ack" /\ work'[w].rem = work[w].rem /\ work'[w].task = work[w].task
          /\ work'[w].plan = work[w].plan /\ work'[w].attempt = work[w].attempt
          /\ work'[w].ok = work[w].ok /\ work'[w].live = live
      BY <2>1 DEF Typed, WorkType
    <2>3. QED
      BY <2>2 DEF live
  <1>4. Moved(w)
    BY <1>1, <1>3 DEF Moved, Busy, CurrentInv
  <1>5. ASSUME NEW r \in Reminders, Current(w, r)
        PROVE  Paid(r)'
    <2>1. Unsent(r)' = Unsent(r)
      BY <1>1, <1>3 DEF Unsent, Current
    <2>2. \A v \in Workers : Open(v, r) => Open(v, r)'
      BY <1>1, <1>3 DEF Open, Delivering
    <2>3. QED
      BY <1>1, <2>1, <2>2, PaidKept DEF CountInv
  <1>6. QED
    BY <1>1, <1>2, <1>4, <1>5, DeliveryStep

LEMMA DropHolds ==
    ASSUME ReminderInv, Typed', NEW w \in Workers, Drop(w)
    PROVE  ReminderInv'
  <1> USE DEF ReminderInv
  <1>1. /\ UNCHANGED <<task, locked, reminder>>
        /\ work[w].at \in Busy
        /\ \A v \in Workers \ {w} : work'[v] = work[v]
    BY DEF Drop, Typed, Busy
  <1>2. work'[w].at = "idle" /\ Ended(w)
    BY DEF Drop, Typed, Idle, Ended, Busy
  <1>3. CASE work[w].ok
    <2>1. history' = Count(w, "loss")
      BY <1>3 DEF Drop
    <2>2. /\ \A r \in Reminders : /\ history'[r].plan = history[r].plan
                                  /\ history'[r].acked = history[r].acked
                                  /\ history'[r].mails >= history[r].mails
          /\ \A r \in Reminders : ~Current(w, r) => history'[r] = history[r]
          /\ \A r \in Reminders : Current(w, r) => history'[r] = Counted(history[r], "loss")
      BY <1>1, <2>1, CountedAt
    <2>3. ASSUME NEW r \in Reminders, Current(w, r)
          PROVE  /\ history'[r].mails = history[r].mails /\ history'[r].lost = history[r].lost + 1
                 /\ history[r].mails \in Nat /\ history[r].lost \in Nat
      <3> DEFINE l == history[r].lost + 1
      <3>1. history[r] \in HistoryType
        BY DEF Typed
      <3>2. history'[r] = [history[r] EXCEPT !.lost = l]
        BY <2>2, <2>3, <3>1, CountedFields
      <3> HIDE DEF l
      <3>3. history'[r].mails = history[r].mails /\ history'[r].lost = l
        BY <3>1, <3>2 DEF HistoryType
      <3>4. QED
        BY <3>1, <3>3 DEF HistoryType, l
    <2>4. ASSUME NEW r \in Reminders, Current(w, r)
          PROVE  Paid(r)'
      <3>1. w \notin Unsent(r) /\ Unsent(r)' = Unsent(r)
        BY <1>1, <1>2, <1>3, <2>2 DEF Unsent, Current, DeliveryInv
      <3>2. /\ IsFiniteSet(Unsent(r)) /\ Cardinality(Unsent(r)) \in Nat
            /\ Mailable(r) <= reminder[r].attempts /\ Mailable(r) <= history[r].lost + 1
        BY FS_CardinalityType DEF CountInv, Paid
      <3>3. Mailable(r)' = Mailable(r) /\ Mailable(r) \in Nat
        BY <2>3, <2>4, <3>1, <3>2 DEF Mailable
      <3>4. Mailable(r)' <= reminder'[r].attempts /\ Mailable(r)' <= history'[r].lost
        BY <1>1, <2>3, <2>4, <3>2, <3>3
      <3>5. IsFiniteSet(Unsent(r)') /\ Mailable(r)' \in Nat
        BY <3>1, <3>2, <3>3
      <3>6. QED
        BY <3>4, <3>5, PaidByLosses
    <2>5. QED
      BY <1>1, <1>2, <2>2, <2>4, DeliveryStep
  <1>4. CASE ~work[w].ok
    <2>1. history' = history
      BY <1>4 DEF Drop
    <2>2. \A r \in Reminders : history[r].mails \in Nat
      BY DEF Typed, HistoryType
    <2>3. ASSUME NEW r \in Reminders, Current(w, r)
          PROVE  Paid(r)'
      <3>1. CASE work[w].at \in {"check", "send"}
        <4>1. w \in Unsent(r) /\ Unsent(r)' = Unsent(r) \ {w}
          BY <1>1, <1>2, <2>1, <2>3, <3>1 DEF Unsent, Current
        <4>2. QED
          BY <1>1, <2>1, <4>1, UnsentEnds DEF CountInv
      <3>2. CASE work[w].at \notin {"check", "send"}
        <4>1. Unsent(r)' = Unsent(r)
          BY <1>1, <1>2, <2>1, <3>2 DEF Unsent, Current
        <4>2. \A v \in Workers : Open(v, r) => Open(v, r)'
          BY <1>1, <1>4, <2>1, <3>2 DEF Open, Delivering
        <4>3. QED
          BY <1>1, <2>1, <4>1, <4>2, PaidKept DEF CountInv
      <3>3. QED
        BY <3>1, <3>2
    <2>4. QED
      BY <1>1, <1>2, <2>1, <2>2, <2>3, DeliveryStep
  <1>5. QED
    BY <1>3, <1>4

\* A worker whose lease and token are good delivers the latest attempt of the
\* present plan, and every open delivery of that reminder is its own.
LEMMA FencedIsLatest ==
    ASSUME ReminderInv, NEW w \in Workers, NEW q \in Reminders,
           work[w].at = "ack", work[w].rem = q, Fenced(w)
    PROVE  /\ Current(w, q) /\ Delivering(w, q)
           /\ \A v \in Workers : Open(v, q) => v = w
  <1>1. Delivering(w, q)
    BY DEF ReminderInv, TokenInv, Fenced, Busy
  <1>2. Current(w, q)
    BY <1>1 DEF Delivering, Current, Busy
  <1>3. ASSUME NEW v \in Workers, Open(v, q)
        PROVE  v = w
    <2>1. Current(v, q) /\ work[v].attempt = work[w].attempt
      BY <1>1, <1>3 DEF Open, Delivering, Current, Busy
    <2>2. QED
      BY <1>2, <2>1 DEF ReminderInv, CurrentInv
  <1>4. QED
    BY <1>1, <1>2, <1>3

\* While a row waits for its one unpaid delivery, that delivery passes the fence.
LEMMA OpenPasses ==
    ASSUME ReminderInv, NEW w \in Workers, NEW q \in Reminders,
           work[w].at = "ack", Open(w, q), reminder[q].status = "scheduled",
           reminder[q].lease = "held"
    PROVE  Fenced(w) /\ task[work[w].task] # "deleted"
  <1>1. /\ Current(w, q) /\ work[w].rem = q
        /\ work[w].attempt = reminder[q].attempts
    BY DEF Open, Delivering, Current, Busy
  <1>2. reminder[q].token = w /\ work[w].live
    BY <1>1 DEF ReminderInv, CurrentInv
  <1>3. work[w].task = TaskOf[q]
    BY <1>1 DEF ReminderInv, DeliveryInv, Current
  <1>4. task[TaskOf[q]] # "deleted"
    BY DEF ReminderInv, RowsInv
  <1>5. QED
    BY <1>1, <1>2, <1>3, <1>4 DEF Fenced

\* The acknowledgement passes the fence and is written.
LEMMA AcknowledgeHolds ==
    ASSUME ReminderInv, Typed', NEW w \in Workers, Finish(w),
           task[work[w].task] # "deleted", Fenced(w)
    PROVE  ReminderInv'
  <1> USE DEF ReminderInv
  <1> DEFINE q == work[w].rem
             ok == work[w].ok
             attempt == work[w].attempt
  <1>1. /\ UNCHANGED <<task, locked>>
        /\ work[w].at = "ack" /\ work[w].at \in Busy
        /\ work' = [work EXCEPT ![w] = Idle]
        /\ reminder' = [reminder EXCEPT ![q] = Acknowledged(reminder[q], attempt, ok)]
        /\ history' = IF ok THEN Count(w, "ack") ELSE history
    BY DEF Finish, Busy
  <1>2. q \in Reminders /\ work[w].task = TaskOf[q]
    BY <1>1 DEF DeliveryInv
  <1>3. /\ Current(w, q) /\ Delivering(w, q)
        /\ \A v \in Workers : Open(v, q) => v = w
    BY <1>1, <1>2, FencedIsLatest
  <1>4. /\ reminder[q].status = "scheduled"
        /\ work[w].plan = history[q].plan /\ attempt = reminder[q].attempts
        /\ ok => history[q].mails > 0
    BY <1>2, <1>3 DEF Fenced, Delivering, CurrentInv
  <1>5. /\ work'[w].at = "idle" /\ Ended(w)
        /\ \A v \in Workers \ {w} : work'[v] = work[v]
    BY <1>1 DEF Typed, Idle, Ended, Busy
  <1>6. /\ \A r \in Reminders \ {q} : reminder'[r] = reminder[r] /\ history'[r] = history[r]
        /\ history'[q] = IF ok THEN Counted(history[q], "ack") ELSE history[q]
    BY <1>1, <1>2, <1>4 DEF Typed, Count
  <1>7. /\ history'[q].plan = history[q].plan /\ history'[q].mails = history[q].mails
        /\ history'[q].lost = history[q].lost
        /\ ok => history'[q].acked
        /\ ~ok => history'[q].acked = history[q].acked
    <2>1. history[q] \in HistoryType
      BY <1>2 DEF Typed
    <2>2. history'[q] = IF ok THEN [history[q] EXCEPT !.acked = TRUE] ELSE history[q]
      BY <1>6, <2>1, CountedFields
    <2> HIDE DEF q, ok
    <2>3. QED
      BY <2>1, <2>2 DEF HistoryType
  <1>8. /\ reminder'[q].status = IF ok THEN "sent"
                                 ELSE IF attempt >= MaxAttempts THEN "failed" ELSE "scheduled"
        /\ reminder'[q].attempts = reminder[q].attempts
        /\ reminder'[q].lease = "none" /\ reminder'[q].token = None
    <2> DEFINE st == IF ok THEN "sent"
                     ELSE IF attempt >= MaxAttempts THEN "failed" ELSE "scheduled"
               due == ok \/ attempt >= MaxAttempts
    <2>1. reminder[q] \in RowType
      BY <1>2 DEF Typed
    <2>2. reminder'[q] =
            [reminder[q] EXCEPT !.status = st, !.due = due, !.lease = "none", !.token = None]
      BY <1>1, <1>2 DEF Acknowledged, Typed
    <2> HIDE DEF q, st, due
    <2>3. /\ reminder'[q].status = st /\ reminder'[q].attempts = reminder[q].attempts
          /\ reminder'[q].lease = "none" /\ reminder'[q].token = None
      BY <2>1, <2>2 DEF RowType
    <2>4. QED
      BY <2>3 DEF st
  <1> HIDE DEF q, ok, attempt
  <1>9. PlansKept
    <2>1. \A r \in Reminders : history'[r].mails = history[r].mails /\ history[r].mails \in Nat
      BY <1>6, <1>7 DEF Typed, HistoryType
    <2>2. \A r \in Reminders : history'[r].mails >= history[r].mails
      BY <2>1
    <2>3. QED
      BY <1>6, <1>7, <1>8, <2>2 DEF PlansKept
  <1>10. DeliveryInv' /\ CurrentInv' /\ TokenInv'
    BY <1>1, <1>5, <1>9, DeliveriesKept
  <1>11. CountInv'
    <2> SUFFICES ASSUME NEW r \in Reminders PROVE Paid(r)'
      BY DEF CountInv
    <2>1. Unsent(r)' = Unsent(r)
      <3>1. \A v \in Workers \ {w} : Current(v, r)' <=> Current(v, r)
        BY <1>5, <1>9 DEF Current, PlansKept
      <3>2. QED
        BY <1>1, <1>5, <3>1 DEF Unsent, Current, Busy
    <2>2. CASE r # q
      <3>1. \A v \in Workers : Open(v, r) => Open(v, r)'
        BY <1>5, <1>6, <2>2 DEF Open, Delivering, q
      <3>2. QED
        BY <1>6, <2>1, <2>2, <3>1, PaidKept DEF CountInv
    <2>3. CASE r = q
      <3>1. reminder'[q].status = "scheduled" => Mailable(q) # history[q].lost + 1
        <4> SUFFICES ASSUME reminder'[q].status = "scheduled", Mailable(q) = history[q].lost + 1
                     PROVE  FALSE
          OBVIOUS
        <4>1. ~ok
          BY <1>8
        <4>2. \E v \in Workers : Open(v, q)
          BY <1>2, <1>4 DEF CountInv, Paid
        <4>3. Open(w, q)
          BY <1>3, <4>2
        <4>4. QED
          BY <1>1, <4>1, <4>3 DEF Open, ok
      <3>2. QED
        BY <1>4, <1>7, <1>8, <2>1, <2>3, <3>1, PaidKept DEF CountInv
    <2>4. QED
      BY <2>2, <2>3
  <1>12. RowsInv'
    <2>1. ASSUME NEW r \in Reminders
          PROVE  /\ task'[TaskOf[r]] \in {"absent", "deleted"} => reminder'[r].status = "none"
                 /\ reminder'[r].status # "none" => history'[r].plan > 0
                 /\ reminder'[r].attempts <= MaxAttempts
      <3>1. CASE r # q
        BY <1>1, <1>6, <3>1 DEF RowsInv
      <3>2. CASE r = q
        BY <1>1, <1>2, <1>4, <1>7, <1>8, <3>2 DEF RowsInv
      <3>3. QED
        BY <3>1, <3>2
    <2>2. QED
      BY <1>1, <2>1 DEF RowsInv
  <1>13. RecordsAreTrue'
    <2> SUFFICES ASSUME NEW r \in Reminders
                 PROVE  /\ reminder'[r].status = "sent" => history'[r].mails > 0 /\ history'[r].acked
                        /\ history'[r].acked => reminder'[r].status \in {"sent", "cancelled"}
      BY DEF RecordsAreTrue
    <2>1. CASE r # q
      BY <1>6, <2>1 DEF RecordsAreTrue
    <2>2. CASE r = q
      <3>1. ~history[q].acked
        BY <1>2, <1>4 DEF RecordsAreTrue
      <3>2. QED
        BY <1>4, <1>7, <1>8, <2>2, <3>1
    <2>3. QED
      BY <2>1, <2>2
  <1>14. WaitingIsServed'
    <2> SUFFICES ASSUME NEW r \in Reminders
                 PROVE  /\ task'[TaskOf[r]] = "closed" => reminder'[r].status \notin {"scheduled", "failed"}
                        /\ reminder'[r].status = "scheduled" /\ reminder'[r].attempts >= MaxAttempts
                           => reminder'[r].lease # "none" /\ reminder'[r].token # None
      BY DEF WaitingIsServed
    <2>1. CASE r # q
      BY <1>1, <1>6, <2>1 DEF WaitingIsServed
    <2>2. CASE r = q
      <3>1. task'[TaskOf[q]] # "closed"
        BY <1>1, <1>2, <1>4 DEF WaitingIsServed
      <3>2. reminder'[q].status = "scheduled" => ~(reminder'[q].attempts >= MaxAttempts)
        BY <1>4, <1>8
      <3>3. QED
        BY <2>2, <3>1, <3>2
    <2>3. QED
      BY <2>1, <2>2
  <1>15. QED
    BY <1>10, <1>11, <1>12, <1>13, <1>14

LEMMA FinishHolds ==
    ASSUME ReminderInv, Typed', NEW w \in Workers, Finish(w)
    PROVE  ReminderInv'
  <1> USE DEF ReminderInv
  <1>1. CASE task[work[w].task] # "deleted" /\ Fenced(w)
    BY <1>1, AcknowledgeHolds
  <1>2. CASE ~(task[work[w].task] # "deleted" /\ Fenced(w))
    <2>1. /\ UNCHANGED <<task, locked, reminder, history>>
          /\ work[w].at = "ack" /\ work[w].at \in Busy
          /\ work' = [work EXCEPT ![w] = Idle]
      BY <1>2 DEF Finish, Busy
    <2>2. /\ work'[w].at = "idle" /\ Ended(w)
          /\ \A v \in Workers \ {w} : work'[v] = work[v]
      BY <2>1 DEF Typed, Idle, Ended, Busy
    <2>3. \A r \in Reminders : history[r].mails \in Nat
      BY DEF Typed, HistoryType
    <2>4. ASSUME NEW r \in Reminders, Current(w, r)
          PROVE  Paid(r)'
      <3>1. Unsent(r)' = Unsent(r)
        BY <2>1, <2>2 DEF Unsent, Current
      <3>2. ASSUME reminder[r].status = "scheduled", Mailable(r) = history[r].lost + 1,
                   NEW v \in Workers, Open(v, r)
            PROVE  Open(v, r)'
        <4>1. reminder[r].lease = "held"
          BY <3>2 DEF CountInv, Paid
        <4>2. v # w
          BY <1>2, <2>1, <3>2, <4>1, OpenPasses
        <4>3. QED
          BY <2>1, <2>2, <3>2, <4>2 DEF Open, Delivering
      <3>3. QED
        BY <2>1, <3>1, <3>2, PaidKept DEF CountInv
    <2>5. QED
      BY <2>1, <2>2, <2>3, <2>4, DeliveryStep
  <1>3. QED
    BY <1>1, <1>2

-----------------------------------------------------------------------------
(* Time. *)

LEMMA ExpireHolds ==
    ASSUME ReminderInv, Typed', NEW q \in Reminders, Expire(q)
    PROVE  ReminderInv'
  <1> USE DEF ReminderInv
  <1>1. /\ UNCHANGED <<task, locked, work>>
        /\ reminder[q].lease = "held"
        /\ \A r \in Reminders \ {q} : reminder'[r] = reminder[r] /\ history'[r] = history[r]
    BY DEF Expire, Typed
  <1>2. /\ reminder'[q].status = reminder[q].status
        /\ reminder'[q].attempts = reminder[q].attempts
        /\ reminder'[q].token = reminder[q].token /\ reminder'[q].lease = "expired"
    <2>1. reminder' = [reminder EXCEPT ![q] = [reminder[q] EXCEPT !.lease = "expired"]]
      BY DEF Expire
    <2>2. reminder[q] \in RowType /\ reminder'[q] = [reminder[q] EXCEPT !.lease = "expired"]
      BY <2>1 DEF Typed
    <2>3. QED
      BY <2>2 DEF RowType
  <1>3. /\ history'[q].plan = history[q].plan /\ history'[q].mails = history[q].mails
        /\ history'[q].acked = history[q].acked
        /\ (\E w \in Workers : Delivering(w, q)) => history'[q].lost = history[q].lost + 1
        /\ ~(\E w \in Workers : Delivering(w, q)) => history'[q].lost = history[q].lost
    <2> DEFINE l == history[q].lost + 1
               busy == \E w \in Workers : Delivering(w, q)
    <2>1. history' = IF busy THEN [history EXCEPT ![q] = [history[q] EXCEPT !.lost = l]]
                     ELSE history
      BY DEF Expire
    <2> HIDE DEF l, busy
    <2>2. /\ history[q] \in HistoryType
          /\ history'[q] = IF busy THEN [history[q] EXCEPT !.lost = l] ELSE history[q]
      BY <2>1 DEF Typed
    <2>3. /\ history'[q].plan = history[q].plan /\ history'[q].mails = history[q].mails
          /\ history'[q].acked = history[q].acked
          /\ busy => history'[q].lost = l
          /\ ~busy => history'[q].lost = history[q].lost
      BY <2>2 DEF HistoryType
    <2>4. QED
      BY <2>3 DEF l, busy
  <1>4. \A r \in Reminders : /\ history'[r].plan = history[r].plan
                             /\ history'[r].mails = history[r].mails
                             /\ history'[r].acked = history[r].acked
    BY <1>1, <1>3
  <1>5. PlansKept
    <2>1. \A r \in Reminders : history[r].mails \in Nat
      BY DEF Typed, HistoryType
    <2>2. \A r \in Reminders : history'[r].mails >= history[r].mails
      BY <1>4, <2>1
    <2>3. QED
      BY <1>1, <1>2, <1>4, <2>2 DEF PlansKept
  <1>6. DeliveryInv' /\ CurrentInv' /\ TokenInv'
    BY <1>1, <1>5, DeliveriesKept
  <1>7. CountInv'
    <2> SUFFICES ASSUME NEW r \in Reminders PROVE Paid(r)'
      BY DEF CountInv
    <2>1. Unsent(r)' = Unsent(r)
      BY <1>1, <1>4 DEF Unsent, Current
    <2>2. CASE r # q
      <3>1. \A v \in Workers : Open(v, r) => Open(v, r)'
        BY <1>1, <2>2 DEF Open, Delivering
      <3>2. QED
        BY <1>1, <2>1, <2>2, <3>1, PaidKept DEF CountInv
    <2>3. CASE r = q /\ \E w \in Workers : Delivering(w, q)
      <3>1. /\ IsFiniteSet(Unsent(q)) /\ Cardinality(Unsent(q)) \in Nat
            /\ Mailable(q) <= reminder[q].attempts /\ Mailable(q) <= history[q].lost + 1
        BY FS_CardinalityType DEF CountInv, Paid
      <3>2. history[q].mails \in Nat /\ history[q].lost \in Nat
        BY DEF Typed, HistoryType
      <3>3. Mailable(q)' = Mailable(q) /\ Mailable(q) \in Nat
        BY <1>3, <2>1, <2>3, <3>1, <3>2 DEF Mailable
      <3>4. Mailable(q)' <= reminder'[q].attempts /\ Mailable(q)' <= history'[q].lost
        BY <1>2, <1>3, <2>3, <3>1, <3>2, <3>3
      <3>5. IsFiniteSet(Unsent(q)') /\ Mailable(q)' \in Nat
        BY <2>1, <2>3, <3>1, <3>3
      <3>6. QED
        BY <2>3, <3>4, <3>5, PaidByLosses
    <2>4. CASE r = q /\ ~\E w \in Workers : Delivering(w, q)
      <3>1. reminder[q].status = "scheduled" => Mailable(q) # history[q].lost + 1
        BY <2>4 DEF CountInv, Paid, Open
      <3>2. QED
        BY <1>2, <1>3, <2>1, <2>4, <3>1, PaidKept DEF CountInv
    <2>5. QED
      BY <2>2, <2>3, <2>4
  <1>8. \A r \in Reminders : /\ reminder'[r].status = reminder[r].status
                             /\ reminder'[r].attempts = reminder[r].attempts
                             /\ reminder'[r].token = reminder[r].token
                             /\ reminder[r].lease # "none" => reminder'[r].lease # "none"
    BY <1>1, <1>2
  <1>9. RowsInv' /\ RecordsAreTrue' /\ WaitingIsServed'
    BY <1>1, <1>4, <1>8 DEF RowsInv, RecordsAreTrue, WaitingIsServed
  <1>10. QED
    BY <1>6, <1>7, <1>9

\* The steps that change neither a row's status, lease, token and attempts, nor
\* a delivery.
LEMMA QuietSteps ==
    ASSUME ReminderInv, Typed',
           \/ \E t \in Tasks : LockTask(t) \/ Rollback(t)
           \/ ChangeEmail \/ ConfirmEmail
           \/ \E w \in Workers : Select(w) \/ ClaimNothing(w)
           \/ \E r \in Reminders : BecomesDue(r)
           \/ UNCHANGED vars
    PROVE  ReminderInv'
  <1>1. \A t \in locked : task[t] \in {"pending", "closed"}
    BY DEF ReminderInv, RowsInv
  <1>2. ASSUME NEW t \in Tasks, LockTask(t) \/ Rollback(t)
        PROVE  ReminderInv'
    BY <1>1, <1>2, QuietHolds DEF LockTask, Rollback, Unlock
  <1>3. CASE ChangeEmail \/ ConfirmEmail \/ UNCHANGED vars
    BY <1>1, <1>3, QuietHolds DEF ChangeEmail, ConfirmEmail, vars
  <1>4. ASSUME NEW w \in Workers, Select(w) \/ ClaimNothing(w)
        PROVE  ReminderInv'
    <2>1. work[w].at \in {"select", "claim"}
      BY <1>4 DEF Select, ClaimNothing
    <2>2. \/ work' = [work EXCEPT ![w] = Idle]
          \/ \E t \in Tasks : work' = [work EXCEPT ![w] = [work[w] EXCEPT !.at = "claim", !.task = t]]
      BY <1>4 DEF Select, ClaimNothing
    <2>3. work[w] \in WorkType /\ work \in [Workers -> WorkType]
      BY DEF ReminderInv, Typed
    <2>4. \A t : [work[w] EXCEPT !.at = "claim", !.task = t].at = "claim"
      BY <2>3 DEF WorkType
    <2>5. Idle.at = "idle"
      BY DEF Idle
    <2>6. work[w].at \notin Busy /\ work'[w].at \notin Busy
      BY <2>1, <2>2, <2>3, <2>4, <2>5 DEF Busy
    <2>7. \A v \in Workers \ {w} : work'[v] = work[v]
      BY <2>2, <2>3
    <2>8. UNCHANGED <<task, locked, reminder, history>>
      BY <1>4 DEF Select, ClaimNothing
    <2>9. QED
      BY <1>1, <2>6, <2>7, <2>8, QuietHolds
  <1>5. ASSUME NEW q \in Reminders, BecomesDue(q)
        PROVE  ReminderInv'
    <2>1. reminder' = [reminder EXCEPT ![q] = [reminder[q] EXCEPT !.due = TRUE]]
      BY <1>5 DEF BecomesDue
    <2>2. reminder \in [Reminders -> RowType] /\ reminder[q] \in RowType
      BY DEF ReminderInv, Typed
    <2>3. \A r \in Reminders : /\ reminder'[r].status = reminder[r].status
                               /\ reminder'[r].attempts = reminder[r].attempts
                               /\ reminder'[r].lease = reminder[r].lease
                               /\ reminder'[r].token = reminder[r].token
      BY <2>1, <2>2 DEF RowType
    <2>4. UNCHANGED <<task, locked, work, history>>
      BY <1>5 DEF BecomesDue
    <2>5. QED
      BY <1>1, <2>3, <2>4, QuietHolds
  <1>6. QED
    BY <1>2, <1>3, <1>4, <1>5

-----------------------------------------------------------------------------
(* The requests that save, edit or delete a task t: deliveries go on, and of   *)
(* each reminder the plan stays, a new one begins, or the row goes.            *)

Kept(r) ==
    /\ history'[r] = history[r]
    /\ \/ reminder'[r] = reminder[r]
       \/ /\ reminder'[r].status = "cancelled" /\ reminder'[r].lease = "none"
          /\ reminder'[r].token = None /\ reminder'[r].attempts = reminder[r].attempts
          /\ reminder[r].status # "none"

Planned(r) ==
    /\ task[TaskOf[r]] # "deleted"
    /\ reminder'[r].status \in {"scheduled", "cancelled"} /\ reminder'[r].attempts = 0
    /\ reminder'[r].lease = "none" /\ reminder'[r].token = None
    /\ history'[r].plan = history[r].plan + 1
    /\ history'[r].mails = 0 /\ ~history'[r].acked

Gone(r) ==
    /\ task'[TaskOf[r]] = "deleted"
    /\ reminder'[r] = NoRow /\ history'[r] = NoHistory

LEMMA PlanFields ==
    /\ \A row \in RowType : /\ Withdrawn(row).status = "cancelled" /\ Withdrawn(row).lease = "none"
                            /\ Withdrawn(row).token = None
                            /\ Withdrawn(row).attempts = row.attempts
    /\ Scheduled.status = "scheduled" /\ Scheduled.attempts = 0 /\ Scheduled.lease = "none"
    /\ Scheduled.token = None
    /\ NoRow.status = "none" /\ NoRow.attempts = 0 /\ NoRow.token = None
    /\ \A h \in HistoryType : LET n == [NoHistory EXCEPT !.plan = h.plan + 1] IN
          n.plan = h.plan + 1 /\ n.mails = 0 /\ ~n.acked
    /\ NoHistory.plan = 0 /\ NoHistory.mails = 0 /\ ~NoHistory.acked
  <1>1. \A row \in RowType : /\ Withdrawn(row).status = "cancelled" /\ Withdrawn(row).lease = "none"
                            /\ Withdrawn(row).token = None
                            /\ Withdrawn(row).attempts = row.attempts
    BY DEF RowType, Withdrawn
  <1>2. /\ Scheduled.status = "scheduled" /\ Scheduled.attempts = 0 /\ Scheduled.lease = "none"
        /\ Scheduled.token = None
        /\ NoRow.status = "none" /\ NoRow.attempts = 0 /\ NoRow.token = None
    BY DEF Scheduled, NoRow
  <1>3. NoHistory.plan = 0 /\ NoHistory.mails = 0 /\ ~NoHistory.acked
    BY DEF NoHistory
  <1>4. \A k : LET n == [NoHistory EXCEPT !.plan = k] IN
                 n.plan = k /\ n.mails = 0 /\ ~n.acked
    BY DEF NoHistory
  <1>5. QED
    BY <1>1, <1>2, <1>3, <1>4

\* No delivery under way is of a plan that begins, or of a row that goes.
LEMMA PlansChanged ==
    ASSUME ReminderInv, Typed', UNCHANGED work,
           \A x \in Tasks : task[x] = "deleted" => task'[x] = "deleted",
           \A r \in Reminders : Kept(r) \/ Planned(r) \/ Gone(r)
    PROVE  DeliveryInv' /\ CurrentInv' /\ TokenInv' /\ CountInv' /\ RecordsAreTrue'
  <1> USE DEF ReminderInv
  <1>1. \A r \in Reminders : history[r].plan \in Nat /\ TaskOf[r] \in Tasks
    BY RemindersAssumption DEF Typed, HistoryType, RemindersAssumption
  <1>2. \A w \in Workers : work[w].plan \in Nat /\ w # None
    BY RemindersAssumption DEF Typed, WorkType, RemindersAssumption
  <1>3. DeliveryInv'
    <2> SUFFICES ASSUME NEW w \in Workers, NEW r \in Reminders,
                        work[w].at \in Busy, work[w].rem = r
                 PROVE  \/ task'[TaskOf[r]] = "deleted" /\ history'[r].plan = 0
                        \/ work[w].plan <= history'[r].plan
      BY DEF DeliveryInv
    <2>1. \/ task[TaskOf[r]] = "deleted" /\ history[r].plan = 0
          \/ work[w].plan <= history[r].plan
      BY DEF DeliveryInv
    <2>2. CASE Kept(r)
      BY <1>1, <2>1, <2>2 DEF Kept
    <2>3. CASE Planned(r)
      BY <1>1, <1>2, <2>1, <2>3 DEF Planned
    <2>4. CASE Gone(r)
      BY <2>4, PlanFields DEF Gone
    <2>5. QED
      BY <2>2, <2>3, <2>4
  <1>4. ASSUME NEW w \in Workers, NEW r \in Reminders
        PROVE  Current(w, r)' <=> Kept(r) /\ Current(w, r)
    <2>1. CASE Kept(r)
      BY <2>1 DEF Kept, Current
    <2>2. ASSUME ~Kept(r), Current(w, r)'
          PROVE  FALSE
      <3>1. /\ work[w].at \in Busy /\ work[w].rem = r /\ work[w].plan = history'[r].plan
        BY <2>2 DEF Current
      <3>2. /\ work[w].plan > 0
            /\ \/ task[TaskOf[r]] = "deleted" /\ history[r].plan = 0
               \/ work[w].plan <= history[r].plan
        BY <3>1 DEF DeliveryInv
      <3>3. CASE Planned(r)
        BY <1>1, <1>2, <3>1, <3>2, <3>3 DEF Planned
      <3>4. CASE Gone(r)
        BY <1>2, <3>1, <3>2, <3>4, PlanFields DEF Gone
      <3>5. QED
        BY <2>2, <3>3, <3>4
    <2>3. QED
      BY <2>1, <2>2
  <1>5. CurrentInv'
    BY <1>4 DEF CurrentInv, Kept
  <1>6. TokenInv'
    <2> SUFFICES ASSUME NEW w \in Workers, NEW r \in Reminders,
                        work[w].at \in Busy, work[w].rem = r, reminder'[r].token = w
                 PROVE  Delivering(w, r)'
      BY DEF TokenInv
    <2>1. Kept(r) /\ reminder'[r] = reminder[r]
      BY <1>2, PlanFields DEF Kept, Planned, Gone
    <2>2. Delivering(w, r)
      BY <2>1 DEF TokenInv
    <2>3. QED
      BY <2>1, <2>2 DEF Delivering, Kept
  <1>7. CountInv'
    <2> SUFFICES ASSUME NEW r \in Reminders PROVE Paid(r)'
      BY DEF CountInv
    <2>1. CASE Kept(r)
      <3>1. Unsent(r)' = Unsent(r)
        BY <1>4, <2>1 DEF Unsent
      <3>2. reminder'[r].status = "scheduled" => reminder'[r] = reminder[r]
        BY <2>1 DEF Kept
      <3>3. reminder'[r] = reminder[r] => \A v \in Workers : Open(v, r) => Open(v, r)'
        BY <2>1 DEF Kept, Open, Delivering
      <3>4. reminder'[r].attempts = reminder[r].attempts
        BY <2>1 DEF Kept
      <3>5. QED
        BY <2>1, <3>1, <3>2, <3>3, <3>4, PaidKept DEF CountInv, Kept
    <2>2. CASE Planned(r) \/ Gone(r)
      <3>1. ~Kept(r) => Unsent(r)' = {}
        BY <1>4 DEF Unsent
      <3>2. history'[r].mails = 0
        BY <2>2, PlanFields DEF Planned, Gone
      <3>3. QED
        BY <2>1, <3>1, <3>2, PaidAnew
    <2>3. QED
      BY <2>1, <2>2
  <1>8. RecordsAreTrue'
    <2> SUFFICES ASSUME NEW r \in Reminders
                 PROVE  /\ reminder'[r].status = "sent" => history'[r].mails > 0 /\ history'[r].acked
                        /\ history'[r].acked => reminder'[r].status \in {"sent", "cancelled"}
      BY DEF RecordsAreTrue
    <2>1. CASE Kept(r)
      BY <2>1 DEF Kept, RecordsAreTrue
    <2>2. CASE Planned(r)
      BY <2>2 DEF Planned
    <2>3. CASE Gone(r)
      BY <2>3, PlanFields DEF Gone
    <2>4. QED
      BY <2>1, <2>2, <2>3
  <1>9. QED
    BY <1>3, <1>5, <1>6, <1>7, <1>8

\* A reminder whose plan begins.
LEMMA NewPlanned ==
    ASSUME Typed, NEW R, NewPlan(R), NEW r \in Reminders
    PROVE  /\ r \notin R => history'[r] = history[r]
           /\ r \in R => /\ history'[r].plan = history[r].plan + 1
                         /\ history'[r].mails = 0 /\ ~history'[r].acked
  <1>1. history[r] \in HistoryType
    BY DEF Typed
  <1>2. history'[r] = IF r \in R THEN [NoHistory EXCEPT !.plan = history[r].plan + 1]
                      ELSE history[r]
    BY DEF NewPlan
  <1>3. QED
    BY <1>1, <1>2, PlanFields

LEMMA SaveHolds ==
    ASSUME ReminderInv, Typed', NEW t \in Tasks, NEW added \in SUBSET RemindersOf(t),
           SaveTask(t, added)
    PROVE  ReminderInv'
  <1> USE DEF ReminderInv
  <1>1. /\ UNCHANGED <<locked, work>> /\ task[t] = "absent" /\ task'[t] = "pending"
        /\ \A x \in Tasks \ {t} : task'[x] = task[x]
        /\ NewPlan(added)
        /\ \A r \in Reminders : reminder'[r] = IF r \in added THEN Scheduled ELSE reminder[r]
    BY DEF SaveTask, Typed
  <1>2. \A r \in Reminders : r \in added => TaskOf[r] = t
    BY DEF RemindersOf
  <1>3. \A r \in Reminders : Kept(r) \/ Planned(r)
    BY <1>1, <1>2, NewPlanned, PlanFields DEF Kept, Planned
  <1>4. DeliveryInv' /\ CurrentInv' /\ TokenInv' /\ CountInv' /\ RecordsAreTrue'
    BY <1>1, <1>3, PlansChanged
  <1>5. MaxAttempts \in Nat \ {0} /\ \A r \in Reminders : history[r].plan \in Nat /\ TaskOf[r] \in Tasks
    BY RemindersAssumption DEF RemindersAssumption, Typed, HistoryType
  <1>6. \A r \in Reminders :
           IF r \in added
           THEN /\ reminder'[r].status = "scheduled" /\ reminder'[r].attempts = 0
                /\ history'[r].plan = history[r].plan + 1 /\ TaskOf[r] = t
           ELSE reminder'[r] = reminder[r] /\ history'[r] = history[r]
    BY <1>1, <1>2, NewPlanned, PlanFields
  <1>7. RowsInv'
    <2>1. \A x \in locked' : task'[x] \in {"pending", "closed"}
      BY <1>1 DEF RowsInv, Typed
    <2> SUFFICES ASSUME NEW r \in Reminders
                 PROVE  /\ task'[TaskOf[r]] \in {"absent", "deleted"} => reminder'[r].status = "none"
                        /\ reminder'[r].status # "none" => history'[r].plan > 0
                        /\ reminder'[r].attempts <= MaxAttempts
      BY <2>1 DEF RowsInv
    <2>2. CASE r \in added
      BY <1>1, <1>5, <1>6, <2>2
    <2>3. CASE r \notin added
      BY <1>1, <1>5, <1>6, <2>3 DEF RowsInv
    <2>4. QED
      BY <2>2, <2>3
  <1>8. WaitingIsServed'
    <2> SUFFICES ASSUME NEW r \in Reminders
                 PROVE  /\ task'[TaskOf[r]] = "closed" => reminder'[r].status \notin {"scheduled", "failed"}
                        /\ reminder'[r].status = "scheduled" /\ reminder'[r].attempts >= MaxAttempts
                           => reminder'[r].lease # "none" /\ reminder'[r].token # None
      BY DEF WaitingIsServed
    <2>1. CASE r \in added
      <3>1. ~(reminder'[r].attempts >= MaxAttempts)
        BY <1>5, <1>6, <2>1
      <3>2. QED
        BY <1>1, <1>6, <2>1, <3>1
    <2>2. CASE r \notin added
      BY <1>1, <1>5, <1>6, <2>2 DEF WaitingIsServed
    <2>3. QED
      BY <2>1, <2>2
  <1>9. QED
    BY <1>4, <1>7, <1>8

LEMMA DeleteHolds ==
    ASSUME ReminderInv, Typed', NEW t \in Tasks, DeleteTask(t)
    PROVE  ReminderInv'
  <1> USE DEF ReminderInv
  <1>1. /\ UNCHANGED work /\ locked' = locked \ {t} /\ task'[t] = "deleted"
        /\ \A x \in Tasks \ {t} : task'[x] = task[x]
        /\ \A r \in Reminders :
             IF TaskOf[r] = t THEN reminder'[r] = NoRow /\ history'[r] = NoHistory
             ELSE reminder'[r] = reminder[r] /\ history'[r] = history[r]
    BY DEF DeleteTask, Unlock, Typed
  <1>2. \A r \in Reminders : Kept(r) \/ Gone(r)
    BY <1>1 DEF Kept, Gone
  <1>3. DeliveryInv' /\ CurrentInv' /\ TokenInv' /\ CountInv' /\ RecordsAreTrue'
    BY <1>1, <1>2, PlansChanged
  <1>4. MaxAttempts \in Nat \ {0} /\ \A r \in Reminders : TaskOf[r] \in Tasks
    BY RemindersAssumption DEF RemindersAssumption
  <1>5. RowsInv'
    <2>1. \A x \in locked' : task'[x] \in {"pending", "closed"}
      BY <1>1 DEF RowsInv, Typed
    <2> SUFFICES ASSUME NEW r \in Reminders
                 PROVE  /\ task'[TaskOf[r]] \in {"absent", "deleted"} => reminder'[r].status = "none"
                        /\ reminder'[r].status # "none" => history'[r].plan > 0
                        /\ reminder'[r].attempts <= MaxAttempts
      BY <2>1 DEF RowsInv
    <2>2. CASE TaskOf[r] = t
      BY <1>1, <1>4, <2>2, PlanFields
    <2>3. CASE TaskOf[r] # t
      BY <1>1, <1>4, <2>3 DEF RowsInv
    <2>4. QED
      BY <2>2, <2>3
  <1>6. WaitingIsServed'
    <2> SUFFICES ASSUME NEW r \in Reminders
                 PROVE  /\ task'[TaskOf[r]] = "closed" => reminder'[r].status \notin {"scheduled", "failed"}
                        /\ reminder'[r].status = "scheduled" /\ reminder'[r].attempts >= MaxAttempts
                           => reminder'[r].lease # "none" /\ reminder'[r].token # None
      BY DEF WaitingIsServed
    <2>1. CASE TaskOf[r] = t
      BY <1>1, <2>1, PlanFields
    <2>2. CASE TaskOf[r] # t
      BY <1>1, <1>4, <2>2 DEF WaitingIsServed
    <2>3. QED
      BY <2>1, <2>2
  <1>7. QED
    BY <1>3, <1>5, <1>6

LEMMA UpdateHolds ==
    ASSUME ReminderInv, Typed', NEW t \in Tasks, NEW status \in {"pending", "closed", None},
           NEW removed \in SUBSET RemindersOf(t), NEW moved \in SUBSET RemindersOf(t),
           NEW added \in SUBSET RemindersOf(t), UpdateTask(t, status, removed, moved, added)
    PROVE  ReminderInv'
  <1> USE DEF ReminderInv
  <1> DEFINE R == moved \cup added
             rows == [r \in Reminders |->
                        IF r \in removed THEN Withdrawn(reminder[r])
                        ELSE IF r \in R THEN Scheduled
                        ELSE reminder[r]]
  <1>1. /\ UNCHANGED work /\ t \in locked /\ locked' = locked \ {t}
        /\ task' = [task EXCEPT ![t] = Written(t, status)]
        /\ NewPlan(R) /\ reminder' = Cancelled(t, status, rows)
        /\ removed \subseteq Visible(t)
        /\ moved \subseteq Movable(t) \ removed
        /\ added \subseteq {r \in RemindersOf(t) : reminder[r].status = "none"}
        /\ added # {} => Written(t, status) = "pending"
    BY DEF UpdateTask, Unlock
  <1>2. task[t] \in {"pending", "closed"} /\ Written(t, status) \in {"pending", "closed"}
    BY <1>1 DEF RowsInv, Written
  <1>3. /\ task'[t] = Written(t, status)
        /\ \A x \in Tasks \ {t} : task'[x] = task[x]
    BY <1>1 DEF Typed
  <1>4. \A r \in Reminders : reminder[r] \in RowType /\ TaskOf[r] \in Tasks
                             /\ history[r].plan \in Nat
    BY RemindersAssumption DEF Typed, RemindersAssumption, HistoryType
  <1>5. /\ \A r \in removed : reminder[r].status # "none" /\ r \notin R /\ TaskOf[r] = t
        /\ \A r \in R : TaskOf[r] = t
    BY <1>1 DEF Visible, Movable, RemindersOf
  <1>6. ASSUME NEW r \in Reminders
        PROVE  /\ rows[r] \in RowType
               /\ reminder'[r] = IF /\ status = "closed" /\ TaskOf[r] = t
                                    /\ rows[r].status \in {"scheduled", "failed"}
                                 THEN Withdrawn(rows[r]) ELSE rows[r]
               /\ r \in removed => rows[r] = Withdrawn(reminder[r])
               /\ r \in R => rows[r] = Scheduled
               /\ r \notin removed \cup R => rows[r] = reminder[r]
    <2>1. reminder'[r] = IF /\ status = "closed" /\ TaskOf[r] = t
                            /\ rows[r].status \in {"scheduled", "failed"}
                         THEN Withdrawn(rows[r]) ELSE rows[r]
      BY <1>1 DEF Cancelled
    <2>2. /\ r \in removed => rows[r] = Withdrawn(reminder[r])
          /\ r \in R => rows[r] = Scheduled
          /\ r \notin removed \cup R => rows[r] = reminder[r]
      BY <1>5
    <2>3. rows[r] \in RowType
      BY <1>4, <2>2, RowTypes
    <2>4. QED
      BY <2>1, <2>2, <2>3
  <1> HIDE DEF R, rows
  <1>7. ASSUME NEW r \in Reminders, r \notin R
        PROVE  Kept(r)
    <2>1. history'[r] = history[r]
      BY <1>1, <1>7, NewPlanned
    <2>2. CASE r \in removed
      BY <1>4, <1>5, <1>6, <2>1, <2>2, PlanFields DEF Kept
    <2>3. CASE r \notin removed
      <3>1. rows[r] = reminder[r]
        BY <1>6, <1>7, <2>3
      <3>2. \/ reminder'[r] = reminder[r]
            \/ reminder[r].status # "none" /\ reminder'[r] = Withdrawn(reminder[r])
        BY <1>6, <3>1
      <3>3. QED
        BY <1>4, <2>1, <3>2, PlanFields DEF Kept
    <2>4. QED
      BY <2>2, <2>3
  <1>8. ASSUME NEW r \in Reminders, r \in R
        PROVE  Planned(r)
    <2>1. reminder'[r] = Scheduled \/ reminder'[r] = Withdrawn(Scheduled)
      BY <1>6, <1>8
    <2>2. /\ reminder'[r].status \in {"scheduled", "cancelled"} /\ reminder'[r].attempts = 0
          /\ reminder'[r].lease = "none" /\ reminder'[r].token = None
      BY <2>1, RowTypes, PlanFields
    <2>3. /\ history'[r].plan = history[r].plan + 1
          /\ history'[r].mails = 0 /\ ~history'[r].acked
      BY <1>1, <1>8, NewPlanned
    <2>4. QED
      BY <1>2, <1>5, <1>8, <2>2, <2>3 DEF Planned
  <1>9. DeliveryInv' /\ CurrentInv' /\ TokenInv' /\ CountInv' /\ RecordsAreTrue'
    BY <1>1, <1>2, <1>3, <1>7, <1>8, PlansChanged
  <1>10. MaxAttempts \in Nat \ {0}
    BY RemindersAssumption DEF RemindersAssumption
  <1>11. \A r \in Reminders : TaskOf[r] # t => reminder'[r] = reminder[r]
    BY <1>5, <1>6
  <1>12. RowsInv'
    <2>1. \A x \in locked' : task'[x] \in {"pending", "closed"}
      BY <1>1, <1>3 DEF RowsInv, Typed
    <2> SUFFICES ASSUME NEW r \in Reminders
                 PROVE  /\ task'[TaskOf[r]] \in {"absent", "deleted"} => reminder'[r].status = "none"
                        /\ reminder'[r].status # "none" => history'[r].plan > 0
                        /\ reminder'[r].attempts <= MaxAttempts
      BY <2>1 DEF RowsInv
    <2>2. task'[TaskOf[r]] \in {"absent", "deleted"} => reminder'[r].status = "none"
      BY <1>2, <1>3, <1>4, <1>11 DEF RowsInv
    <2>3. CASE r \in R
      BY <1>4, <1>8, <1>10, <2>2, <2>3 DEF Planned
    <2>4. CASE r \notin R
      BY <1>7, <2>2, <2>4 DEF Kept, RowsInv
    <2>5. QED
      BY <2>3, <2>4
  <1>13. WaitingIsServed'
    <2> SUFFICES ASSUME NEW r \in Reminders
                 PROVE  /\ task'[TaskOf[r]] = "closed" => reminder'[r].status \notin {"scheduled", "failed"}
                        /\ reminder'[r].status = "scheduled" /\ reminder'[r].attempts >= MaxAttempts
                           => reminder'[r].lease # "none" /\ reminder'[r].token # None
      BY DEF WaitingIsServed
    <2>1. task'[TaskOf[r]] = "closed" => reminder'[r].status \notin {"scheduled", "failed"}
      <3>1. CASE TaskOf[r] # t
        BY <1>3, <1>4, <1>11, <3>1 DEF WaitingIsServed
      <3>2. CASE TaskOf[r] = t /\ status = "closed"
        BY <1>6, <3>2, PlanFields
      <3>3. CASE TaskOf[r] = t /\ status # "closed" /\ task'[t] = "closed"
        <4>1. task[t] = "closed"
          BY <1>3, <3>3 DEF Written
        <4>2. reminder[r].status \notin {"scheduled", "failed"}
          BY <3>3, <4>1 DEF WaitingIsServed
        <4>3. r \notin added
          BY <1>1, <1>3, <3>3
        <4>4. r \notin moved
          BY <1>1, <1>4, <4>2 DEF Movable, Visible, RowType, Statuses
        <4>5. Kept(r)
          BY <1>7, <4>3, <4>4 DEF R
        <4>6. QED
          BY <4>2, <4>5 DEF Kept
      <3>4. QED
        BY <3>1, <3>2, <3>3
    <2>2. CASE r \in R
      <3>1. ~(reminder'[r].attempts >= MaxAttempts)
        BY <1>8, <1>10, <2>2 DEF Planned
      <3>2. QED
        BY <2>1, <3>1
    <2>3. CASE r \notin R
      BY <1>7, <2>1, <2>3 DEF Kept, WaitingIsServed
    <2>4. QED
      BY <2>2, <2>3
  <1>14. QED
    BY <1>9, <1>12, <1>13

-----------------------------------------------------------------------------

LEMMA InitHolds ==
    ASSUME Init
    PROVE  ReminderInv
  <1>1. MaxAttempts \in Nat \ {0}
    BY RemindersAssumption DEF RemindersAssumption
  <1>2. Typed
    BY RowTypes DEF Init, Typed
  <1>3. \A w \in Workers : work[w].at = "idle"
    BY DEF Init, Idle
  <1>4. /\ locked = {} /\ \A t \in Tasks : task[t] = "absent"
        /\ \A r \in Reminders : reminder[r] = NoRow /\ history[r] = NoHistory
    BY DEF Init
  <1>5. RowsInv
    BY <1>1, <1>4, PlanFields DEF RowsInv
  <1>6. DeliveryInv /\ CurrentInv /\ TokenInv
    BY <1>3 DEF DeliveryInv, CurrentInv, TokenInv, Current, Busy
  <1>7. CountInv
    <2> SUFFICES ASSUME NEW r \in Reminders PROVE Paid(r)
      BY DEF CountInv
    <2>1. Unsent(r) = {}
      BY <1>3 DEF Unsent
    <2>2. Mailable(r) = 0 /\ IsFiniteSet(Unsent(r))
      BY <1>4, <2>1, FS_EmptySet, PlanFields DEF Mailable
    <2>3. /\ reminder[r].attempts = 0 /\ reminder[r].status = "none"
          /\ history[r].lost \in Nat
      BY <1>2, <1>4, PlanFields DEF Typed, HistoryType
    <2>4. QED
      BY <2>2, <2>3 DEF Paid
  <1>8. RecordsAreTrue /\ WaitingIsServed
    BY <1>4, PlanFields DEF RecordsAreTrue, WaitingIsServed
  <1>9. QED
    BY <1>2, <1>5, <1>6, <1>7, <1>8 DEF ReminderInv

LEMMA NextHolds ==
    ASSUME ReminderInv, [Next]_vars
    PROVE  ReminderInv'
  <1>1. Typed'
    BY TypedStep DEF ReminderInv
  <1>2. CASE UNCHANGED vars
    BY <1>1, <1>2, QuietSteps
  <1>3. ASSUME NEW t \in Tasks,
               \/ \E added \in SUBSET RemindersOf(t) : SaveTask(t, added)
               \/ LockTask(t) \/ EndRequest(t)
        PROVE  ReminderInv'
    BY <1>1, <1>3, QuietSteps, SaveHolds, DeleteHolds, UpdateHolds DEF EndRequest
  <1>4. CASE ChangeEmail \/ ConfirmEmail
    BY <1>1, <1>4, QuietSteps
  <1>5. ASSUME NEW w \in Workers, Deliver(w) \/ Drop(w)
        PROVE  ReminderInv'
    BY <1>1, <1>5, RetireHolds, QuietSteps, ClaimHolds, CheckHolds, SendHolds,
       BeginFinishHolds, FinishHolds, DropHolds DEF Deliver
  <1>6. ASSUME NEW r \in Reminders, BecomesDue(r) \/ Expire(r)
        PROVE  ReminderInv'
    BY <1>1, <1>6, QuietSteps, ExpireHolds
  <1>7. QED
    BY <1>2, <1>3, <1>4, <1>5, <1>6 DEF Next

\* The invariant holds in every state: for any number of schedulers, however
\* they crash, expire and overtake each other, and whatever the user does.
THEOREM RemindersHold == Spec => []ReminderInv
  <1>1. Init => ReminderInv
    BY InitHolds
  <1>2. ReminderInv /\ [Next]_vars => ReminderInv'
    BY NextHolds
  <1>3. QED
    BY <1>1, <1>2, PTL DEF Spec

\* A plan is mailed at most MaxAttempts times: the claim counts an attempt
\* before the mail goes out (ClaimReminder), and no mail goes out without one.
THEOREM MailsBounded == Spec => []AttemptsBoundMails
  <1>1. ASSUME ReminderInv
        PROVE  AttemptsBoundMails
    <2> SUFFICES ASSUME NEW r \in Reminders
                 PROVE  history[r].mails <= reminder[r].attempts /\ reminder[r].attempts <= MaxAttempts
      BY DEF AttemptsBoundMails
    <2>1. IsFiniteSet(Unsent(r)) /\ Mailable(r) <= reminder[r].attempts
      BY <1>1 DEF ReminderInv, CountInv, Paid
    <2>2. /\ Cardinality(Unsent(r)) \in Nat
          /\ history[r].mails \in Nat /\ reminder[r].attempts \in Nat
      BY <1>1, <2>1, FS_CardinalityType DEF ReminderInv, Typed, HistoryType, RowType
    <2>3. history[r].mails <= reminder[r].attempts
      BY <2>1, <2>2 DEF Mailable
    <2>4. QED
      BY <1>1, <2>3 DEF ReminderInv, RowsInv
  <1>2. QED
    BY <1>1, RemindersHold, PTL

\* A reminder shown as sent was mailed in its present plan, and one that was
\* acknowledged is never put back into the queue (the fence of FinishReminder).
THEOREM TrueRecords == Spec => []RecordsAreTrue
  <1>1. ReminderInv => RecordsAreTrue
    BY DEF ReminderInv
  <1>2. QED
    BY <1>1, RemindersHold, PTL

\* A closed task leaves nothing to deliver, and a row whose attempts are used
\* up is under a lease whose end makes it fail (the trigger, Claim and Retire).
THEOREM Served == Spec => []WaitingIsServed
  <1>1. ReminderInv => WaitingIsServed
    BY DEF ReminderInv
  <1>2. QED
    BY <1>1, RemindersHold, PTL

\* Each mail of a plan but the first one is explained by a loss: schedulers,
\* retries and edits alone never mail a plan twice.
THEOREM DuplicatesNeedLosses == Spec => []DuplicateNeedsLoss
  <1>1. ASSUME ReminderInv
        PROVE  DuplicateNeedsLoss
    <2> SUFFICES ASSUME NEW r \in Reminders
                 PROVE  history[r].mails <= 1 + history[r].lost
      BY DEF DuplicateNeedsLoss
    <2>1. IsFiniteSet(Unsent(r)) /\ Mailable(r) <= history[r].lost + 1
      BY <1>1 DEF ReminderInv, CountInv, Paid
    <2>2. /\ Cardinality(Unsent(r)) \in Nat
          /\ history[r].mails \in Nat /\ history[r].lost \in Nat
      BY <1>1, <2>1, FS_CardinalityType DEF ReminderInv, Typed, HistoryType
    <2>3. QED
      BY <2>1, <2>2 DEF Mailable
  <1>2. QED
    BY <1>1, RemindersHold, PTL

=============================================================================
