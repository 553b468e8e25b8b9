---------------------------- MODULE ReminderRules ----------------------------
(***************************************************************************)
(* What an edit of a task may do to its reminders: PlanReminders, the fold *)
(* over the rows of the request that the API runs on each save, and the    *)
(* life of one pending task whose reminders are edited, fall due and are   *)
(* delivered, and whose owner gains and loses Premium.                     *)
(*                                                                         *)
(* Minutes are the unit of time.  A reminder is the record of its id, its  *)
(* offset before the deadline (None for one that was imported as an exact  *)
(* instant), its instant and its status.                                   *)
(***************************************************************************)
EXTENDS Integers, FiniteSets, SequencesExt

CONSTANTS
    MaxTime,        \* bound: the clock and the deadlines end here
    MaxOffset,      \* MaxReminderOffsetMinutes (52560000)
    FreeLimit,      \* reminders of a task without Premium (2)
    MaxRows,        \* bound: rows in one request
    MaxId,          \* bound: reminders inserted
    None

ASSUME ReminderRulesAssumption ==
    /\ MaxTime \in Nat /\ MaxOffset \in Nat /\ FreeLimit \in Nat
    /\ MaxRows \in Nat /\ MaxId \in Nat
    /\ None \notin Int

VARIABLES
    rows,           \* the task's reminders that are not cancelled
    deadline,       \* tasks.deadline, or None
    premium,        \* users.is_premium
    now,            \* the clock of the database
    used            \* ids drawn so far

vars == <<rows, deadline, premium, now, used>>

Times == 0..MaxTime
Ids == 1..MaxId

\* The offsets a request can name, with the first one outside on either side.
Offsets == -1..MaxOffset + 1

Inputs == [id : {0} \cup Ids, off : Offsets \cup {None}]

\* A request without "reminders" is None, else the array it sends.
Requests == {None} \cup UNION {[1..n -> Inputs] : n \in 0..MaxRows}

Row(id) == CHOOSE r \in rows : r.id = id
Known(id) == \E r \in rows : r.id = id

\* An imported instant is kept when the request leaves its offset out.
KeepsInstant(i) == Known(i.id) /\ Row(i.id).off = None /\ i.off = None

-----------------------------------------------------------------------------
(* PlanReminders. *)

\* The rows of the request; without "reminders", those of the task itself.
Desired(request) ==
    IF request # None THEN request
    ELSE SetToSeq({[id |-> r.id, off |-> r.off] : r \in rows})

NoPlan == [error |-> FALSE, ids |-> {}, rows |-> {}, changed |-> FALSE]
Refused(plan) == [plan EXCEPT !.error = TRUE]

\* r joins the plan, unless another reminder has its instant.
Join(plan, r, changed) ==
    IF \E q \in plan.rows : q.at = r.at THEN Refused(plan)
    ELSE [plan EXCEPT !.ids = IF r.id = 0 THEN @ ELSE @ \cup {r.id},
                      !.rows = @ \cup {r}, !.changed = @ \/ changed]

\* The row for input i, which names an offset.
Replan(plan, i, due) ==
    LET found == Known(i.id)
        old == Row(i.id)
        modified == ~found \/ old.off # i.off
        at == due - i.off
        moved == modified \/ old.at # at
        sent == found /\ old.status = "sent"
    IN  IF sent /\ modified THEN Refused(plan)
        ELSE IF sent \/ ~moved THEN Join(plan, old, FALSE)
        ELSE IF at <= now THEN Refused(plan)
        ELSE Join(plan, [id |-> i.id, off |-> i.off, at |-> at, status |-> "scheduled"], TRUE)

\* Mutant: a reminder whose offset is the same is kept although the deadline has
\* moved.
PlanUnlessSame(plan, i, due) ==
    IF plan.error \/ (i.id # 0 /\ (~Known(i.id) \/ i.id \in plan.ids)) THEN Refused(plan)
    ELSE IF KeepsInstant(i) \/ (Known(i.id) /\ Row(i.id).off = i.off)
         THEN Join(plan, Row(i.id), FALSE)
    ELSE IF i.off = None \/ i.off \notin 0..MaxOffset \/ due = None THEN Refused(plan)
    ELSE Replan(plan, i, due)

\* One turn of the loop.
PlanRow(plan, i, due) ==
    IF plan.error \/ (i.id # 0 /\ (~Known(i.id) \/ i.id \in plan.ids)) THEN Refused(plan)
    ELSE IF KeepsInstant(i) THEN Join(plan, Row(i.id), FALSE)
    ELSE IF i.off = None \/ i.off \notin 0..MaxOffset \/ due = None THEN Refused(plan)
    ELSE Replan(plan, i, due)

\* The loop: the plan after each number of rows.
Plans(inputs, due) ==
    LET plan[k \in 0..Len(inputs)] ==
            IF k = 0 THEN NoPlan ELSE PlanRow(plan[k - 1], inputs[k], due)
    IN  plan

Planned(request, due) ==
    LET inputs == Desired(request) IN Plans(inputs, due)[Len(inputs)]

PlanReminders(request, due) ==
    LET plan == Planned(request, due)
    IN  IF ~premium /\ Len(Desired(request)) > FreeLimit /\ plan.changed
        THEN Refused(plan) ELSE plan

-----------------------------------------------------------------------------
(* The life of a task's reminders. *)

\* The rows of migration 00021: the one reminder_at of a task becomes an offset
\* if it is one, and an exact instant otherwise.  (Also when a fraction of a
\* minute is left over, which whole minutes do not show.)
Migrated(at, due, status) ==
    [id |-> 1, at |-> at, status |-> status,
     off |-> IF due # None /\ at <= due /\ due - at <= MaxOffset THEN due - at ELSE None]

Init ==
    /\ deadline \in Times \cup {None}
    /\ now = 0
    /\ premium \in BOOLEAN
    /\ \/ rows = {} /\ used = 0
       \/ /\ used = 1
          /\ \E at \in Times, status \in {"scheduled", "sent"} :
                rows = {Migrated(at, deadline, status)}

\* Ids for the rows the request adds, in the order of their instants.
Numbered(R) ==
    {IF r.id # 0 THEN r
     ELSE [r EXCEPT !.id = used + Cardinality({q \in R : q.id = 0 /\ q.at <= r.at})] : r \in R}

\* PATCH /tasks/{id} with a deadline, reminders or both (replaceTaskReminders);
\* a refused plan rolls the whole request back.
Edit(request, due) ==
    LET plan == PlanReminders(request, due)
        added == Cardinality({r \in plan.rows : r.id = 0})
    IN  /\ ~plan.error
        /\ used + added <= MaxId
        /\ rows' = Numbered(plan.rows)
        /\ used' = used + added
        /\ deadline' = due
        /\ UNCHANGED <<premium, now>>

\* The notifier's result for a reminder whose instant has passed.
Deliver(r, status) ==
    /\ r.status = "scheduled" /\ r.at <= now
    /\ rows' = (rows \ {r}) \cup {[r EXCEPT !.status = status]}
    /\ UNCHANGED <<deadline, premium, now, used>>

Tick == now < MaxTime /\ now' = now + 1 /\ UNCHANGED <<rows, deadline, premium, used>>

\* A payment grants Premium; it is taken away in the database by hand, which
\* the rules foresee.
ChangeTariff == premium' = ~premium /\ UNCHANGED <<rows, deadline, now, used>>

Next ==
    \/ \E request \in Requests, due \in Times \cup {None} : Edit(request, due)
    \/ \E r \in rows, status \in {"sent", "failed"} : Deliver(r, status)
    \/ Tick \/ ChangeTariff

Spec == Init /\ [][Next]_vars

-----------------------------------------------------------------------------

\* The documented rules, without the order in which the code tries them
\* (docs/REMINDERS.md, "Настройка и лимиты"): what row the input asks for, ...
Asked(i, due) ==
    IF KeepsInstant(i) \/ (Known(i.id) /\ Row(i.id).status = "sent") THEN Row(i.id)
    ELSE [id |-> i.id, off |-> i.off, at |-> due - i.off,
          status |-> IF Known(i.id) /\ Row(i.id).off = i.off /\ Row(i.id).at = due - i.off
                     THEN Row(i.id).status ELSE "scheduled"]

\* ... and when the request is allowed: it names reminders of this task, each
\* once; an offset is in range and has a deadline to count from; a sent one is
\* as it was; a new instant is ahead; no instant occurs twice; and without
\* Premium a list beyond the limit only shrinks.
Allowed(inputs, due) ==
    LET new(i) == Asked(i, due) \notin rows
    IN  /\ \A k \in DOMAIN inputs :
            LET i == inputs[k] IN
            /\ i.id = 0 \/ Known(i.id)
            /\ KeepsInstant(i) \/ (i.off \in 0..MaxOffset /\ due # None)
            /\ Known(i.id) /\ Row(i.id).status = "sent" => i.off = Row(i.id).off
            /\ new(i) => Asked(i, due).at > now
        /\ \A k, l \in DOMAIN inputs : k # l =>
            /\ inputs[k].id = 0 \/ inputs[k].id # inputs[l].id
            /\ Asked(inputs[k], due).at # Asked(inputs[l], due).at
        /\ premium \/ Len(inputs) <= FreeLimit \/ \A k \in DOMAIN inputs : ~new(inputs[k])

PlanFollowsRules ==
    \A request \in Requests, due \in Times \cup {None} :
        LET plan == PlanReminders(request, due)
            inputs == Desired(request)
        IN  /\ ~plan.error <=> Allowed(inputs, due)
            /\ ~plan.error => plan.rows = {Asked(inputs[k], due) : k \in DOMAIN inputs}

InstantsAgree ==
    /\ \A r \in rows : r.status # "sent" /\ r.off # None
                         => deadline # None /\ r.at = deadline - r.off
    /\ \A r, q \in rows : r.at = q.at => r = q

\* PlanReminders accepts what the rules allow, nothing else, and plans what was
\* asked for, in every state of a task and for every request.  After any
\* sequence of edits, a reminder that was not sent and has an offset is planned
\* at that offset before the deadline of the task as it is now, and two
\* reminders never go out at the same instant.
RemindersAgree == PlanFollowsRules /\ InstantsAgree

=============================================================================
