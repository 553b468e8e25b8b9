------------------------------- MODULE Mails -------------------------------
(***************************************************************************)
(* The worker that mails the links of Accounts.  The backend only queues   *)
(* them in the two outbox tables; the email notifier, a process of its     *)
(* own, claims a row with a lease, sends the mail, and acknowledges it     *)
(* under the token of its lease.  A worker here is the loop of either      *)
(* kind; it may stop at any point, and there may be several.               *)
(***************************************************************************)
EXTENDS Accounts

CONSTANTS
    Workers,        \* delivery loops
    MaxAttempts     \* attempts after which a row has failed (5)

ASSUME AttemptsPositive == MaxAttempts \in Nat \ {0}

VARIABLES
    worker          \* what each worker is doing

vars == <<serverVars, mailVars, worker>>

AtRest == [at |-> "rest", row |-> 0, attempt |-> 0]
Away == [AtRest EXCEPT !.at = "away"]           \* a worker that is not running

MailsInit ==
    /\ AccountsInit
    /\ worker \in [Workers -> {AtRest, Away}]

UserOf(l) == account[link[l].user]
Scheduled(l) == outbox[l].status = "scheduled"
Held(l) == outbox[l].lease = "held"

\* The link can still be used, by the address it goes to.
Usable(l) == link[l].state = "current" /\ ~link[l].expired /\ link[l].email = UserOf(l).email

\* Mutant: rows whose attempts are used up are left to their lease.
WithoutLimit(l) ==
    IF ~Scheduled(l) THEN outbox[l].status
    ELSE IF link[l].kind = "reset"
    THEN IF ~Usable(l) THEN "cancelled" ELSE "scheduled"
    ELSE IF Held(l) THEN "scheduled"
    ELSE IF UserOf(l).verified THEN "cancelled"
    ELSE IF link[l].expired THEN "failed"
    ELSE "scheduled"

\* What the statements before the claim make of the status of a row.
Retired(l) ==
    IF ~Scheduled(l) THEN outbox[l].status
    ELSE IF link[l].kind = "reset"
    THEN IF ~Usable(l) THEN "cancelled"
         ELSE IF outbox[l].attempts >= MaxAttempts /\ ~Held(l) THEN "failed"
         ELSE "scheduled"
    ELSE IF Held(l) THEN "scheduled"
    ELSE IF UserOf(l).verified THEN "cancelled"
    ELSE IF link[l].expired \/ outbox[l].attempts >= MaxAttempts THEN "failed"
    ELSE "scheduled"

AfterRetire ==
    [l \in Links |-> IF Retired(l) = outbox[l].status THEN outbox[l]
                     ELSE [outbox[l] EXCEPT !.status = Retired(l), !.lease = "none"]]

Claimable(l) ==
    /\ Retired(l) = "scheduled"
    /\ outbox[l].attempts < MaxAttempts
    /\ ~Held(l)
    /\ outbox[l].due
    /\ Usable(l)
    /\ link[l].kind = "verification" => ~UserOf(l).verified

\* Rows that have ended are retired, and one that is due is leased.  (The
\* statements commit one by one; the last one tests again what they tested.)
Claim(w) ==
    /\ worker[w] = AtRest
    /\ \E l \in Links :
        /\ Claimable(l)
        /\ outbox' = [AfterRetire EXCEPT ![l].attempts = @ + 1, ![l].lease = "held"]
        /\ worker' = [worker EXCEPT ![w] =
                        [at |-> "claimed", row |-> l, attempt |-> outbox[l].attempts + 1]]
    /\ UNCHANGED <<serverVars, link>>

ClaimNothing(w) ==
    /\ worker[w] = AtRest
    /\ ~\E l \in Links : Claimable(l)
    /\ outbox' = AfterRetire
    /\ UNCHANGED <<serverVars, link, worker>>

\* The lease of worker w is the last one given out, and not withdrawn.
HasLease(w) ==
    LET l == worker[w].row IN
    /\ Scheduled(l)
    /\ outbox[l].lease # "none"
    /\ outbox[l].attempts = worker[w].attempt

\* PasswordResetReady: a reset is looked at once more before it is sent; the
\* worker goes on without acknowledging one that has lapsed.
Check(w) ==
    LET l == worker[w].row IN
    /\ worker[w].at = "claimed"
    /\ link[l].kind = "reset"
    /\ worker' = [worker EXCEPT ![w] = IF HasLease(w) /\ Held(l) /\ Usable(l)
                                       THEN [@ EXCEPT !.at = "ready"] ELSE AtRest]
    /\ UNCHANGED <<serverVars, mailVars>>

\* The mail is handed over, and the server may still report an error.
Send(w) ==
    /\ \/ worker[w].at = "ready"
       \/ worker[w].at = "claimed" /\ link[worker[w].row].kind = "verification"
    /\ \E outcome \in {"sent", "error"} : worker' = [worker EXCEPT ![w].at = outcome]
    /\ UNCHANGED <<serverVars, mailVars>>

\* An error makes the row wait, or fail after its last attempt.
Acknowledged(row, at) ==
    [row EXCEPT !.lease = "none", !.due = FALSE,
                !.status = IF at = "sent" THEN "sent"
                           ELSE IF row.attempts >= MaxAttempts THEN "failed" ELSE "scheduled"]

\* The outcome is written under the lease; without it, nowhere.
Finish(w) ==
    LET l == worker[w].row IN
    /\ worker[w].at \in {"sent", "error"}
    /\ outbox' = IF HasLease(w)
                 THEN [outbox EXCEPT ![l] = Acknowledged(@, worker[w].at)] ELSE outbox
    /\ worker' = [worker EXCEPT ![w] = AtRest]
    /\ UNCHANGED <<serverVars, link>>

\* The worker stops or a query fails: the lease is left to itself.
Drop(w) ==
    /\ worker[w].at \notin {"rest", "away"}
    /\ worker' = [worker EXCEPT ![w] = AtRest]
    /\ UNCHANGED <<serverVars, mailVars>>

\* Time: next_attempt_at is reached, and the 90 seconds of a lease pass.
BecomesDue(l) ==
    /\ Scheduled(l) /\ ~outbox[l].due
    /\ outbox' = [outbox EXCEPT ![l].due = TRUE]
    /\ UNCHANGED <<serverVars, link, worker>>

Lapse(l) ==
    /\ Held(l)
    /\ outbox' = [outbox EXCEPT ![l].lease = "lapsed"]
    /\ UNCHANGED <<serverVars, link, worker>>

TimePasses == \E l \in Links : BecomesDue(l) \/ Lapse(l)

Deliver(w) == Claim(w) \/ ClaimNothing(w) \/ Check(w) \/ Send(w) \/ Finish(w)

MailsNext ==
    \/ AccountsNext /\ UNCHANGED worker
    \/ \E w \in Workers : Deliver(w) \/ Drop(w)
    \/ TimePasses

\* The workers run and time passes.
MailsFairness ==
    /\ \A w \in Workers : WF_vars(Deliver(w))
    /\ WF_vars(TimePasses)

MailsSpec == MailsInit /\ [][MailsNext]_vars /\ MailsFairness

-----------------------------------------------------------------------------
(* Properties. *)

\* The outbox and the links agree, whichever transactions write them and
\* however they interleave with the worker: a mail is scheduled only for a link
\* that is current, and a link that can be used has its mail scheduled or sent,
\* unless every attempt was made or the address is confirmed already.
MailMatchesLink ==
    \A l \in Links :
        /\ Scheduled(l) => link[l].state = "current" \/ link[l].expired
        /\ Usable(l) /\ link[l].user # None =>
             \/ outbox[l].status \in {"scheduled", "sent"}
             \/ outbox[l].status = "failed" /\ outbox[l].attempts = MaxAttempts
             \/ link[l].kind = "verification" /\ UserOf(l).verified

\* Every scheduled mail is sent, fails or is cancelled in the end, through
\* stopped workers, errors and lapsed leases.
EveryMailSettles ==
    \A l \in Links :
        (\E w \in Workers : worker[w] # Away) /\ Scheduled(l) ~> ~Scheduled(l)

=============================================================================
