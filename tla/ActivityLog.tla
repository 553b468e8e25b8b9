---------------------------- MODULE ActivityLog ----------------------------
(***************************************************************************)
(* The activity log client of the backend (clients/activitylogger): the    *)
(* callback of a committed operation hands its event to a bounded queue,   *)
(* from which a few workers send it to the activity log service.  Delivery *)
(* is best effort: a full queue, a failed call and the shutdown drop       *)
(* events, and the process counts what it drops.  Composes Operations; the *)
(* event of an operation is named by its request.                          *)
(***************************************************************************)
EXTENDS Operations, Sequences

CONSTANTS
    Senders,        \* worker goroutines (eventWorkers, 4)
    Capacity        \* eventCapacity (256)

ASSUME CapacityPositive == Capacity \in Nat \ {0}

VARIABLES
    client,         \* "nil", "open", "closing" or "done"
    logging,        \* operations inside LogEvent, before its lock
    pending,        \* the queue
    sender,         \* the event each worker sends; None, or Exited
    dropped,        \* history: events that were counted as dropped
    confirmed,      \* history: events the service has acknowledged
    recorded,       \* the log of the service
    vanished        \* history: events that died with the process

queueVars == <<client, logging, pending, sender>>
fateVars == <<dropped, confirmed, recorded, vanished>>
logVars == <<queueVars, fateVars>>
activityVars == <<opVars, logVars>>

Exited == "exited"

ASSUME ExitedIsNoRequest == Exited \notin Requests

\* New fails for an unusable setting: the backend then runs without a client.
LogInit ==
    /\ OpInit
    /\ client \in {"nil", "open"}
    /\ logging = {}
    /\ pending = <<>>
    /\ sender = [w \in Senders |-> None]
    /\ dropped = {} /\ confirmed = {} /\ recorded = {} /\ vanished = {}

Queued == {pending[i] : i \in DOMAIN pending}
Sending == {sender[w] : w \in Senders} \ {None, Exited}

Drops(events) == dropped' = dropped \cup events
Keeps == UNCHANGED <<confirmed, recorded, vanished>>

\* LogEvent returns at once: there is no client, it is stopped, or the event is
\* too large.
LogNothing(r) ==
    /\ r \notin logging
    /\ Notify(r)
    /\ \/ client = "nil" /\ UNCHANGED dropped
       \/ client # "nil" /\ Drops({r})
    /\ Keeps
    /\ UNCHANGED queueVars

\* The event is built while the client is open; the lock is not held yet.
BuildEvent(r) ==
    /\ req[r].at = "committed"
    /\ client = "open"
    /\ logging' = logging \cup {r}
    /\ UNCHANGED <<opVars, client, pending, sender, fateVars>>

\* Mutant: the client is not looked at again under the lock.
AdmitUnchecked(r) ==
    /\ r \in logging
    /\ Notify(r)
    /\ logging' = logging \ {r}
    /\ \/ Len(pending) < Capacity /\ pending' = Append(pending, r) /\ UNCHANGED dropped
       \/ Len(pending) >= Capacity /\ Drops({r}) /\ UNCHANGED pending
    /\ Keeps
    /\ UNCHANGED <<client, sender>>

\* Under the lock the event is admitted, unless the client is stopped by now or
\* the queue is full.
Admit(r) ==
    /\ r \in logging
    /\ Notify(r)
    /\ logging' = logging \ {r}
    /\ \/ client = "open" /\ Len(pending) < Capacity
          /\ pending' = Append(pending, r) /\ UNCHANGED dropped
       \/ (client # "open" \/ Len(pending) >= Capacity)
          /\ Drops({r}) /\ UNCHANGED pending
    /\ Keeps
    /\ UNCHANGED <<client, sender>>

-----------------------------------------------------------------------------
(* runEvents and sendEvent. *)

\* A worker takes an event; one that it takes when the client is stopped is
\* dropped, and the worker ends.
Take(w) ==
    /\ sender[w] = None
    /\ pending # <<>>
    /\ pending' = Tail(pending)
    /\ \/ client = "open" /\ sender' = [sender EXCEPT ![w] = Head(pending)] /\ UNCHANGED dropped
       \/ client # "open" /\ sender' = [sender EXCEPT ![w] = Exited] /\ Drops({Head(pending)})
    /\ Keeps
    /\ UNCHANGED <<opVars, client, logging>>

\* Mutant: a worker waits for events only.
ExitAtEvent(w) == FALSE /\ UNCHANGED activityVars

\* A worker sees that the client is stopped.
Exit(w) ==
    /\ sender[w] = None
    /\ client = "closing"
    /\ sender' = [sender EXCEPT ![w] = Exited]
    /\ UNCHANGED <<opVars, client, logging, pending, fateVars>>

\* The call reaches the service, which may then be too late to say so.
Record(w) ==
    /\ sender[w] \in Requests \ recorded
    /\ recorded' = recorded \cup {sender[w]}
    /\ UNCHANGED <<opVars, queueVars, dropped, confirmed, vanished>>

\* The call succeeds.
Confirm(w) ==
    /\ sender[w] \in recorded
    /\ confirmed' = confirmed \cup {sender[w]}
    /\ sender' = [sender EXCEPT ![w] = None]
    /\ UNCHANGED <<opVars, client, logging, pending, dropped, recorded, vanished>>

\* It fails, takes too long, or is cancelled.
SendFails(w) ==
    /\ sender[w] \in Requests
    /\ Drops({sender[w]})
    /\ sender' = [sender EXCEPT ![w] = None]
    /\ Keeps
    /\ UNCHANGED <<opVars, client, logging, pending>>

-----------------------------------------------------------------------------
(* Close.  main calls it when the HTTP server has stopped; the client itself *)
(* does not rely on that.                                                    *)

Close ==
    /\ client = "open"
    /\ client' = "closing"
    /\ UNCHANGED <<opVars, logging, pending, sender, fateVars>>

\* The workers have ended: the queue is emptied, under the lock.
Drain ==
    /\ client = "closing"
    /\ \A w \in Senders : sender[w] = Exited
    /\ client' = "done"
    /\ pending' = <<>>
    /\ Drops(Queued)
    /\ Keeps
    /\ UNCHANGED <<opVars, logging, sender>>

\* The process dies, or main exits because requests have not ended in 5 s; the
\* next one starts with a client of its own, under the same settings.
Restart ==
    /\ Crash
    /\ client' = IF client = "nil" THEN "nil" ELSE "open"
    /\ vanished' = vanished \cup Queued \cup Sending
    /\ logging' = {}
    /\ pending' = <<>>
    /\ sender' = [w \in Senders |-> None]
    /\ UNCHANGED <<dropped, confirmed, recorded>>

-----------------------------------------------------------------------------
ServeAndLog(r) ==
    \/ Process(r) /\ UNCHANGED logVars
    \/ LogNothing(r) \/ BuildEvent(r) \/ Admit(r)

Work(w) == Take(w) \/ Exit(w) \/ Confirm(w) \/ SendFails(w)

LogNext ==
    \/ \E r \in Requests, c \in Commands, k \in Keys \cup {None} :
         Send(r, c, k) /\ UNCHANGED logVars
    \/ \E r \in Requests : ServeAndLog(r)
    \/ \E w \in Senders : Work(w) \/ Record(w)
    \/ Close \/ Drain \/ Restart

\* Goroutines run, a call of the service ends with its timeout at the latest,
\* and the users row is a lock that is passed on.
LogFairness ==
    /\ \A r \in Requests : SF_activityVars(ServeAndLog(r))
    /\ \A w \in Senders : WF_activityVars(Work(w))
    /\ WF_activityVars(Drain)

LogSpec == LogInit /\ [][LogNext]_activityVars /\ LogFairness

-----------------------------------------------------------------------------
(* Properties. *)

\* What may become of an event.
Fates == <<Queued, Sending, dropped, confirmed, vanished>>

\* Events are accounted for: the event of a callback that ran is queued, being
\* sent, acknowledged, counted as dropped, or went down with its process, and
\* only one of these; nothing is in the queue once it is drained (queue.go: "no
\* event can enter after this drain").  The service's log holds nothing that did
\* not happen, and what it acknowledged.
EventsAccounted ==
    /\ client # "nil" => notified \subseteq Queued \cup Sending \cup dropped \cup confirmed \cup vanished
    /\ Cardinality(Queued) = Len(pending)
    /\ \A i, j \in DOMAIN Fates : i # j => Fates[i] \cap Fates[j] = {}
    /\ client = "done" => pending = <<>>
    /\ confirmed \subseteq recorded /\ recorded \subseteq notified

\* Close ends: the workers stop, whatever they are doing and however long the
\* service takes.
ClientCloses == client = "closing" ~> client # "closing"

=============================================================================
