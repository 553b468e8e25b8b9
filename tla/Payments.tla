------------------------------ MODULE Payments ------------------------------
(***************************************************************************)
(* The one-off payment that makes an account premium.  A client asks for a *)
(* payment (create), the provider keeps it and settles it, and what was    *)
(* settled reaches the payments and users tables twice over: by the        *)
(* provider's webhook, delivered again until it is answered with 200, and  *)
(* by the client that asks the server to look (sync).  Each of the three   *)
(* handlers reads, waits for the provider and writes in separate steps, so *)
(* that what it read may be old when it writes.                            *)
(*                                                                         *)
(* The provider is external: it returns the same payment for the same      *)
(* idempotency key, settles a payment once, and reports the truth about a  *)
(* settled one.                                                            *)
(***************************************************************************)
EXTENDS Naturals, Sequences

CONSTANTS
    Users,          \* accounts
    Keys,           \* Idempotency-Keys the clients use
    Creates,        \* POST /payments/create requests, each sent once
    None            \* nothing

VARIABLES
    provider,       \* the payments of the provider: their status and payer
    rows,           \* the payments table
    saved,          \* the order its rows were inserted in
    premium,        \* the users with is_premium
    create,         \* where each create request is
    hook,           \* where the webhook of each payment is
    sync            \* the sync request of each user

payVars == <<provider, rows, saved, premium, create, hook, sync>>

\* The key given to the provider: the user's id and key, hashed.  It stands for
\* the id of the payment the provider keeps under it.
ProviderKey(u, k) == <<u, k>>

PaymentIds == {ProviderKey(u, k) : u \in Users, k \in Keys}

Terminal == {"succeeded", "canceled"}
Statuses == {"none", "pending"} \cup Terminal
NoPayment == [status |-> "none", user |-> None]

Unsent(u, k) == [at |-> "unsent", user |-> u, key |-> k, reply |-> "none"]
Unused == [at |-> "unused", user |-> None, key |-> None, reply |-> "none"]
Idle == [at |-> "idle", todo |-> {}]

PayInit ==
    /\ provider = [p \in PaymentIds |-> NoPayment]
    /\ rows = [p \in PaymentIds |-> NoPayment]
    /\ saved = <<>>
    /\ premium = {}
    /\ create \in [Creates -> {Unsent(u, k) : u \in Users, k \in Keys} \cup {Unused}]
    /\ hook = [p \in PaymentIds |-> "none"]
    /\ sync = [u \in Users |-> Idle]

-----------------------------------------------------------------------------
(* The provider: external. *)

\* A client that saw the link of payment p pays.
Pay(p) ==
    /\ provider[p].status = "pending"
    /\ \E c \in Creates : /\ create[c].at = "linked"
                          /\ ProviderKey(create[c].user, create[c].key) = p
    /\ provider' = [provider EXCEPT ![p].status = "succeeded"]
    /\ hook' = [hook EXCEPT ![p] = "due"]
    /\ UNCHANGED <<rows, saved, premium, create, sync>>

\* The payment is declined, or its time passes.
Decline(p) ==
    /\ provider[p].status = "pending"
    /\ provider' = [provider EXCEPT ![p].status = "canceled"]
    /\ hook' = [hook EXCEPT ![p] = "due"]
    /\ UNCHANGED <<rows, saved, premium, create, sync>>

-----------------------------------------------------------------------------
(* POST /payments/create. *)

Send(c) ==
    /\ create[c].at = "unsent"
    /\ create' = [create EXCEPT ![c].at = "sent"]
    /\ UNCHANGED <<provider, rows, saved, premium, hook, sync>>

\* The provider opens the payment of the key, or finds the one it has, and
\* answers with its first status or with the present one.  The answer may be
\* lost: the request then fails, with the payment made and no row for it.
OpenPayment(c) ==
    LET p == ProviderKey(create[c].user, create[c].key)
        Opened == IF provider[p].status = "none"
                  THEN [status |-> "pending", user |-> create[c].user]
                  ELSE provider[p] IN
    /\ create[c].at = "sent"
    /\ provider' = [provider EXCEPT ![p] = Opened]
    /\ \/ \E reply \in {"pending", Opened.status} :
            create' = [create EXCEPT ![c].at = "opened", ![c].reply = reply]
       \/ create' = [create EXCEPT ![c].at = "failed"]
    /\ UNCHANGED <<rows, saved, premium, hook, sync>>

\* Mutant: the upsert overwrites whatever status the row has.
Overwritten(row, reply) == reply

\* What the upsert makes of the status of a row that is there: a terminal one
\* stays.
Upserted(row, reply) == IF row.status \in Terminal THEN row.status ELSE reply

\* CreatePayment: the row is inserted, or takes the status of the reply; a row
\* of another user is refused.  The link is answered only while the payment
\* waits for its payer.
CreatePayment(c) ==
    LET p == ProviderKey(create[c].user, create[c].key)
        u == create[c].user
        reply == create[c].reply IN
    /\ create[c].at = "opened"
    /\ IF rows[p].status = "none"
       THEN /\ rows' = [rows EXCEPT ![p] = [status |-> reply, user |-> u]]
            /\ saved' = Append(saved, p)
       ELSE /\ rows' = IF rows[p].user = u
                       THEN [rows EXCEPT ![p].status = Upserted(rows[p], reply)] ELSE rows
            /\ UNCHANGED saved
    /\ create' = [create EXCEPT ![c].at =
                    IF rows[p].user \in {None, u} /\ reply = "pending" THEN "linked" ELSE "failed"]
    /\ UNCHANGED <<provider, premium, hook, sync>>

\* The provider is not reached, or the row is not written.
CreateFails(c) ==
    /\ create[c].at \in {"sent", "opened"}
    /\ create' = [create EXCEPT ![c].at = "failed"]
    /\ UNCHANGED <<provider, rows, saved, premium, hook, sync>>

-----------------------------------------------------------------------------
(* The two transactions of the payments table that settle a row. *)

\* The rows CompletePaymentAndGrantPremium and UpdatePaymentStatus match.  (They
\* match waiting_for_capture too, which no payment captured at once has.)
Completable(p) == rows[p].status \in {"pending", "succeeded"}
Cancelable(p) == rows[p].status \in {"pending", "canceled"}

\* Mutant: the payment is completed without granting premium.
CompleteOnly(p) ==
    /\ Completable(p)
    /\ rows' = [rows EXCEPT ![p].status = "succeeded"]
    /\ UNCHANGED premium

CompletePaymentAndGrantPremium(p) ==
    /\ Completable(p)
    /\ rows' = [rows EXCEPT ![p].status = "succeeded"]
    /\ premium' = premium \cup {rows[p].user}

UpdatePaymentStatus(p) ==
    /\ Cancelable(p)
    /\ rows' = [rows EXCEPT ![p].status = "canceled"]
    /\ UNCHANGED premium

\* Payment p is settled the way the provider said.
Settle(p, status) ==
    \/ status = "succeeded" /\ CompletePaymentAndGrantPremium(p)
    \/ status = "canceled" /\ UpdatePaymentStatus(p)

Settleable(p, status) == IF status = "succeeded" THEN Completable(p) ELSE Cancelable(p)

-----------------------------------------------------------------------------
(* The webhook of the provider: its event is the settled status.  Answered *)
(* with anything but 200, it is delivered again.                           *)

\* FindPayment confirms the event.  (When the provider cannot be asked or does
\* not know the payment the answer is 502 or 400, and the webhook stays due.)
Verify(p) ==
    /\ hook[p] = "due"
    /\ provider[p].status \in Terminal
    /\ hook' = [hook EXCEPT ![p] = "verified"]
    /\ UNCHANGED <<provider, rows, saved, premium, create, sync>>

Apply(p) ==
    /\ hook[p] = "verified"
    /\ Settle(p, provider[p].status)
    /\ hook' = [hook EXCEPT ![p] = "answered"]
    /\ UNCHANGED <<provider, saved, create, sync>>

\* The conditional UPDATE finds no row in a state it may leave.
Miss(p) ==
    /\ hook[p] = "verified"
    /\ ~Settleable(p, provider[p].status)
    /\ hook' = [hook EXCEPT ![p] = "missed"]
    /\ UNCHANGED <<provider, rows, saved, premium, create, sync>>

\* Mutant: a row that is not there, or not settled yet, is taken for a conflict.
AnyMiss(p) == rows[p].status # provider[p].status

\* paymentTransitionError looks again: the row has settled the other way.
Conflicts(p) == rows[p].status \in Terminal /\ rows[p].status # provider[p].status

\* A conflict is acknowledged with 200; a row that is not there, or has come
\* since, is answered with 500.
Classify(p) ==
    /\ hook[p] = "missed"
    /\ hook' = [hook EXCEPT ![p] = IF Conflicts(p) THEN "answered" ELSE "due"]
    /\ UNCHANGED <<provider, rows, saved, premium, create, sync>>

\* The second look fails or the process stops: the event comes again.  (When
\* that happens to the first UPDATE, the event that comes again is verified to
\* the same outcome: it is the step that is not taken yet.)
HookFails(p) ==
    /\ hook[p] = "missed"
    /\ hook' = [hook EXCEPT ![p] = "due"]
    /\ UNCHANGED <<provider, rows, saved, premium, create, sync>>

\* The provider delivers an event again although it was answered.
Redeliver(p) ==
    /\ hook[p] = "answered"
    /\ hook' = [hook EXCEPT ![p] = "due"]
    /\ UNCHANGED <<provider, rows, saved, premium, create, sync>>

-----------------------------------------------------------------------------
(* POST /payments/sync. *)

\* A user who is premium already is told so; otherwise the payments are looked
\* up in a query of its own.
SyncUser(u) ==
    /\ sync[u].at = "idle"
    /\ u \notin premium
    /\ sync' = [sync EXCEPT ![u].at = "free"]
    /\ UNCHANGED <<provider, rows, saved, premium, create, hook>>

\* GetPendingPayments: the user's pending rows, which are gone through newest
\* first.
PendingPayments(u) == {p \in PaymentIds : rows[p].user = u /\ rows[p].status = "pending"}

SyncList(u) ==
    /\ sync[u].at = "free"
    /\ sync' = [sync EXCEPT ![u] = IF PendingPayments(u) = {} THEN Idle
                                   ELSE [at |-> "find", todo |-> PendingPayments(u)]]
    /\ UNCHANGED <<provider, rows, saved, premium, create, hook>>

NewerRow(p, q) == \E i, j \in DOMAIN saved : i > j /\ saved[i] = p /\ saved[j] = q

\* The payment that the request is about now.
Now(u, p) == p \in sync[u].todo /\ ~\E q \in sync[u].todo : NewerRow(q, p)

\* The request goes on without payment p, or ends.
SyncNext(u, p) ==
    sync' = [sync EXCEPT ![u] = IF sync[u].todo = {p} THEN Idle
                                ELSE [at |-> "find", todo |-> sync[u].todo \ {p}]]

\* Mutant: every payment the provider knows counts as paid.
FindAny(u, p) ==
    /\ sync[u].at = "find"
    /\ Now(u, p)
    /\ sync' = [sync EXCEPT ![u].at = "succeeded"]
    /\ UNCHANGED <<provider, rows, saved, premium, create, hook>>

\* FindPayment: a payment that is open or unknown is passed over.
SyncFind(u, p) ==
    /\ sync[u].at = "find"
    /\ Now(u, p)
    /\ IF provider[p].status \in Terminal
       THEN sync' = [sync EXCEPT ![u].at = provider[p].status]
       ELSE SyncNext(u, p)
    /\ UNCHANGED <<provider, rows, saved, premium, create, hook>>

\* What was found is written: a success ends the request, a cancellation leaves
\* the other payments to do.
SyncSettle(u, p) ==
    /\ sync[u].at \in Terminal
    /\ Now(u, p)
    /\ Settle(p, sync[u].at)
    /\ IF sync[u].at = "succeeded" THEN sync' = [sync EXCEPT ![u] = Idle]
       ELSE SyncNext(u, p)
    /\ UNCHANGED <<provider, saved, create, hook>>

\* The provider is not reached, a query fails, or a row has settled the other
\* way: the request ends, with the payments it has not come to unsettled.
SyncFails(u) ==
    /\ sync[u].at # "idle"
    /\ sync' = [sync EXCEPT ![u] = Idle]
    /\ UNCHANGED <<provider, rows, saved, premium, create, hook>>

-----------------------------------------------------------------------------
(* Who takes these steps. *)

Create ==
    \E c \in Creates :
        \/ Send(c)
        \/ OpenPayment(c)
        \/ CreatePayment(c)
        \/ CreateFails(c)

Webhook(p) == Verify(p) \/ Apply(p) \/ Miss(p) \/ Classify(p) \/ HookFails(p) \/ Redeliver(p)

Sync(u) ==
    \/ SyncUser(u) \/ SyncList(u) \/ SyncFails(u)
    \/ \E p \in PaymentIds : SyncFind(u, p) \/ SyncSettle(u, p)

PayNext ==
    \/ \E p \in PaymentIds : Pay(p) \/ Decline(p) \/ Webhook(p)
    \/ Create
    \/ \E u \in Users : Sync(u)

PaySpec == PayInit /\ [][PayNext]_payVars

-----------------------------------------------------------------------------
(* Properties. *)

PayTypeOK ==
    /\ provider \in [PaymentIds -> [status : Statuses, user : Users \cup {None}]]
    /\ rows \in [PaymentIds -> [status : Statuses, user : Users \cup {None}]]
    /\ saved \in Seq(PaymentIds)
    /\ premium \subseteq Users
    /\ create \in [Creates -> [at : {"unused", "unsent", "sent", "opened", "linked", "failed"},
                               user : Users \cup {None}, key : Keys \cup {None},
                               reply : Statuses]]
    /\ hook \in [PaymentIds -> {"none", "due", "verified", "missed", "answered"}]
    /\ sync \in [Users -> [at : {"idle", "free", "find"} \cup Terminal,
                           todo : SUBSET PaymentIds]]

\* The tables never say more than the provider knows: a settled row has the
\* provider's outcome, and its user is the one who asked for the payment, late
\* replies, webhooks ahead of the row and repeated events included
\* (payment_security_integration_test.go: opposing terminal transitions remain
\* consistent).
RowsFollowProvider ==
    \A p \in PaymentIds :
        /\ rows[p].status \in Terminal => rows[p].status = provider[p].status
        /\ rows[p].status # "none" => rows[p].user = provider[p].user

\* A row that has settled stays so: a create request that repeats a key, or
\* whose answer comes late, does not reopen it.
SettledForGood ==
    [][\A p \in PaymentIds :
        rows[p].status \in Terminal => rows'[p].status = rows[p].status]_payVars

\* What the provider has settled is settled in the table: an event that came
\* before its row is not acknowledged, and waits for it (payment.go: a row
\* created after the conditional UPDATE still needs processing).
RowsCatchUp ==
    \A p \in PaymentIds :
        provider[p].status \in Terminal /\ rows[p].status # "none"
            ~> rows[p].status \in Terminal

\* The promise of payments, with the success of a payment as its payment.
Ledger ==
    INSTANCE PremiumLedger WITH
        Payments <- PaymentIds,
        paidBy <- [p \in PaymentIds |-> IF provider[p].status = "succeeded"
                                        THEN provider[p].user ELSE None]

\* Whoever pays becomes premium, nobody else does, and nobody loses it
\* (BUSINESS-LOGIC.md on Premium; create.go, "навсегда").
KeepsLedger == Ledger!Spec

=============================================================================
