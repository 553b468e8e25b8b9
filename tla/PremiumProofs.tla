--------------------------- MODULE PremiumProofs ---------------------------
(***************************************************************************)
(* The safety of payments and categories, proved for any number of users,  *)
(* keys and requests; and that payments implement PremiumLedger.           *)
(*                                                                         *)
(* What a handler writes was read in an earlier step.  The strengthening   *)
(* says of everything that is held between two steps (a reply on its way   *)
(* to its row, a verified webhook, an outcome that a sync has found) that  *)
(* it is still what the provider says, because an outcome is final there.  *)
(***************************************************************************)
EXTENDS Categories, TLAPS, FiniteSetTheorems

CreateRec == [at : {"unused", "unsent", "sent", "opened", "linked", "failed"},
              user : Users \cup {None}, key : Keys \cup {None}, reply : Statuses]

P(c) == ProviderKey(create[c].user, create[c].key)

\* A request that was sent has a user and a key.
CreatesAsked ==
    \A c \in Creates : create[c].at # "unused" => create[c].user \in Users /\ create[c].key \in Keys

\* The provider's payments belong to those who asked for them, and a reply that
\* is not written yet is an earlier status of its payment or the present one.
RepliesTrue ==
    /\ \A u \in Users, k \in Keys :
         LET payment == provider[ProviderKey(u, k)] IN
         payment.status # "none" => payment.user = u
    /\ \A p \in PaymentIds : provider[p].status = "none" => provider[p] = NoPayment
    /\ \A c \in Creates : create[c].at = "opened" =>
         /\ provider[P(c)].status # "none"
         /\ create[c].reply \in {"pending", provider[P(c)].status}

\* A webhook that was verified is about a final outcome.
HooksTrue == \A p \in PaymentIds : hook[p] \in {"verified", "missed"} => provider[p].status \in Terminal

\* Rows are the payments in the order of insertion, and known to the provider.
RowsSaved ==
    \A p \in PaymentIds :
        /\ rows[p].status # "none" => /\ \E i \in DOMAIN saved : saved[i] = p
                                      /\ provider[p].status # "none"
        /\ \A i \in DOMAIN saved : saved[i] = p => rows[p].status # "none"

\* A sync goes through rows of its user, and what it has found is true of the
\* one it is about.
SyncsTrue ==
    \A u \in Users :
        /\ \A p \in sync[u].todo : rows[p].status # "none"
        /\ \A p \in PaymentIds : sync[u].at \in Terminal /\ Now(u, p) => provider[p].status = sync[u].at

PayInv ==
    /\ PayTypeOK
    /\ CreatesAsked
    /\ RepliesTrue
    /\ HooksTrue
    /\ RowsSaved
    /\ SyncsTrue
    /\ RowsFollowProvider

LEMMA KeyIsPayment == \A u \in Users, k \in Keys : ProviderKey(u, k) \in PaymentIds
  BY DEF PaymentIds

LEMMA PayersAreUsers ==
    ASSUME PayInv, NEW p \in PaymentIds, provider[p].status # "none"
    PROVE  provider[p].user \in Users
  <1>1. PICK u \in Users, k \in Keys : p = ProviderKey(u, k)
    BY DEF PaymentIds
  <1> QED BY <1>1 DEF PayInv, RepliesTrue

\* The request's payment, once it has a user and a key.
LEMMA RequestPayment ==
    ASSUME PayInv, NEW c \in Creates, create[c].at # "unused"
    PROVE  P(c) \in PaymentIds /\ create[c].user \in Users
  BY KeyIsPayment DEF PayInv, CreatesAsked, P

LEMMA PayInitHolds == PayInit => PayInv
  <1> SUFFICES ASSUME PayInit PROVE PayInv
    OBVIOUS
  <1>1. \A c \in Creates :
          /\ create[c] \in CreateRec
          /\ create[c].at \in {"unused", "unsent"}
          /\ create[c].at # "unused" => create[c].user \in Users /\ create[c].key \in Keys
    <2>1. /\ Unused \in CreateRec
          /\ Unused.at = "unused"
      BY DEF Unused, Statuses, CreateRec
    <2>2. \A u \in Users, k \in Keys :
            /\ Unsent(u, k) \in CreateRec
            /\ Unsent(u, k).at = "unsent" /\ Unsent(u, k).user = u /\ Unsent(u, k).key = k
      BY DEF Unsent, Statuses, CreateRec
    <2> QED BY <2>1, <2>2 DEF PayInit
  <1>2. /\ NoPayment \in [status : Statuses, user : Users \cup {None}]
        /\ NoPayment.status = "none"
    BY DEF NoPayment, Statuses
  <1>3. /\ Idle \in [at : {"idle", "free", "find"} \cup Terminal, todo : SUBSET PaymentIds]
        /\ Idle.todo = {} /\ Idle.at = "idle"
    BY DEF Idle
  <1>4. PayTypeOK
    BY <1>1, <1>2, <1>3 DEF PayInit, PayTypeOK, CreateRec
  <1>5. CreatesAsked /\ RepliesTrue /\ HooksTrue
    BY <1>1, <1>2, KeyIsPayment DEF PayInit, CreatesAsked, RepliesTrue, HooksTrue
  <1>6. RowsSaved /\ SyncsTrue /\ RowsFollowProvider
    BY <1>2, <1>3 DEF PayInit, RowsSaved, SyncsTrue, RowsFollowProvider, Terminal
  <1> QED BY <1>4, <1>5, <1>6 DEF PayInv

-----------------------------------------------------------------------------
(* Steps of the provider. *)

\* A payment that was pending is settled.
LEMMA ProviderStep ==
    ASSUME PayInv, NEW p \in PaymentIds, NEW s \in Terminal,
           provider[p].status = "pending",
           provider' = [provider EXCEPT ![p].status = s],
           hook' = [hook EXCEPT ![p] = "due"],
           UNCHANGED <<rows, saved, premium, create, sync>>
    PROVE  PayInv'
  <1>1. /\ provider' \in [PaymentIds -> [status : Statuses, user : Users \cup {None}]]
        /\ \A q \in PaymentIds : provider'[q].user = provider[q].user
        /\ \A q \in PaymentIds : provider'[q].status = IF q = p THEN s ELSE provider[q].status
        /\ \A q \in PaymentIds : q # p => provider'[q] = provider[q]
    BY DEF PayInv, PayTypeOK, Statuses
  <1>2. s # "none" /\ "pending" \notin Terminal
    BY DEF Terminal
  <1>3. PayTypeOK' /\ CreatesAsked' /\ RowsSaved'
    BY <1>1, <1>2 DEF PayInv, PayTypeOK, CreatesAsked, RowsSaved
  <1>4. RepliesTrue'
    <2>1. \A c \in Creates : create[c].at = "opened" => P(c) \in PaymentIds /\ P(c)' = P(c)
      BY RequestPayment DEF P
    <2> QED BY <1>1, <1>2, <2>1, KeyIsPayment DEF PayInv, RepliesTrue
  <1>5. HooksTrue'
    BY <1>1 DEF PayInv, PayTypeOK, HooksTrue
  <1>6. SyncsTrue'
    BY <1>1, <1>2 DEF PayInv, SyncsTrue, Now, NewerRow
  <1>7. RowsFollowProvider'
    BY <1>1, <1>2 DEF PayInv, RowsFollowProvider
  <1> QED BY <1>3, <1>4, <1>5, <1>6, <1>7 DEF PayInv

-----------------------------------------------------------------------------
(* Steps of create requests. *)

\* A request that goes on without writing anything.
LEMMA CreateMoves ==
    ASSUME PayInv, NEW c \in Creates, create[c].at # "unused",
           NEW at \in {"sent", "failed"},
           create' = [create EXCEPT ![c].at = at],
           UNCHANGED <<provider, rows, saved, premium, hook, sync>>
    PROVE  PayInv'
  <1>1. /\ create' \in [Creates -> CreateRec]
        /\ create'[c].at = at
        /\ create'[c].user = create[c].user /\ create'[c].key = create[c].key
        /\ \A d \in Creates \ {c} : create'[d] = create[d]
    BY DEF PayInv, PayTypeOK, CreateRec
  <1>2. PayTypeOK' /\ CreatesAsked'
    BY <1>1 DEF PayInv, PayTypeOK, CreatesAsked, CreateRec
  <1>3. RepliesTrue'
    BY <1>1 DEF PayInv, RepliesTrue, P
  <1>4. HooksTrue' /\ RowsSaved' /\ SyncsTrue' /\ RowsFollowProvider'
    BY DEF PayInv, HooksTrue, RowsSaved, SyncsTrue, Now, NewerRow, RowsFollowProvider
  <1> QED BY <1>2, <1>3, <1>4 DEF PayInv

LEMMA OpenPaymentStep ==
    ASSUME PayInv, NEW c \in Creates, OpenPayment(c)
    PROVE  PayInv'
  <1> DEFINE p == P(c)
             Opened == IF provider[p].status = "none"
                       THEN [status |-> "pending", user |-> create[c].user] ELSE provider[p]
  <1>1. /\ create[c].at = "sent"
        /\ provider' = [provider EXCEPT ![p] = Opened]
        /\ \/ \E reply \in {"pending", Opened.status} :
                create' = [create EXCEPT ![c].at = "opened", ![c].reply = reply]
           \/ create' = [create EXCEPT ![c].at = "failed"]
        /\ UNCHANGED <<rows, saved, premium, hook, sync>>
    BY DEF OpenPayment, P
  <1>2. p \in PaymentIds /\ create[c].user \in Users /\ create[c].key \in Keys
    BY <1>1, RequestPayment DEF PayInv, CreatesAsked
  <1>3. p = ProviderKey(create[c].user, create[c].key)
    BY DEF P
  <1> HIDE DEF p
  <1>4. /\ Opened \in [status : Statuses, user : Users \cup {None}]
        /\ Opened.status \in Statuses \ {"none"} /\ Opened.user = create[c].user
        /\ provider[p].status # "none" => Opened = provider[p]
        /\ provider[p].status = "none" => Opened.status = "pending"
    BY <1>2, <1>3 DEF PayInv, PayTypeOK, RepliesTrue, Statuses, NoPayment
  <1> HIDE DEF Opened
  <1>5. /\ provider' \in [PaymentIds -> [status : Statuses, user : Users \cup {None}]]
        /\ provider'[p] = Opened
        /\ \A q \in PaymentIds \ {p} : provider'[q] = provider[q]
    BY <1>1, <1>2, <1>4 DEF PayInv, PayTypeOK
  <1>6. /\ create' \in [Creates -> CreateRec]
        /\ create'[c].user = create[c].user /\ create'[c].key = create[c].key
        /\ \A d \in Creates \ {c} : create'[d] = create[d]
        /\ \/ create'[c].at = "opened" /\ create'[c].reply \in {"pending", Opened.status}
           \/ create'[c].at = "failed"
    <2>1. ASSUME NEW reply \in {"pending", Opened.status},
                 create' = [create EXCEPT ![c].at = "opened", ![c].reply = reply]
          PROVE  <1>6
      <3>1. reply \in Statuses
        BY <1>4 DEF Statuses
      <3> DEFINE new == [create[c] EXCEPT !.at = "opened", !.reply = reply]
      <3>2. create \in [Creates -> CreateRec]
        BY DEF PayInv, PayTypeOK, CreateRec
      <3>3. create' = [create EXCEPT ![c] = new]
        BY <2>1, <3>2
      <3>4. /\ new \in CreateRec /\ new.at = "opened" /\ new.reply = reply
            /\ new.user = create[c].user /\ new.key = create[c].key
        BY <3>1, <3>2 DEF CreateRec
      <3> HIDE DEF new
      <3> QED BY <2>1, <3>2, <3>3, <3>4
    <2>2. CASE create' = [create EXCEPT ![c].at = "failed"]
      BY <2>2 DEF PayInv, PayTypeOK, CreateRec
    <2> QED BY <1>1, <2>1, <2>2
  <1>7. PayTypeOK' /\ CreatesAsked'
    BY <1>1, <1>2, <1>5, <1>6 DEF PayInv, PayTypeOK, CreatesAsked, CreateRec
  <1>8. RepliesTrue'
    <2>1. \A u \in Users, k \in Keys :
            provider'[ProviderKey(u, k)].status # "none" => provider'[ProviderKey(u, k)].user = u
      <3> TAKE u \in Users, k \in Keys
      <3>1. CASE ProviderKey(u, k) = p
        BY <1>3, <1>4, <1>5, <3>1 DEF ProviderKey
      <3>2. CASE ProviderKey(u, k) # p
        BY <1>5, <3>2, KeyIsPayment DEF PayInv, RepliesTrue
      <3> QED BY <3>1, <3>2
    <2>2. \A q \in PaymentIds : provider'[q].status = "none" => provider'[q] = NoPayment
      BY <1>4, <1>5 DEF PayInv, RepliesTrue
    <2>3. ASSUME NEW d \in Creates, create'[d].at = "opened"
          PROVE  /\ provider'[P(d)'].status # "none"
                 /\ create'[d].reply \in {"pending", provider'[P(d)'].status}
      <3>1. CASE d = c
        <4>1. P(d)' = p
          BY <3>1, <1>3, <1>6 DEF P
        <4> QED BY <2>3, <3>1, <4>1, <1>4, <1>5, <1>6
      <3>2. CASE d # c
        <4>1. create'[d] = create[d] /\ P(d)' = P(d) /\ P(d) \in PaymentIds
          BY <2>3, <3>2, <1>6, RequestPayment DEF P
        <4>2. provider'[P(d)] = provider[P(d)] \/ (P(d) = p /\ provider'[p] = provider[p])
          BY <2>3, <4>1, <1>4, <1>5 DEF PayInv, RepliesTrue
        <4> QED BY <2>3, <4>1, <4>2 DEF PayInv, RepliesTrue
      <3> QED BY <3>1, <3>2
    <2> QED BY <2>1, <2>2, <2>3 DEF RepliesTrue
  <1>9. \A q \in PaymentIds : provider[q].status # "none" => provider'[q] = provider[q]
    BY <1>4, <1>5
  <1>10. HooksTrue'
    BY <1>1, <1>9 DEF PayInv, HooksTrue, Terminal
  <1>11. RowsSaved' /\ RowsFollowProvider'
    <2>1. \A q \in PaymentIds : rows[q].status # "none" => provider'[q] = provider[q]
      BY <1>9 DEF PayInv, RowsSaved
    <2>2. RowsSaved'
      BY <1>1, <2>1 DEF PayInv, RowsSaved
    <2>3. RowsFollowProvider'
      BY <1>1, <2>1 DEF PayInv, RowsFollowProvider, Terminal
    <2> QED BY <2>2, <2>3
  <1>12. SyncsTrue'
    BY <1>1, <1>9 DEF PayInv, SyncsTrue, Now, NewerRow, Terminal
  <1> QED BY <1>7, <1>8, <1>10, <1>11, <1>12 DEF PayInv

LEMMA CreatePaymentStep ==
    ASSUME PayInv, NEW c \in Creates, CreatePayment(c)
    PROVE  PayInv'
  <1> DEFINE p == P(c)
             u == create[c].user
             reply == create[c].reply
  <1>1. /\ create[c].at = "opened"
        /\ IF rows[p].status = "none"
           THEN /\ rows' = [rows EXCEPT ![p] = [status |-> reply, user |-> u]]
                /\ saved' = Append(saved, p)
           ELSE /\ rows' = IF rows[p].user = u
                           THEN [rows EXCEPT ![p].status = Upserted(rows[p], reply)] ELSE rows
                /\ UNCHANGED saved
        /\ \E at \in {"linked", "failed"} : create' = [create EXCEPT ![c].at = at]
        /\ UNCHANGED <<provider, premium, hook, sync>>
    BY DEF CreatePayment, P
  <1>2. p \in PaymentIds /\ u \in Users /\ create[c].key \in Keys
    BY <1>1, RequestPayment DEF PayInv, CreatesAsked
  <1>3. /\ provider[p].status # "none" /\ provider[p].user = u
        /\ reply \in {"pending", provider[p].status}
        /\ reply \in Statuses \ {"none"}
    BY <1>1, <1>2 DEF PayInv, PayTypeOK, RepliesTrue, Statuses, P
  <1> HIDE DEF p, u, reply
  <1>4. /\ create' \in [Creates -> CreateRec]
        /\ create'[c].at \in {"linked", "failed"}
        /\ create'[c].user = create[c].user /\ create'[c].key = create[c].key
        /\ \A d \in Creates \ {c} : create'[d] = create[d]
    <2>1. PICK at \in {"linked", "failed"} : create' = [create EXCEPT ![c].at = at]
      BY <1>1
    <2>2. create \in [Creates -> CreateRec]
      BY DEF PayInv, PayTypeOK, CreateRec
    <2>3. create'[c] = [create[c] EXCEPT !.at = at]
      BY <2>1, <2>2
    <2>4. create[c] \in CreateRec
      BY <2>2
    <2>5. create'[c] \in CreateRec
      BY <2>3, <2>4 DEF CreateRec
    <2>6. \A d \in Creates \ {c} : create'[d] = create[d]
      BY <2>1, <2>2
    <2>7. create' = [d \in Creates |-> create'[d]]
      BY <2>1, <2>2
    <2>8. create' \in [Creates -> CreateRec]
      BY <2>2, <2>5, <2>6, <2>7
    <2>9. create'[c].at = at /\ create'[c].user = create[c].user
          /\ create'[c].key = create[c].key
      BY <2>3, <2>4 DEF CreateRec
    <2> QED BY <2>1, <2>6, <2>8, <2>9
  <1>5. /\ rows' \in [PaymentIds -> [status : Statuses, user : Users \cup {None}]]
        /\ \A q \in PaymentIds \ {p} : rows'[q] = rows[q]
        /\ rows'[p].status # "none"
        /\ rows'[p].status \in Terminal => rows'[p].status = provider[p].status
        /\ rows'[p].user = u
    <2> DEFINE Row == [status : Statuses, user : Users \cup {None}]
    <2>1. rows \in [PaymentIds -> Row]
      BY DEF PayInv, PayTypeOK
    <2>2. /\ rows[p].status # "none" => rows[p].user = u
          /\ rows[p].status \in Terminal => rows[p].status = provider[p].status
      BY <1>2, <1>3 DEF PayInv, RowsFollowProvider
    <2>3. CASE rows[p].status = "none"
      <3> DEFINE new == [status |-> reply, user |-> u]
      <3>1. rows' = [rows EXCEPT ![p] = new]
        BY <1>1, <2>3
      <3>2. /\ new \in Row /\ new.status # "none" /\ new.user = u
            /\ new.status \in Terminal => new.status = provider[p].status
        BY <1>2, <1>3 DEF Terminal
      <3> HIDE DEF new, Row
      <3> QED BY <1>2, <2>1, <3>1, <3>2 DEF Row
    <2>4. CASE rows[p].status # "none"
      <3> DEFINE status == Upserted(rows[p], reply)
                 new == [rows[p] EXCEPT !.status = status]
      <3>1. rows' = [rows EXCEPT ![p] = new]
        BY <1>1, <1>2, <2>1, <2>2, <2>4
      <3>2. /\ status \in Statuses \ {"none"}
            /\ status \in Terminal => status = provider[p].status
        BY <1>2, <1>3, <2>2 DEF Upserted, Terminal, Statuses
      <3> HIDE DEF status
      <3>3. /\ new \in Row /\ new.status = status /\ new.user = u
        BY <1>2, <2>1, <2>2, <2>4, <3>2
      <3> HIDE DEF new, Row
      <3> QED BY <1>2, <2>1, <3>1, <3>2, <3>3 DEF Row
    <2> QED BY <2>3, <2>4
  <1>6. /\ saved' \in Seq(PaymentIds)
        /\ rows[p].status # "none" => saved' = saved
        /\ rows[p].status = "none" => saved' = Append(saved, p)
    <2>1. saved \in Seq(PaymentIds)
      BY DEF PayInv, PayTypeOK
    <2>2. Append(saved, p) \in Seq(PaymentIds)
      BY <1>2, <2>1
    <2> QED BY <1>1, <2>1, <2>2
  <1>7. PayTypeOK' /\ CreatesAsked'
    BY <1>1, <1>2, <1>4, <1>5, <1>6 DEF PayInv, PayTypeOK, CreatesAsked, CreateRec
  <1>8. RepliesTrue'
    BY <1>1, <1>4 DEF PayInv, RepliesTrue, P
  <1>9. HooksTrue'
    BY <1>1 DEF PayInv, HooksTrue
  <1>10. /\ DOMAIN saved = 1 .. Len(saved) /\ Len(saved) \in Nat
         /\ rows[p].status = "none" =>
              /\ DOMAIN saved' = 1 .. (Len(saved) + 1)
              /\ \A i \in 1 .. Len(saved) : saved'[i] = saved[i]
              /\ saved'[Len(saved) + 1] = p
    <2>1. saved \in Seq(PaymentIds)
      BY DEF PayInv, PayTypeOK
    <2> QED BY <1>2, <1>6, <2>1
  <1>11. RowsSaved'
    <2>1. CASE rows[p].status # "none"
      BY <2>1, <1>1, <1>3, <1>5, <1>6 DEF PayInv, RowsSaved
    <2>2. CASE rows[p].status = "none"
      <3>1. ASSUME NEW q \in PaymentIds, rows'[q].status # "none"
            PROVE  /\ \E i \in DOMAIN saved' : saved'[i] = q
                   /\ provider'[q].status # "none"
        <4>1. CASE q = p
          BY <4>1, <2>2, <1>1, <1>3, <1>10
        <4>2. CASE q # p
          BY <4>2, <3>1, <2>2, <1>1, <1>5, <1>10 DEF PayInv, RowsSaved
        <4> QED BY <4>1, <4>2
      <3>2. ASSUME NEW q \in PaymentIds, NEW i \in DOMAIN saved', saved'[i] = q
            PROVE  rows'[q].status # "none"
        <4>1. CASE q = p
          BY <4>1, <1>5
        <4>2. CASE q # p
          BY <4>2, <3>2, <2>2, <1>5, <1>10 DEF PayInv, RowsSaved
        <4> QED BY <4>1, <4>2
      <3> QED BY <3>1, <3>2 DEF RowsSaved
    <2> QED BY <2>1, <2>2
  <1>12. SyncsTrue'
    <2> SUFFICES ASSUME NEW v \in Users
                 PROVE  /\ \A q \in sync[v].todo : rows'[q].status # "none"
                        /\ \A q \in PaymentIds : sync[v].at \in Terminal /\ Now(v, q)' =>
                             provider[q].status = sync[v].at
      BY <1>1 DEF SyncsTrue
    <2>1. sync[v].todo \in SUBSET PaymentIds /\ \A q \in sync[v].todo : rows[q].status # "none"
      BY DEF PayInv, PayTypeOK, SyncsTrue
    <2>2. \A q \in sync[v].todo : rows'[q].status # "none"
      BY <2>1, <1>5
    <2>3. \A q \in sync[v].todo, r \in sync[v].todo : NewerRow(q, r)' <=> NewerRow(q, r)
      <3>1. CASE rows[p].status # "none"
        BY <3>1, <1>6 DEF NewerRow
      <3>2. CASE rows[p].status = "none"
        <4>1. p \notin sync[v].todo
          BY <2>1, <3>2
        <4> SUFFICES ASSUME NEW q \in sync[v].todo, NEW r \in sync[v].todo
                     PROVE  NewerRow(q, r)' <=> NewerRow(q, r)
          OBVIOUS
        <4>2. q # p /\ r # p
          BY <4>1
        <4>3. \A i \in DOMAIN saved' : saved'[i] = q \/ saved'[i] = r => i \in DOMAIN saved /\ saved[i] = saved'[i]
          BY <3>2, <4>2, <1>10
        <4>4. \A i \in DOMAIN saved : i \in DOMAIN saved' /\ saved[i] = saved'[i]
          BY <3>2, <1>10
        <4> QED BY <4>3, <4>4 DEF NewerRow
      <3> QED BY <3>1, <3>2
    <2>4. \A q \in PaymentIds : Now(v, q)' => Now(v, q)
      BY <1>1, <2>3 DEF Now
    <2> QED BY <2>2, <2>4 DEF PayInv, SyncsTrue
  <1>13. RowsFollowProvider'
    BY <1>1, <1>2, <1>3, <1>5 DEF PayInv, RowsFollowProvider
  <1> QED BY <1>7, <1>8, <1>9, <1>11, <1>12, <1>13 DEF PayInv

LEMMA CreateStep ==
    ASSUME PayInv, Create
    PROVE  PayInv'
  <1>1. PICK c \in Creates : Send(c) \/ OpenPayment(c) \/ CreatePayment(c) \/ CreateFails(c)
    BY DEF Create
  <1>2. CASE Send(c)
    BY <1>2, CreateMoves DEF Send
  <1>3. CASE CreateFails(c)
    BY <1>3, CreateMoves DEF CreateFails
  <1> QED BY <1>1, <1>2, <1>3, OpenPaymentStep, CreatePaymentStep

-----------------------------------------------------------------------------
(* Webhooks and synchronisation. *)

SyncRec == [at : {"idle", "free", "find"} \cup Terminal, todo : SUBSET PaymentIds]

\* What settling a row by the provider's outcome keeps.
LEMMA SettleKeeps ==
    ASSUME PayInv, NEW p \in PaymentIds, provider[p].status \in Terminal,
           Settle(p, provider[p].status), UNCHANGED provider
    PROVE  /\ rows' \in [PaymentIds -> [status : Statuses, user : Users \cup {None}]]
           /\ premium' \subseteq Users
           /\ \A q \in PaymentIds : rows'[q].status # "none" <=> rows[q].status # "none"
           /\ RowsFollowProvider'
           /\ premium' = premium \/ (/\ provider[p].status = "succeeded"
                                     /\ premium' = premium \cup {provider[p].user})
  <1> DEFINE s == provider[p].status
             Row == [status : Statuses, user : Users \cup {None}]
  <1>1. /\ rows' = [rows EXCEPT ![p].status = s]
        /\ \/ s = "canceled" /\ premium' = premium
           \/ s = "succeeded" /\ premium' = premium \cup {rows[p].user}
        /\ rows[p].status \in {"pending"} \cup Terminal
    BY DEF Settle, CompletePaymentAndGrantPremium, UpdatePaymentStatus, Completable, Cancelable, Terminal
  <1>2. rows \in [PaymentIds -> Row]
    BY DEF PayInv, PayTypeOK
  <1>3. /\ rows[p].status # "none" /\ s # "none" /\ s \in Statuses /\ s \in Terminal
        /\ rows[p].user = provider[p].user
    BY <1>1 DEF Terminal, Statuses, PayInv, RowsFollowProvider
  <1>4. provider[p].user \in Users /\ premium \subseteq Users
    BY <1>3, PayersAreUsers DEF PayInv, PayTypeOK
  <1> DEFINE new == [rows[p] EXCEPT !.status = s]
  <1>5. rows' = [rows EXCEPT ![p] = new]
    BY <1>1, <1>2
  <1>6. new \in Row /\ new.status = s /\ new.user = provider[p].user
    BY <1>2, <1>3
  <1> HIDE DEF new, s, Row
  <1>7. /\ rows' \in [PaymentIds -> Row] /\ rows'[p] = new
        /\ \A q \in PaymentIds \ {p} : rows'[q] = rows[q]
    BY <1>2, <1>5, <1>6
  <1>8. RowsFollowProvider'
    <2> SUFFICES ASSUME NEW q \in PaymentIds
                 PROVE  /\ rows'[q].status \in Terminal => rows'[q].status = provider[q].status
                        /\ rows'[q].status # "none" => rows'[q].user = provider[q].user
      BY DEF RowsFollowProvider
    <2>1. CASE q = p
      BY <2>1, <1>6, <1>7 DEF s
    <2>2. CASE q # p
      BY <2>2, <1>7 DEF PayInv, RowsFollowProvider
    <2> QED BY <2>1, <2>2
  <1>9. \A q \in PaymentIds : rows'[q].status # "none" <=> rows[q].status # "none"
    BY <1>3, <1>6, <1>7
  <1> QED BY <1>1, <1>3, <1>4, <1>7, <1>8, <1>9 DEF s, Row

\* A webhook that goes on without writing to a table.
LEMMA HookMoves ==
    ASSUME PayInv, NEW p \in PaymentIds, NEW h \in {"due", "verified", "missed", "answered"},
           h \in {"verified", "missed"} => provider[p].status \in Terminal,
           hook' = [hook EXCEPT ![p] = h],
           UNCHANGED <<provider, rows, saved, premium, create, sync>>
    PROVE  PayInv'
  <1>1. PayTypeOK' /\ HooksTrue'
    BY DEF PayInv, PayTypeOK, HooksTrue
  <1>2. CreatesAsked' /\ RepliesTrue' /\ RowsSaved' /\ SyncsTrue' /\ RowsFollowProvider'
    BY DEF PayInv, CreatesAsked, RepliesTrue, P, RowsSaved, SyncsTrue, Now, NewerRow, RowsFollowProvider
  <1> QED BY <1>1, <1>2 DEF PayInv

LEMMA ApplyStep ==
    ASSUME PayInv, NEW p \in PaymentIds, Apply(p)
    PROVE  PayInv'
  <1>1. /\ hook[p] = "verified" /\ Settle(p, provider[p].status)
        /\ hook' = [hook EXCEPT ![p] = "answered"]
        /\ UNCHANGED <<provider, saved, create, sync>>
    BY DEF Apply
  <1>2. provider[p].status \in Terminal
    BY <1>1 DEF PayInv, HooksTrue
  <1>3. /\ rows' \in [PaymentIds -> [status : Statuses, user : Users \cup {None}]]
        /\ premium' \subseteq Users
        /\ \A q \in PaymentIds : rows'[q].status # "none" <=> rows[q].status # "none"
        /\ RowsFollowProvider'
    BY <1>1, <1>2, SettleKeeps
  <1>4. PayTypeOK' /\ HooksTrue'
    BY <1>1, <1>3 DEF PayInv, PayTypeOK, HooksTrue
  <1>5. CreatesAsked' /\ RepliesTrue' /\ RowsSaved'
    BY <1>1, <1>3 DEF PayInv, CreatesAsked, RepliesTrue, P, RowsSaved
  <1>6. SyncsTrue'
    <2>1. \A u \in Users : sync[u].todo \subseteq PaymentIds
      BY DEF PayInv, PayTypeOK
    <2> QED BY <1>1, <1>3, <2>1 DEF PayInv, SyncsTrue, Now, NewerRow
  <1> QED BY <1>3, <1>4, <1>5, <1>6 DEF PayInv

LEMMA WebhookStep ==
    ASSUME PayInv, NEW p \in PaymentIds, Webhook(p)
    PROVE  PayInv'
  <1>1. CASE Verify(p)
    BY <1>1, HookMoves DEF Verify
  <1>2. CASE Miss(p)
    BY <1>2, HookMoves DEF Miss, PayInv, HooksTrue
  <1>3. CASE Classify(p)
    BY <1>3, HookMoves DEF Classify
  <1>4. CASE HookFails(p) \/ Redeliver(p)
    BY <1>4, HookMoves DEF HookFails, Redeliver
  <1> QED BY <1>1, <1>2, <1>3, <1>4, ApplyStep DEF Webhook

\* A sync that goes on: rows may have been settled, but are where they were.
LEMMA SyncMoves ==
    ASSUME PayInv, NEW u \in Users, NEW x \in SyncRec,
           sync' = [sync EXCEPT ![u] = x],
           \A q \in x.todo : rows[q].status # "none",
           \A q \in PaymentIds : x.at \in Terminal /\ Now(u, q)' => provider[q].status = x.at,
           UNCHANGED <<provider, saved, create, hook>>,
           rows' \in [PaymentIds -> [status : Statuses, user : Users \cup {None}]],
           premium' \subseteq Users,
           \A q \in PaymentIds : rows'[q].status # "none" <=> rows[q].status # "none",
           RowsFollowProvider'
    PROVE  PayInv'
  <1>1. sync \in [Users -> SyncRec]
    BY DEF PayInv, PayTypeOK, SyncRec
  <1>2. /\ sync' \in [Users -> SyncRec] /\ sync'[u] = x
        /\ \A v \in Users \ {u} : sync'[v] = sync[v]
    BY <1>1
  <1>3. PayTypeOK'
    BY <1>2 DEF PayInv, PayTypeOK, SyncRec
  <1>4. CreatesAsked' /\ RepliesTrue' /\ RowsSaved' /\ HooksTrue'
    BY DEF PayInv, CreatesAsked, RepliesTrue, P, RowsSaved, HooksTrue
  <1>5. SyncsTrue'
    <2> SUFFICES ASSUME NEW v \in Users
                 PROVE  /\ \A q \in sync'[v].todo : rows'[q].status # "none"
                        /\ \A q \in PaymentIds : sync'[v].at \in Terminal /\ Now(v, q)' =>
                             provider'[q].status = sync'[v].at
      BY DEF SyncsTrue
    <2>1. sync'[v].todo \subseteq PaymentIds
      BY <1>2 DEF SyncRec
    <2>2. CASE v = u
      BY <2>1, <2>2, <1>2
    <2>3. CASE v # u
      <3>1. \A q \in PaymentIds : Now(v, q)' => Now(v, q)
        BY <2>3, <1>2 DEF Now, NewerRow
      <3> QED BY <2>1, <2>3, <3>1, <1>2 DEF PayInv, SyncsTrue
    <2> QED BY <2>2, <2>3
  <1> QED BY <1>3, <1>4, <1>5 DEF PayInv

LEMMA IdleFits == Idle \in SyncRec /\ Idle.todo = {} /\ Idle.at \notin Terminal
  BY DEF Idle, SyncRec, Terminal

\* A sync that goes on without touching the tables.
LEMMA SyncReads ==
    ASSUME PayInv, NEW u \in Users, NEW x \in SyncRec,
           sync' = [sync EXCEPT ![u] = x],
           \A q \in x.todo : rows[q].status # "none",
           \A q \in PaymentIds : x.at \in Terminal /\ Now(u, q)' => provider[q].status = x.at,
           UNCHANGED <<provider, rows, saved, premium, create, hook>>
    PROVE  PayInv'
  <1>1. /\ rows' \in [PaymentIds -> [status : Statuses, user : Users \cup {None}]]
        /\ premium' \subseteq Users
        /\ RowsFollowProvider'
    BY DEF PayInv, PayTypeOK, RowsFollowProvider
  <1> QED BY <1>1, SyncMoves

\* What SyncNext leaves to do.
LEMMA NextFits ==
    ASSUME PayInv, NEW u \in Users, NEW p, SyncNext(u, p)
    PROVE  \E x \in SyncRec : /\ sync' = [sync EXCEPT ![u] = x]
                              /\ \A q \in x.todo : rows[q].status # "none"
                              /\ x.at \notin Terminal
  <1>1. CASE sync[u].todo = {p}
    BY <1>1, IdleFits DEF SyncNext
  <1>2. CASE sync[u].todo # {p}
    <2> DEFINE x == [at |-> "find", todo |-> sync[u].todo \ {p}]
    <2>1. sync' = [sync EXCEPT ![u] = x]
      BY <1>2 DEF SyncNext
    <2>2. x \in SyncRec /\ x.at \notin Terminal /\ x.todo \subseteq sync[u].todo
      BY DEF SyncRec, Terminal, PayInv, PayTypeOK
    <2>3. \A q \in x.todo : rows[q].status # "none"
      BY <2>2 DEF PayInv, SyncsTrue
    <2> QED BY <2>1, <2>2, <2>3
  <1> QED BY <1>1, <1>2

\* There is one payment that a sync is about.
LEMMA OneNow ==
    ASSUME PayInv, NEW u \in Users, NEW p, NEW q, Now(u, p), Now(u, q)
    PROVE  p = q
  <1>1. /\ p \in sync[u].todo /\ q \in sync[u].todo /\ sync[u].todo \subseteq PaymentIds
        /\ ~NewerRow(p, q) /\ ~NewerRow(q, p)
    BY DEF Now, PayInv, PayTypeOK
  <1>2. PICK i \in DOMAIN saved : saved[i] = p
    BY <1>1 DEF PayInv, SyncsTrue, RowsSaved
  <1>3. PICK j \in DOMAIN saved : saved[j] = q
    BY <1>1 DEF PayInv, SyncsTrue, RowsSaved
  <1>4. i \in Int /\ j \in Int
    BY DEF PayInv, PayTypeOK
  <1>5. ~(i > j) /\ ~(j > i)
    BY <1>1, <1>2, <1>3 DEF NewerRow
  <1> QED BY <1>2, <1>3, <1>4, <1>5

LEMMA SyncFindStep ==
    ASSUME PayInv, NEW u \in Users, NEW p \in PaymentIds, SyncFind(u, p)
    PROVE  PayInv'
  <1>1. /\ Now(u, p)
        /\ UNCHANGED <<provider, rows, saved, premium, create, hook>>
    BY DEF SyncFind
  <1>2. CASE provider[p].status \in Terminal
    <2> DEFINE x == [sync[u] EXCEPT !.at = provider[p].status]
    <2>1. sync' = [sync EXCEPT ![u] = x]
      BY <1>2 DEF SyncFind, PayInv, PayTypeOK
    <2>2. x \in SyncRec /\ x.todo = sync[u].todo /\ x.at = provider[p].status
      BY <1>2 DEF SyncRec, PayInv, PayTypeOK
    <2>3. \A q \in x.todo : rows[q].status # "none"
      BY <2>2 DEF PayInv, SyncsTrue
    <2>4. sync'[u].todo = sync[u].todo
      BY <2>1, <2>2 DEF PayInv, PayTypeOK
    <2>5. \A q \in PaymentIds : Now(u, q)' => q = p
      BY <1>1, <2>4, OneNow DEF Now, NewerRow
    <2>6. \A q \in PaymentIds : x.at \in Terminal /\ Now(u, q)' => provider[q].status = x.at
      BY <2>2, <2>5
    <2> HIDE DEF x
    <2> QED BY <1>1, <2>1, <2>2, <2>3, <2>6, SyncReads
  <1>3. CASE provider[p].status \notin Terminal
    <2>1. SyncNext(u, p)
      BY <1>3 DEF SyncFind
    <2> QED BY <1>1, <2>1, NextFits, SyncReads
  <1> QED BY <1>2, <1>3

LEMMA SyncSettleStep ==
    ASSUME PayInv, NEW u \in Users, NEW p \in PaymentIds, SyncSettle(u, p)
    PROVE  PayInv' /\ provider[p].status = sync[u].at
  <1>1. /\ sync[u].at \in Terminal /\ Now(u, p) /\ Settle(p, sync[u].at)
        /\ sync' = [sync EXCEPT ![u] = Idle] \/ SyncNext(u, p)
        /\ UNCHANGED <<provider, saved, create, hook>>
    BY DEF SyncSettle
  <1>2. provider[p].status = sync[u].at
    BY <1>1 DEF PayInv, SyncsTrue
  <1>3. /\ rows' \in [PaymentIds -> [status : Statuses, user : Users \cup {None}]]
        /\ premium' \subseteq Users
        /\ \A q \in PaymentIds : rows'[q].status # "none" <=> rows[q].status # "none"
        /\ RowsFollowProvider'
    BY <1>1, <1>2, SettleKeeps
  <1>4. PICK x \in SyncRec : /\ sync' = [sync EXCEPT ![u] = x]
                             /\ \A q \in x.todo : rows[q].status # "none"
                             /\ x.at \notin Terminal
    BY <1>1, NextFits, IdleFits
  <1> QED BY <1>1, <1>2, <1>3, <1>4, SyncMoves

LEMMA SyncStep ==
    ASSUME PayInv, NEW u \in Users, Sync(u)
    PROVE  PayInv'
  <1>1. CASE SyncUser(u)
    <2> DEFINE x == [sync[u] EXCEPT !.at = "free"]
    <2>1. sync' = [sync EXCEPT ![u] = x]
      BY <1>1 DEF SyncUser, PayInv, PayTypeOK
    <2>2. x \in SyncRec /\ x.todo = sync[u].todo /\ x.at \notin Terminal
      BY DEF SyncRec, Terminal, PayInv, PayTypeOK
    <2>3. \A q \in x.todo : rows[q].status # "none"
      BY <2>2 DEF PayInv, SyncsTrue
    <2> HIDE DEF x
    <2> QED BY <1>1, <2>1, <2>2, <2>3, SyncReads DEF SyncUser
  <1>2. CASE SyncList(u)
    <2> DEFINE x == IF PendingPayments(u) = {} THEN Idle
                    ELSE [at |-> "find", todo |-> PendingPayments(u)]
    <2>1. sync' = [sync EXCEPT ![u] = x]
      BY <1>2 DEF SyncList
    <2>2. x \in SyncRec /\ x.at \notin Terminal /\ \A q \in x.todo : rows[q].status # "none"
      BY IdleFits DEF PendingPayments, SyncRec, Terminal
    <2> HIDE DEF x
    <2> QED BY <1>2, <2>1, <2>2, SyncReads DEF SyncList
  <1>3. CASE SyncFails(u)
    BY <1>3, IdleFits, SyncReads DEF SyncFails
  <1> QED BY <1>1, <1>2, <1>3, SyncFindStep, SyncSettleStep DEF Sync

-----------------------------------------------------------------------------

LEMMA PayStep == PayInv /\ [PayNext]_payVars => PayInv'
  <1> SUFFICES ASSUME PayInv, [PayNext]_payVars PROVE PayInv'
    OBVIOUS
  <1>1. ASSUME NEW p \in PaymentIds, Pay(p) \/ Decline(p)
        PROVE  PayInv'
    BY <1>1, ProviderStep DEF Pay, Decline, Terminal
  <1>2. CASE UNCHANGED payVars
    BY <1>2 DEF payVars, PayInv, PayTypeOK, CreatesAsked, RepliesTrue, P, HooksTrue, RowsSaved,
                SyncsTrue, Now, NewerRow, RowsFollowProvider
  <1> QED BY <1>1, <1>2, WebhookStep, CreateStep, SyncStep DEF PayNext

\* Everything that a handler holds between two steps is still true when it is
\* written.
THEOREM PaymentsHold == PaySpec => []PayInv
  BY PayInitHolds, PayStep, PTL DEF PaySpec

-----------------------------------------------------------------------------
(* The promise of payments. *)

\* Who has paid each payment, for PremiumLedger.
PaidBy == [p \in PaymentIds |-> IF provider[p].status = "succeeded"
                                THEN provider[p].user ELSE None]

LEMMA LedgerInit == PayInit => Ledger!Init
  BY DEF PayInit, Ledger!Init, NoPayment

\* A step that leaves what was paid and who is premium as it was.
LEMMA LedgerStutter ==
    ASSUME premium' = premium,
           \A p \in PaymentIds :
             \/ provider'[p] = provider[p]
             \/ provider'[p].status # "succeeded" /\ provider[p].status # "succeeded"
    PROVE  UNCHANGED Ledger!vars
  <1>1. PaidBy' = PaidBy
    BY DEF PaidBy
  <1> QED BY <1>1 DEF Ledger!vars, PaidBy

\* Settling a row grants premium to one who has paid, or to nobody.
LEMMA LedgerEntitles ==
    ASSUME PayInv, NEW p \in PaymentIds, provider[p].status \in Terminal, UNCHANGED provider,
           \/ premium' = premium
           \/ provider[p].status = "succeeded" /\ premium' = premium \cup {provider[p].user}
    PROVE  [Ledger!Next]_(Ledger!vars)
  <1>1. CASE premium' = premium
    BY <1>1, LedgerStutter
  <1>2. CASE premium' # premium
    <2> DEFINE u == provider[p].user
    <2>1. /\ provider[p].status = "succeeded" /\ premium' = premium \cup {u}
          /\ u \in Users /\ u \notin premium
      BY <1>2, PayersAreUsers DEF Terminal
    <2>2. PaidBy[p] = u /\ PaidBy' = PaidBy
      BY <2>1 DEF PaidBy
    <2>3. Ledger!HasPaid(u)
      BY <2>2 DEF Ledger!HasPaid, PaidBy
    <2> HIDE DEF u
    <2>4. Ledger!Entitle(u)
      BY <2>1, <2>2, <2>3 DEF Ledger!Entitle, PaidBy
    <2> QED BY <2>1, <2>4 DEF Ledger!Next
  <1> QED BY <1>1, <1>2

\* Every step of payments is a step of the promise, or none.
LEMMA LedgerStep == PayInv /\ [PayNext]_payVars => [Ledger!Next]_(Ledger!vars)
  <1> SUFFICES ASSUME PayInv, [PayNext]_payVars PROVE [Ledger!Next]_(Ledger!vars)
    OBVIOUS
  <1>1. ASSUME NEW p \in PaymentIds, Pay(p)
        PROVE  [Ledger!Next]_(Ledger!vars)
    <2> DEFINE u == provider[p].user
    <2>1. /\ provider[p].status = "pending" /\ premium' = premium
          /\ provider' = [provider EXCEPT ![p].status = "succeeded"]
      BY <1>1 DEF Pay
    <2>2. u \in Users
      BY <2>1, PayersAreUsers
    <2>3. /\ provider'[p].status = "succeeded" /\ provider'[p].user = u
          /\ \A q \in PaymentIds \ {p} : provider'[q] = provider[q]
      BY <2>1 DEF PayInv, PayTypeOK
    <2> HIDE DEF u
    <2>4. /\ PaidBy[p] = None
          /\ PaidBy' = [PaidBy EXCEPT ![p] = u]
      <3>1. PaidBy[p] = None
        BY <1>1, <2>1 DEF PaidBy
      <3>2. \A q \in PaymentIds : PaidBy'[q] = IF q = p THEN u ELSE PaidBy[q]
        BY <1>1, <2>3 DEF PaidBy
      <3>3. PaidBy' = [q \in PaymentIds |-> PaidBy'[q]] /\ DOMAIN PaidBy = PaymentIds
        BY DEF PaidBy
      <3> QED BY <3>1, <3>2, <3>3
    <2>5. \E q \in PaymentIds, v \in Users : PaidBy[q] = None /\ PaidBy' = [PaidBy EXCEPT ![q] = v]
      BY <1>1, <2>2, <2>4
    <2>6. Ledger!Next
      BY <2>1, <2>5 DEF Ledger!Next, Ledger!Pay, PaidBy
    <2> QED BY <2>6
  <1>2. ASSUME NEW p \in PaymentIds, Decline(p)
        PROVE  [Ledger!Next]_(Ledger!vars)
    <2>1. /\ premium' = premium
          /\ \A q \in PaymentIds :
               \/ provider'[q] = provider[q]
               \/ provider'[q].status = "canceled" /\ provider[q].status = "pending"
      BY <1>2 DEF Decline, PayInv, PayTypeOK
    <2> QED BY <2>1, LedgerStutter
  <1>3. ASSUME NEW p \in PaymentIds, Webhook(p)
        PROVE  [Ledger!Next]_(Ledger!vars)
    <2>1. CASE Apply(p)
      <3>1. provider[p].status \in Terminal
        BY <2>1 DEF Apply, PayInv, HooksTrue
      <3> QED BY <2>1, <3>1, SettleKeeps, LedgerEntitles DEF Apply
    <2>2. CASE ~Apply(p)
      <3>1. provider' = provider /\ premium' = premium
        BY <1>3, <2>2 DEF Webhook, Verify, Miss, Classify, HookFails, Redeliver
      <3> QED BY <3>1, LedgerStutter
    <2> QED BY <2>1, <2>2
  <1>4. CASE Create
    <2>1. PICK c \in Creates : Send(c) \/ OpenPayment(c) \/ CreatePayment(c) \/ CreateFails(c)
      BY <1>4 DEF Create
    <2>2. CASE OpenPayment(c)
      <3>1. create[c].at = "sent"
        BY <2>2 DEF OpenPayment
      <3>2. P(c) \in PaymentIds
        BY <3>1, RequestPayment
      <3>3. /\ premium' = premium
            /\ \A q \in PaymentIds :
                 \/ provider'[q] = provider[q]
                 \/ provider'[q].status = "pending" /\ provider[q].status = "none"
        BY <2>2, <3>2 DEF OpenPayment, P, PayInv, PayTypeOK
      <3> QED BY <3>3, LedgerStutter
    <2>3. CASE Send(c) \/ CreatePayment(c) \/ CreateFails(c)
      BY <2>3, LedgerStutter DEF Send, CreatePayment, CreateFails
    <2> QED BY <2>1, <2>2, <2>3
  <1>5. ASSUME NEW u \in Users, Sync(u)
        PROVE  [Ledger!Next]_(Ledger!vars)
    <2>1. CASE \E p \in PaymentIds : SyncSettle(u, p)
      <3>1. PICK p \in PaymentIds : SyncSettle(u, p)
        BY <2>1
      <3>2. /\ sync[u].at \in Terminal /\ provider[p].status = sync[u].at
            /\ Settle(p, sync[u].at) /\ provider' = provider
        BY <3>1, SyncSettleStep DEF SyncSettle
      <3> QED BY <3>2, SettleKeeps, LedgerEntitles
    <2>2. CASE ~\E p \in PaymentIds : SyncSettle(u, p)
      <3>1. provider' = provider /\ premium' = premium
        BY <1>5, <2>2 DEF Sync, SyncUser, SyncList, SyncFails, SyncFind
      <3> QED BY <3>1, LedgerStutter
    <2> QED BY <2>1, <2>2
  <1>6. CASE UNCHANGED payVars
    BY <1>6, LedgerStutter DEF payVars
  <1> QED BY <1>1, <1>2, <1>3, <1>4, <1>5, <1>6 DEF PayNext

\* Payments are a refinement of what they promise, its liveness aside: nobody
\* becomes premium who has not paid, nobody loses it, and a payment is paid once.
THEOREM ImplementsLedger == PaySpec => Ledger!SafeSpec
  BY PaymentsHold, LedgerInit, LedgerStep, PTL DEF PaySpec, Ledger!SafeSpec

\* The tables never say more than the provider knows.
THEOREM RowsFollow == PaySpec => []RowsFollowProvider
  <1>1. PayInv => RowsFollowProvider
    BY DEF PayInv
  <1> QED BY <1>1, PaymentsHold, PTL

\* A row that has settled stays so, whatever reply, webhook or sync comes late.
THEOREM SettledStay == PaySpec => SettledForGood
  <1> DEFINE Kept == \A p \in PaymentIds :
                       rows[p].status \in Terminal => rows'[p].status = rows[p].status
  <1>1. PayInv /\ [PayNext]_payVars => Kept \/ UNCHANGED payVars
    <2> SUFFICES ASSUME PayInv, PayNext, NEW p \in PaymentIds, rows[p].status \in Terminal
                 PROVE  rows'[p].status = rows[p].status
      OBVIOUS
    <2>1. rows \in [PaymentIds -> [status : Statuses, user : Users \cup {None}]]
      BY DEF PayInv, PayTypeOK
    <2>2. ASSUME NEW q \in PaymentIds, NEW s, Settle(q, s)
          PROVE  rows'[p].status = rows[p].status
      BY <2>1, <2>2 DEF Settle, CompletePaymentAndGrantPremium, UpdatePaymentStatus, Completable,
                        Cancelable, Terminal
    <2>3. ASSUME NEW c \in Creates, CreatePayment(c)
          PROVE  rows'[p].status = rows[p].status
      <3>1. rows[p].status # "none"
        BY DEF Terminal
      <3> QED BY <2>1, <2>3, <3>1 DEF CreatePayment, Upserted
    <2>4. ASSUME NEW c \in Creates, Send(c) \/ OpenPayment(c) \/ CreateFails(c)
          PROVE  rows' = rows
      BY <2>4 DEF Send, OpenPayment, CreateFails
    <2>5. ASSUME NEW q \in PaymentIds, Webhook(q)
          PROVE  rows'[p].status = rows[p].status
      BY <2>2, <2>5 DEF Webhook, Verify, Apply, Miss, Classify, HookFails, Redeliver
    <2>6. ASSUME NEW u \in Users, Sync(u)
          PROVE  rows'[p].status = rows[p].status
      BY <2>2, <2>6 DEF Sync, SyncUser, SyncList, SyncFails, SyncFind, SyncSettle
    <2>7. ASSUME NEW q \in PaymentIds, Pay(q) \/ Decline(q)
          PROVE  rows' = rows
      BY <2>7 DEF Pay, Decline
    <2> QED BY <2>3, <2>4, <2>5, <2>6, <2>7 DEF PayNext, Create
  <1>2. PayInv /\ [PayNext]_payVars => [Kept]_payVars
    BY <1>1
  <1> QED BY <1>2, PaymentsHold, PTL DEF PaySpec, SettledForGood

-----------------------------------------------------------------------------
(* The limit of categories. *)

\* A request that counts, or has been admitted, holds the users row; what it
\* has read is still so.
CatInv ==
    /\ \A u \in Owners : IsFiniteSet(categories[u])
    /\ categories \in [Owners -> SUBSET Names]
    /\ catReq \in [CatRequests -> [at : {"waiting", "absent", "free", "admitted"},
                                   user : Owners \cup {None}]]
    /\ userLock \in [Users -> CatRequests \cup {None}]
    /\ \A r \in CatRequests : catReq[r].at \in {"free", "admitted"} =>
         /\ catReq[r].user \in Owners
         /\ userLock[catReq[r].user] = r
    /\ \A r \in CatRequests : catReq[r].at = "admitted" =>
         \/ catReq[r].user \in premium
         \/ Cardinality(categories[catReq[r].user]) < FreeLimit
    /\ CategoryLimit

LEMMA CatInitHolds == CatInit => PayInit /\ CatInv
  <1> SUFFICES ASSUME CatInit PROVE CatInv
    BY DEF CatInit
  <1>1. \A r \in CatRequests : /\ catReq[r] \in [at : {"waiting", "absent", "free", "admitted"},
                                                 user : Owners \cup {None}]
                               /\ catReq[r].at \in {"waiting", "absent"}
    BY DEF CatInit, Waiting, Absent
  <1>2. IsFiniteSet({}) /\ Cardinality({}) = 0
    BY FS_EmptySet
  <1>3. categories = [u \in Owners |-> {}]
    BY DEF CatInit
  <1>4. CategoryLimit
    BY <1>1, <1>2, <1>3 DEF CategoryLimit, FreeLimit
  <1>5. catReq \in [CatRequests -> [at : {"waiting", "absent", "free", "admitted"},
                                   user : Owners \cup {None}]]
    BY <1>1 DEF CatInit
  <1>6. userLock \in [Users -> CatRequests \cup {None}]
    BY DEF CatInit
  <1> QED BY <1>1, <1>2, <1>3, <1>4, <1>5, <1>6 DEF CatInv

\* The steps of this module are no steps of payments, and the others are theirs.
LEMMA CatStepIsPayStep == [CatNext]_allVars => [PayNext]_payVars
  <1> SUFFICES ASSUME [CatNext]_allVars PROVE [PayNext]_payVars
    OBVIOUS
  <1>1. CASE OtherPayment
    BY <1>1 DEF OtherPayment, PayNext, Webhook, Sync
  <1>2. ASSUME NEW p \in PaymentIds, ApplyHook(p)
        PROVE  PayNext
    BY <1>2 DEF ApplyHook, PayNext, Webhook
  <1>3. ASSUME NEW u \in Users, NEW p \in PaymentIds, SettleSync(u, p)
        PROVE  PayNext
    BY <1>3 DEF SettleSync, PayNext, Sync
  <1>4. ASSUME NEW r \in CatRequests, NEW u \in Owners, LockUser(r, u)
        PROVE  UNCHANGED payVars
    BY <1>4 DEF LockUser
  <1>5. ASSUME NEW r \in CatRequests, Count(r) \/ Insert(r) \/ Fail(r)
        PROVE  UNCHANGED payVars
    BY <1>5 DEF Count, Insert, Fail
  <1>6. ASSUME NEW u \in Owners, NEW name \in Names, NEW to \in Names,
               RenameCategory(u, name, to) \/ DeleteCategory(u, name)
        PROVE  UNCHANGED payVars
    BY <1>6 DEF RenameCategory, DeleteCategory
  <1>7. CASE UNCHANGED allVars
    BY <1>7 DEF allVars
  <1> QED BY <1>1, <1>2, <1>3, <1>4, <1>5, <1>6, <1>7 DEF CatNext

\* The composition only adds guards to the steps of payments, so that what is
\* proved of them holds beside categories.
LEMMA CategoriesKeepPayments == CatSpec => PaySpec
  <1>1. CatInit => PayInit
    BY DEF CatInit
  <1> QED BY <1>1, CatStepIsPayStep, PTL DEF CatSpec, PaySpec

\* Premium may be granted to those whose row no request holds.
LEMMA GrantKeeps ==
    ASSUME CatInv, UNCHANGED catVars, premium \subseteq premium',
           \A u \in Owners : u \in premium' => u \in premium \/ userLock[u] = None
    PROVE  CatInv'
  <1>1. /\ categories' = categories /\ catReq' = catReq /\ userLock' = userLock
    BY DEF catVars
  <1>2. ASSUME NEW r \in CatRequests, catReq[r].at = "free"
        PROVE  catReq[r].user \notin premium'
    BY <1>2, NoneIsNoRequest DEF CatInv, CategoryLimit
  <1> QED BY <1>1, <1>2 DEF CatInv, CategoryLimit

\* A request that ends may change the categories of its own user, whose row no
\* other request holds.
LEMMA EndKeeps ==
    ASSUME CatInv, NEW r \in CatRequests, catReq[r].at \in {"free", "admitted"}, End(r),
           premium' = premium,
           categories' \in [Owners -> SUBSET Names],
           \A u \in Owners :
             /\ IsFiniteSet(categories'[u])
             /\ u # catReq[r].user => categories'[u] = categories[u]
             /\ Cardinality(categories'[u]) > FreeLimit => u \in premium
    PROVE  CatInv'
  <1>1. /\ catReq'[r] = Waiting
        /\ \A q \in CatRequests : q # r => catReq'[q] = catReq[q]
        /\ catReq' \in [CatRequests -> [at : {"waiting", "absent", "free", "admitted"},
                                        user : Owners \cup {None}]]
    BY DEF CatInv, End, Waiting
  <1>2. /\ \A u \in Users : userLock'[u] = IF userLock[u] = r THEN None ELSE userLock[u]
        /\ userLock' \in [Users -> CatRequests \cup {None}]
    BY DEF CatInv, End
  <1>3. \A q \in CatRequests : catReq'[q].at \in {"free", "admitted"} => q # r /\ catReq'[q] = catReq[q]
    BY <1>1 DEF Waiting
  <1>4. ASSUME NEW q \in CatRequests, catReq'[q].at \in {"free", "admitted"}
        PROVE  /\ catReq'[q].user \in Owners
               /\ userLock'[catReq'[q].user] = q
               /\ categories'[catReq'[q].user] = categories[catReq[q].user]
    <2>1. q # r /\ catReq'[q] = catReq[q] /\ catReq[q].at \in {"free", "admitted"}
      BY <1>3, <1>4
    <2>2. catReq[q].user \in Owners /\ userLock[catReq[q].user] = q
          /\ userLock[catReq[r].user] = r
      BY <2>1 DEF CatInv
    <2> QED BY <1>2, <2>1, <2>2, OwnersAreUsers
  <1>5. \A q \in CatRequests : catReq'[q].at = "admitted" =>
          \/ catReq'[q].user \in premium'
          \/ Cardinality(categories'[catReq'[q].user]) < FreeLimit
    BY <1>3, <1>4 DEF CatInv
  <1>6. CategoryLimit'
    BY <1>3 DEF CatInv, CategoryLimit
  <1> QED BY <1>1, <1>2, <1>4, <1>5, <1>6 DEF CatInv

\* A change of one user's categories that adds none.
LEMMA FewerKeep ==
    ASSUME CatInv, NEW u \in Owners, NEW S \in SUBSET Names,
           IsFiniteSet(S), Cardinality(S) <= Cardinality(categories[u]),
           categories' = [categories EXCEPT ![u] = S],
           UNCHANGED <<payVars, catReq, userLock>>
    PROVE  CatInv'
  <1>1. /\ categories' \in [Owners -> SUBSET Names]
        /\ \A v \in Owners : categories'[v] = IF v = u THEN S ELSE categories[v]
    BY DEF CatInv
  <1>2. premium' = premium /\ catReq' = catReq /\ userLock' = userLock
    BY DEF payVars
  <1>3. \A v \in Owners : /\ IsFiniteSet(categories'[v])
                          /\ Cardinality(categories[v]) \in Nat
                          /\ Cardinality(categories'[v]) \in Nat
                          /\ Cardinality(categories'[v]) <= Cardinality(categories[v])
    BY <1>1, FS_CardinalityType DEF CatInv
  <1>4. CategoryLimit'
    BY <1>2, <1>3 DEF CatInv, CategoryLimit, FreeLimit
  <1>5. \A r \in CatRequests : catReq'[r].at = "admitted" =>
          \/ catReq'[r].user \in premium'
          \/ Cardinality(categories'[catReq'[r].user]) < FreeLimit
    BY <1>2, <1>3 DEF CatInv, FreeLimit
  <1> QED BY <1>1, <1>2, <1>3, <1>4, <1>5 DEF CatInv

LEMMA InsertKeeps == ASSUME CatInv, NEW r \in CatRequests, Insert(r) PROVE CatInv'
  <1> DEFINE u == catReq[r].user
  <1>1. /\ catReq[r].at = "admitted" /\ End(r) /\ premium' = premium
        /\ u \in Owners
        /\ u \in premium \/ Cardinality(categories[u]) < FreeLimit
    BY DEF Insert, CatInv, payVars
  <1>2. PICK name \in Names : categories' = [categories EXCEPT ![u] = @ \cup {name}]
    BY DEF Insert
  <1>3. /\ categories' \in [Owners -> SUBSET Names]
        /\ \A v \in Owners : categories'[v] = IF v = u THEN categories[v] \cup {name} ELSE categories[v]
    BY <1>1, <1>2 DEF CatInv
  <1>4. /\ IsFiniteSet(categories[u] \cup {name})
        /\ Cardinality(categories[u]) \in Nat
        /\ Cardinality(categories[u] \cup {name}) \in Nat
        /\ Cardinality(categories[u] \cup {name}) <= Cardinality(categories[u]) + 1
    <2> DEFINE S == categories[u]
    <2>1. IsFiniteSet(S)
      BY <1>1 DEF CatInv
    <2> HIDE DEF S
    <2>2. Cardinality(S) \in Nat
      BY <2>1, FS_CardinalityType
    <2>3. /\ IsFiniteSet(S \cup {name})
          /\ Cardinality(S \cup {name}) = IF name \in S THEN Cardinality(S) ELSE Cardinality(S) + 1
      BY <2>1, FS_AddElement
    <2>4. /\ Cardinality(S \cup {name}) \in Nat
          /\ Cardinality(S \cup {name}) <= Cardinality(S) + 1
      BY <2>2, <2>3
    <2> QED BY <2>2, <2>3, <2>4 DEF S
  <1>5. ASSUME NEW v \in Owners
        PROVE  /\ IsFiniteSet(categories'[v])
               /\ v # u => categories'[v] = categories[v]
               /\ Cardinality(categories'[v]) > FreeLimit => v \in premium
    <2>1. CASE v = u
      <3>1. categories'[v] = categories[u] \cup {name}
        BY <1>3, <2>1
      <3>2. Cardinality(categories'[v]) > FreeLimit => v \in premium
        BY <1>1, <1>4, <2>1, <3>1 DEF FreeLimit
      <3> QED BY <1>4, <2>1, <3>1, <3>2
    <2>2. CASE v # u
      BY <1>3, <2>2 DEF CatInv, CategoryLimit
    <2> QED BY <2>1, <2>2
  <1> QED BY <1>1, <1>3, <1>5, EndKeeps

LEMMA LockKeeps == ASSUME CatInv, NEW r \in CatRequests, NEW u \in Owners, LockUser(r, u) PROVE CatInv'
  <1> DEFINE at == IF u \in premium THEN "admitted" ELSE "free"
             new == [at |-> at, user |-> u]
  <1>1. /\ catReq[r] = Waiting /\ userLock[u] = None
        /\ userLock' = [userLock EXCEPT ![u] = r]
        /\ catReq' = [catReq EXCEPT ![r] = new]
        /\ premium' = premium /\ categories' = categories
    BY DEF LockUser, payVars
  <1>2. /\ new \in [at : {"waiting", "absent", "free", "admitted"}, user : Owners \cup {None}]
        /\ new.user = u
        /\ new.at = "admitted" => u \in premium
        /\ new.at = "free" => u \notin premium
    OBVIOUS
  <1> HIDE DEF new
  <1>3. /\ catReq' \in [CatRequests -> [at : {"waiting", "absent", "free", "admitted"},
                                        user : Owners \cup {None}]]
        /\ \A q \in CatRequests : catReq'[q] = IF q = r THEN new ELSE catReq[q]
    BY <1>1, <1>2 DEF CatInv
  <1>4. /\ userLock' \in [Users -> CatRequests \cup {None}]
        /\ \A v \in Users : userLock'[v] = IF v = u THEN r ELSE userLock[v]
    BY <1>1 DEF CatInv
  <1>5. ASSUME NEW q \in CatRequests, catReq'[q].at \in {"free", "admitted"}
        PROVE  catReq'[q].user \in Owners /\ userLock'[catReq'[q].user] = q
    <2>1. CASE q = r
      BY <1>2, <1>3, <1>4, <2>1, OwnersAreUsers
    <2>2. CASE q # r
      <3>1. catReq[q].user \in Owners /\ userLock[catReq[q].user] = q
        BY <1>3, <1>5, <2>2 DEF CatInv
      <3> QED BY <1>1, <1>3, <1>4, <2>2, <3>1, OwnersAreUsers, NoneIsNoRequest
    <2> QED BY <2>1, <2>2
  <1>6. \A q \in CatRequests : catReq'[q].at = "admitted" =>
          \/ catReq'[q].user \in premium'
          \/ Cardinality(categories'[catReq'[q].user]) < FreeLimit
    BY <1>1, <1>2, <1>3 DEF CatInv
  <1>7. CategoryLimit'
    BY <1>1, <1>2, <1>3 DEF CatInv, CategoryLimit
  <1> QED BY <1>1, <1>3, <1>4, <1>5, <1>6, <1>7 DEF CatInv

LEMMA CountKeeps == ASSUME CatInv, NEW r \in CatRequests, Count(r) PROVE CatInv'
  <1>1. catReq[r].at = "free" /\ premium' = premium /\ categories' = categories
    BY DEF Count, payVars
  <1>2. CASE End(r)
    BY <1>1, <1>2, EndKeeps DEF CatInv, CategoryLimit
  <1>3. CASE ~End(r)
    <2>1. /\ ~Full(catReq[r].user) /\ userLock' = userLock
          /\ catReq' = [catReq EXCEPT ![r].at = "admitted"]
      BY <1>3 DEF Count
    <2>2. /\ catReq' \in [CatRequests -> [at : {"waiting", "absent", "free", "admitted"},
                                          user : Owners \cup {None}]]
          /\ catReq'[r].at = "admitted" /\ catReq'[r].user = catReq[r].user
          /\ \A q \in CatRequests : q # r => catReq'[q] = catReq[q]
      BY <2>1 DEF CatInv
    <2>3. catReq[r].user \in Owners /\ Cardinality(categories[catReq[r].user]) \in Nat
      BY <1>1, FS_CardinalityType DEF CatInv
    <2>4. Cardinality(categories[catReq[r].user]) < FreeLimit
      BY <2>1, <2>3 DEF Full, FreeLimit
    <2> QED BY <1>1, <2>1, <2>2, <2>4 DEF CatInv, CategoryLimit
  <1> QED BY <1>2, <1>3

LEMMA RenameKeeps ==
    ASSUME CatInv, NEW u \in Owners, NEW name \in Names, NEW to \in Names,
           RenameCategory(u, name, to) \/ DeleteCategory(u, name)
    PROVE  CatInv'
  <1> DEFINE S == categories[u]
  <1>1. /\ IsFiniteSet(S) /\ S \in SUBSET Names /\ name \in S /\ Cardinality(S) \in Nat
    BY FS_CardinalityType DEF CatInv, RenameCategory, DeleteCategory
  <1> HIDE DEF S
  <1>2. /\ IsFiniteSet(S \ {name})
        /\ Cardinality(S \ {name}) = Cardinality(S) - 1
    BY <1>1, FS_RemoveElement
  <1>3. CASE RenameCategory(u, name, to)
    <2>1. /\ to \notin S
          /\ categories' = [categories EXCEPT ![u] = (S \ {name}) \cup {to}]
          /\ UNCHANGED <<payVars, catReq, userLock>>
      BY <1>3 DEF RenameCategory, S
    <2>2. /\ IsFiniteSet((S \ {name}) \cup {to})
          /\ Cardinality((S \ {name}) \cup {to}) = Cardinality(S)
      <3> DEFINE T == S \ {name}
      <3>1. IsFiniteSet(T) /\ to \notin T /\ Cardinality(T) = Cardinality(S) - 1
        BY <1>2, <2>1
      <3> HIDE DEF T
      <3>2. IsFiniteSet(T \cup {to}) /\ Cardinality(T \cup {to}) = Cardinality(T) + 1
        BY <3>1, FS_AddElement
      <3>3. Cardinality(T \cup {to}) = Cardinality(S)
        BY <1>1, <3>1, <3>2
      <3> QED BY <3>2, <3>3 DEF T
    <2> DEFINE R == (S \ {name}) \cup {to}
    <2>3. R \in SUBSET Names
      BY <1>1
    <2>4. /\ IsFiniteSet(R) /\ Cardinality(R) <= Cardinality(categories[u])
          /\ categories' = [categories EXCEPT ![u] = R]
      BY <1>1, <2>1, <2>2 DEF S
    <2> HIDE DEF R
    <2> QED BY <2>1, <2>3, <2>4, FewerKeep
  <1>4. CASE DeleteCategory(u, name)
    <2>1. /\ categories' = [categories EXCEPT ![u] = S \ {name}]
          /\ UNCHANGED <<payVars, catReq, userLock>>
      BY <1>4 DEF DeleteCategory, S
    <2>2. S \ {name} \in SUBSET Names
      BY <1>1
    <2>3. Cardinality(S \ {name}) <= Cardinality(S)
      BY <1>1, <1>2
    <2> QED BY <1>2, <2>1, <2>2, <2>3, FewerKeep DEF S
  <1> QED BY <1>3, <1>4

\* A payment that settles writes the row of its user when nobody holds it.
LEMMA SettlingGrants ==
    ASSUME CatInv, UNCHANGED catVars, NEW p \in PaymentIds, NEW s, Settle(p, s),
           s = "succeeded" => MayGrant(p)
    PROVE  CatInv'
  <1>1. \/ premium' = premium
        \/ s = "succeeded" /\ premium' = premium \cup {rows[p].user}
    BY DEF Settle, CompletePaymentAndGrantPremium, UpdatePaymentStatus
  <1>2. /\ premium \subseteq premium'
        /\ \A u \in Owners : u \in premium' => u \in premium \/ userLock[u] = None
    BY <1>1 DEF MayGrant
  <1> QED BY <1>2, GrantKeeps

LEMMA CatStep == CatInv /\ [CatNext]_allVars => CatInv'
  <1> SUFFICES ASSUME CatInv, [CatNext]_allVars PROVE CatInv'
    OBVIOUS
  <1>1. CASE OtherPayment
    <2>1. premium' = premium
      BY <1>1 DEF OtherPayment, Pay, Decline, Verify, Miss, Classify, HookFails, Redeliver, SyncFind,
                  Create, Send, OpenPayment, CreatePayment, CreateFails, SyncUser, SyncList, SyncFails
    <2> QED BY <1>1, <2>1, GrantKeeps DEF OtherPayment
  <1>2. ASSUME NEW p \in PaymentIds, ApplyHook(p)
        PROVE  CatInv'
    BY <1>2, SettlingGrants DEF ApplyHook, Apply
  <1>3. ASSUME NEW u \in Users, NEW p \in PaymentIds, SettleSync(u, p)
        PROVE  CatInv'
    BY <1>3, SettlingGrants DEF SettleSync, SyncSettle
  <1>4. ASSUME NEW r \in CatRequests, Fail(r)
        PROVE  CatInv'
    <2>1. premium' = premium /\ categories' = categories
      BY <1>4 DEF Fail, payVars
    <2> QED BY <1>4, <2>1, EndKeeps DEF Fail, CatInv, CategoryLimit
  <1>5. ASSUME NEW u \in Owners, NEW name \in Names, DeleteCategory(u, name)
        PROVE  CatInv'
    BY <1>5, RenameKeeps
  <1>6. ASSUME NEW u \in Owners, NEW name \in Names, NEW to \in Names, RenameCategory(u, name, to)
        PROVE  CatInv'
    BY <1>6, RenameKeeps
  <1>7. CASE UNCHANGED allVars
    BY <1>7, GrantKeeps DEF allVars, payVars
  <1> QED BY <1>1, <1>2, <1>3, <1>4, <1>5, <1>6, <1>7, LockKeeps, CountKeeps, InsertKeeps DEF CatNext

\* A free account never has a fourth category, whatever requests, renames,
\* deletions and payments run at the same time; and none is counted that has
\* paid.
THEOREM LimitHolds == CatSpec => []CategoryLimit
  <1>1. CatInv => CategoryLimit
    BY DEF CatInv
  <1> QED BY <1>1, CatInitHolds, CatStep, PTL DEF CatSpec

=============================================================================
