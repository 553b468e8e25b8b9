--------------------------- MODULE PremiumLedger ---------------------------
(***************************************************************************)
(* What the payments of the service promise, without requests, webhooks or *)
(* tables: a payment is settled at most once, by one payer; whoever has    *)
(* paid becomes premium in the end, nobody else ever does, and premium is  *)
(* for good ("Premium (навсегда)", create.go).                             *)
(***************************************************************************)
CONSTANTS
    Payments,       \* payments, as the provider knows them
    Users,          \* accounts
    None            \* nobody

VARIABLES
    paidBy,         \* who has paid each payment
    premium         \* the users who are premium

vars == <<paidBy, premium>>

Init ==
    /\ paidBy = [p \in Payments |-> None]
    /\ premium = {}

Pay(p, u) ==
    /\ paidBy[p] = None
    /\ paidBy' = [paidBy EXCEPT ![p] = u]
    /\ UNCHANGED premium

HasPaid(u) == \E p \in Payments : paidBy[p] = u

Entitle(u) ==
    /\ u \notin premium
    /\ HasPaid(u)
    /\ premium' = premium \cup {u}
    /\ UNCHANGED paidBy

Next ==
    \/ \E p \in Payments, u \in Users : Pay(p, u)
    \/ \E u \in Users : Entitle(u)

SafeSpec == Init /\ [][Next]_vars

Spec == SafeSpec /\ \A u \in Users : WF_vars(Entitle(u))

=============================================================================
