----------------------------- MODULE MCPremium -----------------------------
(***************************************************************************)
(* Instance of Categories for TLC.  Four scenarios share the run, so that  *)
(* their states add up and do not multiply: one user who repeats a key,    *)
(* one with two keys, two users with the same key, and concurrent requests *)
(* for categories around the payment of one user.                          *)
(***************************************************************************)
EXTENDS Categories

CONSTANTS u1, u2, k1, k2, c1, c2

Asked(c, u, k) == create[c] = Unsent(u, k)

PaymentsOnly ==
    /\ Asked(c1, u1, k1)
    /\ Asked(c2, u1, k1) \/ Asked(c2, u1, k2) \/ Asked(c2, u2, k1)
    /\ \A r \in CatRequests : catReq[r] = Absent

CategoriesToo ==
    /\ Asked(c1, u1, k1)
    /\ create[c2] = Unused
    /\ \A r \in CatRequests : catReq[r] = Waiting

MCInit == CatInit /\ (PaymentsOnly \/ CategoriesToo)

MCSpec == MCInit /\ [][CatNext]_allVars /\ CatFairness

=============================================================================
