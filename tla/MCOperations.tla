---------------------------- MODULE MCOperations ----------------------------
(***************************************************************************)
(* Instance of ActivityLog for TLC.  Any client and no log client, or the  *)
(* log client with three requests on their way: a repeat and one without a *)
(* key, or three commands.                                                 *)
(***************************************************************************)
EXTENDS ActivityLog

CONSTANTS q1, q2, q3, k1, k2, c1

AnyClient == client = "nil" /\ \A r \in Requests : req[r] = Unsent

Logging ==
    /\ client = "open"
    /\ req[q1] = Sent(c1, k1)
    /\ req[q2] \in {Sent(c1, k1), Sent(c1, k2)}
    /\ req[q3] = Sent(c1, None)

MCInit == LogInit /\ (AnyClient \/ Logging)

MCSpec == MCInit /\ [][LogNext]_activityVars /\ LogFairness

=============================================================================
