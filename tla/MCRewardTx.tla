----------------------------- MODULE MCRewardTx -----------------------------
(***************************************************************************)
(* A small instance of RewardTx for TLC.  Tasks are numbers, because bulk  *)
(* completion locks them in the order of their ids.                        *)
(***************************************************************************)
EXTENDS RewardTx

CONSTANTS r1, r2        \* the two requests

MCPrice == [i \in Items |-> 1]

\* Tasks are created in the order of their numbers, as ids are, and before the
\* first transaction begins: no transaction can name a task that is not there.
\* An idle request is like any other: r2 begins only beside r1.
\* The extra break is taken at a session's last age: no transaction reads it.
Ready ==
    /\ task'[2].status # "unborn" => task'[1].status # "unborn"
    /\ begun = 0 /\ begun' > begun => \A t \in Tasks : task[t].status # "unborn"
    /\ tx[r2] = NoTx /\ tx'[r2] # NoTx => tx[r1] # NoTx
    /\ \A s \in Sessions : session'[s].onBreak => session'[s].age = 2

\* The clauses of FairTxSpec over the steps that Ready leaves.
MCSpec ==
    /\ TxInit /\ [][TxNext /\ Ready]_txVars
    /\ \A r \in Requests : /\ SF_txVars(Step(r))
                            /\ WF_txVars(Refuse(r))
                            /\ WF_txVars(Victim(r))

=============================================================================
