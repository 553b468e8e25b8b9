---------------------------- MODULE MCReminders ----------------------------
(***************************************************************************)
(* Small instances of Reminders for TLC: one task with all the reminders.  *)
(***************************************************************************)
EXTENDS Reminders

CONSTANT t1

MCTaskOf == [r \in Reminders |-> t1]

=============================================================================
