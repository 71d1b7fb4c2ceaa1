------------------------------ MODULE MCBackup ------------------------------
(***************************************************************************)
(* Instances of Backup for TLC: times over four days, of which the first   *)
(* is a New Year's Day, a first of the month and a Monday at once, the     *)
(* third a first of the month and the fourth a Monday.                     *)
(***************************************************************************)
EXTENDS Backup
=============================================================================
