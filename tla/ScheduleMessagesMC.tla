------------------------ MODULE ScheduleMessagesMC ------------------------
(* Small instances of ScheduleMessages for TLC. *)
EXTENDS ScheduleMessages, TLC

(* Sets are told apart only by the schedule they belong to, schedules only  *)
(* by their rows, and operators only by the requests they make.             *)
Symmetry == Permutations(MsgSet) \cup Permutations(Schedule) \cup Permutations(Operator)
=============================================================================
