----------------------------- MODULE MCSchedule -----------------------------
(* Small instances of Schedule: a day of three hours, four days at most.   *)
EXTENDS Schedule

Clean  == {"done"}
Mixed  == {"done", "failed", "swept", "prevented"}
=============================================================================
