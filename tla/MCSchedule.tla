----------------------------- MODULE MCSchedule -----------------------------
(* Schedule over every `after` relation of N selected forks. *)
EXTENDS Schedule
=============================================================================
