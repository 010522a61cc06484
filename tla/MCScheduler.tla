----------------------------- MODULE MCScheduler -----------------------------
(* Constant values of the Scheduler runs that a cfg cannot write. *)
EXTENDS Scheduler

NegativeToo == {-1, 0, 1}
=============================================================================
