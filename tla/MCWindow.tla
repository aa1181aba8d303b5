------------------------------ MODULE MCWindow ------------------------------
(* Small instances of Window: a hook for the steps, one for every second   *)
(* of them, and one for the checkpoints, as a policy that keeps the best.  *)
EXTENDS Window

MCRegistered == << [event |-> "step", every |-> 1],
                   [event |-> "checkpoint_written", every |-> 1],
                   [event |-> "step", every |-> 2] >>
=============================================================================
