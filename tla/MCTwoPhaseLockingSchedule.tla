---------------------- MODULE MCTwoPhaseLockingSchedule ----------------------
(* TwoPhaseLockingSchedule on a small instance.  Records are               *)
(* interchangeable model values; transaction ids are not, because S        *)
(* holders come in id order.                                               *)
EXTENDS TwoPhaseLockingSchedule, TLC

RecordSymmetry == Permutations(Records)

=============================================================================
