--------------------- MODULE MCTimestampOrderingSchedule ---------------------
(* TimestampOrderingSchedule on a small instance: records are interchangeable. *)
EXTENDS TimestampOrderingSchedule, TLC

RecordSymmetry == Permutations(Records)

=============================================================================
