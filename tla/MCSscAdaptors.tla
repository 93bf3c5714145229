---------------------------- MODULE MCSscAdaptors ----------------------------
(* The accelerometer and the ALS adaptor over a pool of libssc objects.     *)
EXTENDS SscAdaptors, TLC

CONSTANTS accel, als, s1, s2, s3, s4

MCAdaptors == {accel, als}
MCSensors == {s1, s2, s3, s4}
MCPool == {s1, s2}
MCSymmetry == Permutations(MCSensors) \cup Permutations(MCAdaptors)
============================================================================
