---------------------------- MODULE MCCiPipeline ----------------------------
(* The model values of the runs of CiPipeline. *)
EXTENDS CiPipeline

\* One area per way the two workflows and the caches can treat a push.
MCAllWays == {"blobs", "common", "kernel", "image"}
\* One that both workflows' filters name, one for publishing only.
MCOverlap == {"blobs", "kernel"}
=============================================================================
