----------------------------- MODULE MCConfPublish -----------------------------
(* Small publishers for TLC.                                                 *)
EXTENDS ConfPublish, TLC

CONSTANTS p1, p2 \* two calls of publish_conf

PublisherSymmetry == Permutations({p1, p2})

\* Every property of the run of two calls allows anything once two calls have
\* shared a name, and shared stays TRUE: nothing beyond is worth exploring.
NotShared == ~shared
=============================================================================
