------------------------------- MODULE MCSched -------------------------------
(* Small instances of Sched for TLC.                                        *)
EXTENDS Sched, TLC

\* A space is only ever compared with another, so the spaces are symmetric.
SpaceSymmetry == Permutations(Spaces)
=============================================================================
