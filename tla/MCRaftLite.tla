----------------------------- MODULE MCRaftLite -----------------------------
(***************************************************************************)
(* Instances of RaftLite for TLC.                                          *)
(***************************************************************************)
EXTENDS RaftLite, TLC

\* EntrySurvives says nothing after a second snapshot: its run stops there.
OneSnapshot == snapshots <= 1

\* A lapse makes the only node elect itself again, which adds no behaviour of
\* the log.
NoLapse == ~lapsed

Symmetry == Permutations(Req)

=============================================================================
