------------------------------- MODULE MCPool -------------------------------
(* PublisherPool for TLC.                                                  *)
EXTENDS PublisherPool, TLC

\* Publishers, channels and closers are interchangeable.
Symmetry == Permutations(Publishers) \cup Permutations(Channels) \cup Permutations(Closers)
=============================================================================
