------------------------------ MODULE MCCiBroker ------------------------------
\* Instances of CiBroker for TLC: two jobs with the broker's label, up to two
\* sandboxes in a behaviour.
EXTENDS CiBroker, TLC

CONSTANTS j1, j2

JobSymmetry == Permutations({j1, j2})
=============================================================================
