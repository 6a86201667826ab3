---------------------------- MODULE MCTerminals ----------------------------
\* An instance of Terminals for TLC.
EXTENDS Terminals, TLC
CONSTANTS s1, s2, s3

\* A registry with two goldens; the other fields have fewer values than the
\* code's, with a first, a last and, for memory, one between them.
MCOffered  == [profile |-> 2, cpu |-> 2, memory |-> 3, lease |-> 2]
MCDefaults == [profile |-> 0, cpu |-> 0, memory |-> 2, lease |-> 1]
MCSymmetry == Permutations(Sandboxes)
=============================================================================
