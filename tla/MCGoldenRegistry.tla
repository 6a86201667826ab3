--------------------------- MODULE MCGoldenRegistry ---------------------------
\* Instances of GoldenRegistry for TLC: a server with two calls at a time and a
\* command line, on one manifest.
EXTENDS GoldenRegistry, TLC

CONSTANTS server, cli, s1, s2, c

HomeOf == s1 :> server @@ s2 :> server @@ c :> cli

TaskSymmetry == Permutations({s1, s2})
=============================================================================
