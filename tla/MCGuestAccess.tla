---------------------------- MODULE MCGuestAccess -----------------------------
EXTENDS GuestAccess, TLC

CONSTANTS a1, a2, server, cli

\* A request of a server and a command.
MCProcOf == a1 :> server @@ a2 :> cli
MCSymmetry == Permutations(Sandboxes) \cup Permutations(Addresses)
=============================================================================
