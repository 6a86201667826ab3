------------------------------ MODULE MCGateway ------------------------------
\* An instance of Gateway for TLC.
EXTENDS Gateway, TLC
CONSTANTS r1, r2

\* lsbx serve with one listener and a token, with two and none, and an embedding
\* of the router with the local file routes on (lsbx serve has them off).
Deployments == {[dual |-> FALSE, token |-> TRUE,  local |-> FALSE],
                [dual |-> TRUE,  token |-> FALSE, local |-> FALSE],
                [dual |-> TRUE,  token |-> TRUE,  local |-> TRUE]}

Slots == Permutations(Requests)

\* One of each kind: query takes the path of delete without its effect,
\* exec and get that of put, detail that of stream up to its answer.
SomeRoutes == {"read", "create", "delete", "renew", "upload", "artifacts", "put", "page",
               "stream"}
=============================================================================
