--------------------------- MODULE MCGatewayRequest ---------------------------
(* An instance of GatewayRequest with a single plain route.                  *)
EXTENDS GatewayRequest, TLC

Table(found, mw, auth, limit, cache, store) ==
    [found |-> found, mw |-> mw, auth |-> auth, limit |-> limit, cache |-> cache, store |-> store]

PlainTables == {Table(TRUE, FALSE, FALSE, 1, TRUE, TRUE)}

MCSymmetry == Permutations(Req)
=============================================================================
