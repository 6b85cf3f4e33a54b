--------------------------- MODULE MCSemanticCache ---------------------------
(* A TLC instance of SemanticCache: two scopes of one tenant. *)
EXTENDS SemanticCache

CONSTANTS t1, amy, ben

Scopes == {[tenant |-> t1, user |-> amy, admin |-> TRUE],
           [tenant |-> t1, user |-> ben, admin |-> FALSE]}
=============================================================================
