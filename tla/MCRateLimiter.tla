---------------------------- MODULE MCRateLimiter ----------------------------
(* A TLC instance of RateLimiter: two users of a tenant and one auth client. *)
EXTENDS RateLimiter

CONSTANTS amy, ben, tenant, amyUser, benUser

TwoUsers == [c \in {amy, ben} |->
                IF c = amy THEN {tenant, amyUser} ELSE {tenant, benUser}]

\* The tenant's limit is larger than a user's.
Limits == [b \in {tenant, amyUser, benUser} |-> IF b = tenant THEN 2 ELSE 1]
=============================================================================
