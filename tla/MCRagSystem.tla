----------------------------- MODULE MCRagSystem -----------------------------
(* TLC instances of RagSystem: who exists. *)
EXTENDS RagSystem, TLC

CONSTANTS t1, t2, amy, ben, cat

Amy == [tenant |-> t1, user |-> amy, admin |-> TRUE]
Ben == [tenant |-> t1, user |-> ben, admin |-> FALSE]
Cat == [tenant |-> t2, user |-> cat, admin |-> TRUE]

\* An admin and a member of one organization, and the admin of another.
TwoOrgs == {Amy, Ben, Cat}

\* One organization: its admin and a member.
OneOrg == {Amy, Ben}

\* Handlers and requests in flight are interchangeable.
Symmetry == Permutations(OpIds) \cup Permutations(ReqIds)
=============================================================================
