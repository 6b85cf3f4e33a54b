------------------------------ MODULE Outcomes ------------------------------
(***************************************************************************)
(* What error_watchdog_service.py promises of a failed chat query (its     *)
(* docstring, lines 1-12): every failure handed to it comes to exactly one *)
(* outcome, "fixed, escalated, or skipped", and keeps it.  An outcome may  *)
(* also be lost with the process or with an outage.                        *)
(***************************************************************************)
CONSTANT Runs          \* failed queries, by the id of their trace

VARIABLE verdict       \* [Runs -> the outcome the audit log shows]

Settled == {"fixed", "escalated", "skipped", "lost"}

Init == verdict = [r \in Runs |-> "none"]

\* A query failed and was handed over.
Report(r) ==
    /\ verdict[r] = "none"
    /\ verdict' = [verdict EXCEPT ![r] = "open"]

Settle(r) ==
    /\ verdict[r] = "open"
    /\ \E v \in Settled : verdict' = [verdict EXCEPT ![r] = v]

\* An outage ends every investigation at once.
LoseAll == verdict' = [r \in Runs |-> IF verdict[r] = "open" THEN "lost" ELSE verdict[r]]

Next == (\E r \in Runs : Report(r) \/ Settle(r)) \/ LoseAll

Safety == Init /\ [][Next]_verdict

\* No investigation goes on for ever.
Spec == Safety /\ \A r \in Runs : WF_verdict(Settle(r))
=============================================================================
