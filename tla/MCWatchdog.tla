----------------------------- MODULE MCWatchdog -----------------------------
(* A TLC instance of Watchdog: one tenant, since tenants share nothing here. *)
EXTENDS Watchdog

CONSTANTS t1, amy, ben

OneTenant == {t1}
TwoAdmins == {amy, ben}
=============================================================================
