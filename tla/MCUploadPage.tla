---- MODULE MCUploadPage ----
EXTENDS UploadPage

Strangers == [s \in Sessions |-> s]

(* The deployment of the repository: frontend and backend on different sites. *)
InitAcross == Init /\ crossSite = TRUE
AcrossSites == InitAcross /\ [][Next]_uploadVars /\ Fairness
====
