---- MODULE MCSession ----
EXTENDS Session, TLC

Strangers == [s \in Sessions |-> s]
Symmetry == Permutations(Calls)
====
