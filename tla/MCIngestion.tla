----------------------------- MODULE MCIngestion -----------------------------
(* A TLC instance of Ingestion: short texts of light and heavy sentences. *)
EXTENDS Ingestion

CONSTANTS Weights, MaxLen, MaxTokens

\* The tokens up to the end of the i-th sentence.
Sum[w \in Seq(Nat), i \in Nat] == IF i = 0 THEN 0 ELSE Sum[w, i - 1] + w[i]

\* Sentences of the given weights, a new section from any of them on.
SmallTexts ==
    UNION {{[i \in 1..n |-> [upto |-> Sum[w, i], section |-> IF i < s THEN 1 ELSE 2]] :
                w \in {v \in [1..n -> Weights] : Sum[v, n] <= MaxTokens}, s \in 2..(n + 1)} :
           n \in 0..MaxLen}
=============================================================================
