-------------------------- MODULE MCReturnRouting --------------------------
(* Instances of ReturnRouting: two requests of one agent, or of two.      *)
EXTENDS ReturnRouting, TLC

CONSTANTS q1, q2, a, b, h1, h2

MCReqs == {q1, q2}
OneCaller == q1 :> a @@ q2 :> a
TwoCallers == q1 :> a @@ q2 :> b

\* Two requests of the same agent are interchangeable, and so are two answers in progress.
OneHandler == {h1}
TwoHandlers == {h1, h2}
SameCaller == {p @@ h : p \in Permutations(MCReqs), h \in Permutations(TwoHandlers)}
=============================================================================
