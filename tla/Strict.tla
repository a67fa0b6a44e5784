------------------------------- MODULE Strict -------------------------------
(* Helps for evaluation, without meaning of their own.                      *)

\* f itself.  TLC computes a chosen and compared value once, a function at each
\* application.
Computed(f) == CHOOSE x \in {f} : x = x

\* The element of a set {F(x) : x \in {e}}, which is F(e) with e computed first.
Value(S) == CHOOSE x \in S : x = x

\* S itself, with its elements listed.
Listed(S) == {x : x \in S}
=============================================================================
