--------------------------- MODULE MCBuiltinAgent ---------------------------
(* BuiltinAgent for TLC: profiles and URLs differ in nothing but their names. *)
EXTENDS BuiltinAgent, TLC

Names == Permutations(Profile) \cup Permutations(Url)
=============================================================================
