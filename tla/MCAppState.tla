----------------------------- MODULE MCAppState -----------------------------
(* Model values for checking AppState. *)
EXTENDS AppState, TLC

CONSTANTS w1, w2, s1, a, b

WindowSymmetry == Permutations(Windows)
=============================================================================
