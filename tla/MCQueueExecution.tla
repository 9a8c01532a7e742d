-------------------------- MODULE MCQueueExecution --------------------------
(* Model values and symmetry for checking QueueExecution. *)
EXTENDS QueueExecution, TLC

CONSTANTS o1, b1, b2, d1, c1, c2, e1

ActorSymmetry == Permutations(Desktop) \cup Permutations(Cli)
                    \cup Permutations(Editors)
=============================================================================
