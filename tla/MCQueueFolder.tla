--------------------------- MODULE MCQueueFolder ---------------------------
(* Model values and symmetry for checking QueueFolder. *)
EXTENDS QueueFolder, TLC

CONSTANTS q1, q2, w1, w2, w3, f1, f2, s1, s2, g1

FileSymmetry == Permutations(OrderNames) \cup Permutations(ReportNames)
                    \cup Permutations(Sources) \cup Permutations(Processes)
=============================================================================
