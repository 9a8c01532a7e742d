-------------------------- MODULE MCOutsideWriters --------------------------
(***************************************************************************)
(* Two parts of the application that work on files which others change      *)
(* without asking, side by side for TLC: the work orders that a run works   *)
(* on, and the files of a repository that a scaffold is applied to.  They   *)
(* share no state, a behaviour is one of either.                            *)
(***************************************************************************)
EXTENDS MCQueueExecution, ScaffoldRepository

VARIABLE part

scaffoldVars == <<disk, manifest, journal, lockFile, text, holder, pc, node, op, ours, spoilt,
                  inputs, faults>>

\* Two instances and one file, for the lock; one instance and two files, for the rest.
Rivals == INSTANCE ScaffoldApply WITH
    Procs <- {1, 2}, Files <- {1}, Inodes <- {1, 2, 3}, MaxInputs <- 3, MaxFaults <- 1

Alone == INSTANCE ScaffoldApply WITH
    Procs <- {1}, Files <- {1, 2}, Inodes <- {1, 2}, MaxInputs <- 3, MaxFaults <- 2

ASSUME ScaffoldAssumption == Rivals!ScaffoldConstants /\ Alone!ScaffoldConstants

PartInit ==
    /\ part \in {"order", "rivals", "alone"}
    /\ Init
    /\ part = "rivals" => Rivals!Init
    /\ part # "rivals" => Alone!Init
    /\ part = "order" \/ \A o \in Orders : file[o].body = b1
    /\ part = "order" => lockFile = None
    /\ part = "alone" \/ (manifest = None /\ \A f \in DOMAIN disk : disk[f] = "absent")

PartNext ==
    /\ \/ part = "order" /\ Next /\ UNCHANGED scaffoldVars
       \/ part = "rivals" /\ Rivals!Next /\ UNCHANGED vars
       \/ part = "alone" /\ Alone!Next /\ UNCHANGED vars
    /\ UNCHANGED part

PartSpec == PartInit /\ [][PartNext]_<<part, vars, scaffoldVars>>
=============================================================================
