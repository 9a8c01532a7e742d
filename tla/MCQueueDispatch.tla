-------------------------- MODULE MCQueueDispatch --------------------------
(***************************************************************************)
(* Instances of QueueDispatch: x1 calls two agents, x2 one, and x3 asks    *)
(* for the work order of x1 again while that is registered.                *)
(***************************************************************************)
EXTENDS QueueDispatch

CONSTANTS x1, x2, x3, o1, o2, p1, p2

MCOrderOf == [e \in Executions |-> IF e = x2 THEN o2 ELSE o1]
MCAgentCount == [e \in Executions |-> IF e = x1 THEN 2 ELSE 1]
\* x1 calls both providers; everybody else competes for the first one.
MCProviderOf == [a \in Agents |-> IF a = <<x1, 2>> THEN p2 ELSE p1]

\* A rejected request leaves nothing behind, so that one moment for it is enough: the
\* third execution is asked for before the first begins.
MCNext ==
    /\ Next
    /\ phase'[x3] \in {"idle", "rejected"}
    /\ phase'[x1] \notin {"idle", "registered"} => phase[x3] = "rejected"

MCSpec == Init /\ [][MCNext]_vars /\ RuntimeFairness
=============================================================================
