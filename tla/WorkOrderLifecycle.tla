------------------------- MODULE WorkOrderLifecycle -------------------------
(***************************************************************************)
(* What the Queue promises about work orders, with every lock, marker,     *)
(* snapshot and process taken away: a work order has at most one job, only *)
(* the job completes it, with a published result for exactly the           *)
(* instructions it ran, and no one else takes it out of "running" while    *)
(* the job lives.  QueueExecution implements this specification when no    *)
(* writer outside the program touches the files.                           *)
(***************************************************************************)
CONSTANTS Orders, Bodies, Workers, Absent, NoJob

VARIABLES
    work,     \* each work order: its status and instructions, or Absent
    job,      \* the job at work on it: its worker and the instructions it runs
    results   \* published results

vars == <<work, job, results>>

Exists(o) == work[o] # Absent
Put(o, s, b) == work' = [work EXCEPT ![o] = [status |-> s, body |-> b]]

Init ==
    /\ work \in [Orders -> [status : {"active"}, body : Bodies]]
    /\ job = [o \in Orders |-> NoJob]
    /\ results = {}

\* A worker takes a work order that has no job; an interrupted one may be taken.
Start(w, o) ==
    /\ job[o] = NoJob
    /\ Exists(o)
    /\ work[o].status \in {"active", "failed", "running"}
    /\ Put(o, "running", work[o].body)
    /\ job' = [job EXCEPT ![o] = [by |-> w, body |-> work[o].body]]
    /\ UNCHANGED results

\* The job publishes a result for the instructions it runs.
Publish(o) ==
    /\ job[o] # NoJob
    /\ results' = results \cup {[order |-> o, body |-> job[o].body]}
    /\ UNCHANGED <<work, job>>

\* The job ends and says how; success needs a published result, and both need
\* the instructions to be the ones that ran.
Finish(o, s) ==
    /\ job[o] # NoJob
    /\ work[o] = [status |-> "running", body |-> job[o].body]
    /\ s \in {"archived", "active"} => [order |-> o, body |-> job[o].body] \in results
    /\ Put(o, s, work[o].body)
    /\ job' = [job EXCEPT ![o] = NoJob]
    /\ UNCHANGED results

\* Jobs vanish: their process died, or newer instructions replaced theirs.
Abandon(os) ==
    /\ \E o \in os : job[o] # NoJob
    /\ job' = [o \in Orders |-> IF o \in os THEN NoJob ELSE job[o]]
    /\ UNCHANGED <<work, results>>

\* Someone edits the instructions, at any time.
Revise(o) ==
    /\ Exists(o)
    /\ \E b \in Bodies : Put(o, work[o].status, b)
    /\ UNCHANGED <<job, results>>

\* Someone completes a work order by hand, or marks an interrupted one failed.
Settle(o, from, s) ==
    /\ Exists(o)
    /\ work[o].status \in from
    /\ job[o] = NoJob
    /\ Put(o, s, work[o].body)
    /\ UNCHANGED <<job, results>>

Remove(o) ==
    /\ Exists(o)
    /\ job[o] = NoJob
    /\ work' = [work EXCEPT ![o] = Absent]
    /\ UNCHANGED <<job, results>>

Next ==
    \/ \E o \in Orders :
          \/ \E w \in Workers : Start(w, o)
          \/ Publish(o) \/ Revise(o) \/ Remove(o)
          \/ \E s \in {"archived", "active", "failed"} : Finish(o, s)
          \/ Settle(o, {"active", "failed"}, "archived")
          \/ Settle(o, {"running"}, "failed")
    \/ \E os \in SUBSET Orders : Abandon(os)

Spec == Init /\ [][Next]_vars
=============================================================================
