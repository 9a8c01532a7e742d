--------------------- MODULE RepositoryInspectionState ---------------------
(***************************************************************************)
(* The state of the native scheduler of repository inspections, and what   *)
(* is promised of it.  How scans are asked for, scheduled, cancelled and   *)
(* counted is in RepositoryInspection.                                     *)
(***************************************************************************)
EXTENDS Integers, FiniteSets, SequencesExt

CONSTANTS
    Capacity,   \* REPOSITORY_INSPECTION_QUEUE_CAPACITY
    NoValue     \* no job, no scan, no status, nothing under way

VARIABLES
    queue,      \* InspectionQueue.paths
    jobs,       \* InspectionQueue.jobs
    scans,      \* SchedulerState.scans: the pending count of each scan
    rejected    \* immediate records of the schedule call on the main thread

-----------------------------------------------------------------------------
HeldPaths == {p \in DOMAIN jobs : jobs[p] # NoValue}
Claims(p, s) == {c \in jobs[p].subs : c[1] = s}

\* What the jobs owe a scan: its subscriptions, by path.
Owed(s) == UNION {{p} \X Claims(p, s) : p \in HeldPaths}

\* A path is queued exactly once while its job waits, at most Capacity jobs exist,
\* and the pending count of a registered scan is the number of records that will
\* still be counted for it: those its subscriptions wait for and those the main
\* thread rejected and counts after it gave the lock up. So no scan is closed
\* early or left registered (repository_inspection_scheduler.rs).
SchedulerIsExact ==
    /\ IsInjective(queue)
    /\ ToSet(queue) = {p \in HeldPaths : ~jobs[p].running}
    /\ Cardinality(HeldPaths) <= Capacity
    /\ \A s \in DOMAIN scans : scans[s] # NoValue =>
          scans[s] = Cardinality(Owed(s))
                     + IF rejected # NoValue /\ rejected.scan = s
                       THEN Cardinality(rejected.repos) ELSE 0
=============================================================================
