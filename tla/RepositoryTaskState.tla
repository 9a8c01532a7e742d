------------------------ MODULE RepositoryTaskState ------------------------
(***************************************************************************)
(* What is known of the tasks of the repositories of one workspace, and    *)
(* what is promised to those who are told of it.  How tasks are launched,  *)
(* run, read and waited for is in RepositoryTasks.                         *)
(***************************************************************************)
EXTENDS Integers, FiniteSets, FiniteSetsExt

CONSTANT Repos  \* registered repositories with a folder

VARIABLES
    run,        \* the runs begun, in the order of started_at
    record,     \* the record file of every run
    known,      \* WorkspaceTaskRunRecordCache
    read,       \* the read that all readers of the window share
    item        \* the items of the batch

-----------------------------------------------------------------------------
Final == {"succeeded", "failed"}

\* The newest of the runs R that is one of repository p, 0 if none is.
Latest(p, R) == Max({0} \cup {r \in R : run[r].repo = p})

\* Every answer names the newest run of each repository that it could read, and tells
\* its result if the terminal had published it when the read began or when the live
\* processes were listed: a run that ends during a scan is never told as stopped. A
\* result is never made up or taken from another run, only a record that cannot be read
\* just then is exempt. It holds although the terminal replaces files between the steps
\* of a scan and the cache answers without reading.
ReadIsCurrent ==
    read.phase = "answered" =>
        \A p \in Repos :
            LET told == read.told[p] IN
            /\ told.run = Latest(p, {r \in 1..read.runs : known.seen[r].state # "unreadable"})
            /\ told.run \in read.settled \/ told.state \in Final
                  => told.state = record[told.run].state

\* The batch calls an item succeeded only when the very run it launched did: an answer
\* it joined may come from a read that began before its launch, and tell of an earlier
\* run of the repository that succeeded.
BatchTellsItsRun ==
    \A p \in Repos :
        item[p].state = "succeeded" => item[p].run # 0 /\ record[item[p].run].state = "succeeded"

\* What the readers and the batch are told of runs is so (project_repository_task.rs).
TasksAreToldRight == ReadIsCurrent /\ BatchTellsItsRun
=============================================================================
