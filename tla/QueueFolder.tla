----------------------------- MODULE QueueFolder -----------------------------
(***************************************************************************)
(* The queue directory of one workspace: its work orders and result        *)
(* reports together.  BriefEvidence has the briefs that are linked to      *)
(* work orders.                                                            *)
(*                                                                         *)
(* A command of queue_folder.rs that writes takes the workspace registry   *)
(* lock, checks and then writes; programs that share the workspace meet    *)
(* between its check and its write.  A command that only removes a file    *)
(* and a native run that commits a transition need the lock for one        *)
(* moment; a run publishes its report without it.  What happens between    *)
(* two steps of one work order (locks, stale snapshots, lost commits) is   *)
(* the module QueueExecution; here the content of a work order has the     *)
(* fields that tie it to other records, which the runner reads and writes  *)
(* through a struct of its own.                                            *)
(***************************************************************************)
EXTENDS Naturals, FiniteSets

CONSTANTS
    Processes,    \* programs that share the workspace
    OrderNames,   \* names of work-order files; each names one work order
    ReportNames,  \* names of result-report files
    Sources,      \* result reports that follow-up work can refer to
    Repositories, \* repositories that tasks and briefs can refer to
    None,         \* a field that is not there
    Missing,      \* a file that was never written
    Deleted,      \* a file that was removed (names carry a time: no reuse)
    MaxFiles      \* QUEUE_FOLDER_MAX_FILES

ASSUME FolderAssumption ==
    /\ None \notin Sources \cup Repositories
    /\ IsFiniteSet(OrderNames) /\ IsFiniteSet(ReportNames) /\ OrderNames \cap ReportNames = {}
    /\ MaxFiles \in Nat \ {0}

Statuses == {"active", "running", "failed", "archived"}

\* source: sourceReport.id; evaluates: a task has the evaluator skill;
\* repository: repositoryIds of the tasks; agents: the tasks have agents.
WorkOrder == [status : Statuses, source : Sources \cup {None}, evaluates : BOOLEAN,
              repository : Repositories \cup {None}, agents : BOOLEAN]

\* sameTasks: its entries carry the task ids of the work order; fits: it is not
\* larger than QUEUE_FILE_MAX_BYTES.
Report == [order : OrderNames, sameTasks : BOOLEAN, fits : BOOLEAN]

\* A run remembers the work order it rewrote, and whether its report is out.
Run == [locked : WorkOrder, reported : BOOLEAN]

\* A command that has checked: what it will write where, and whether the author of the
\* work order asks for it. crowded is history: a run published a report since the check.
Command ==
    [file : OrderNames, content : WorkOrder, asks : BOOLEAN, crowded : BOOLEAN]
        \cup [file : ReportNames, content : Report, asks : {FALSE}, crowded : BOOLEAN]

ASSUME FilesAssumption ==
    /\ Missing # Deleted
    /\ {Missing, Deleted} \cap (WorkOrder \cup Report) = {}
    /\ None \notin Run \cup WorkOrder \cup Command

VARIABLES
    orders,   \* the work-order files
    reports,  \* the result-report files
    run,      \* the native run of each work order
    asked,    \* each work order as the panel last wrote it (history)
    command   \* the command that each program has under way, with the registry lock

folderVars == <<orders, reports, run, asked, command>>

FolderInit ==
    /\ orders = [n \in OrderNames |-> Missing]
    /\ reports = [r \in ReportNames |-> Missing]
    /\ run = [n \in OrderNames |-> None]
    /\ asked = [n \in OrderNames |-> None]
    /\ command = [q \in Processes |-> None]

OrderFiles  == {n \in DOMAIN orders : orders[n] \in WorkOrder}
ReportFiles == {r \in DOMAIN reports : reports[r] \in Report}

-----------------------------------------------------------------------------
(* The commands of the panel *)

\* list_known_queue_files gives up on more files than the limit.
Listable == Cardinality(OrderFiles) + Cardinality(ReportFiles) <= MaxFiles

\* ensure_queue_file_capacity.
HasRoom == Cardinality(OrderFiles) + Cardinality(ReportFiles) < MaxFiles

\* The report that a work order delegates the evaluation of.
DelegationSource(c) == IF c.evaluates THEN c.source ELSE None

\* ensure_unique_evaluation_delegation: n is the file about to be written.
NoOtherDelegation(n, c) ==
    DelegationSource(c) # None =>
        \A m \in OrderFiles \ {n} : DelegationSource(orders[m]) # DelegationSource(c)

\* Work done by hand, a follow-up of a reviewed report, the delegation of its
\* evaluation; only the first can name a repository or agents yet.
NewOrders ==
    {c \in WorkOrder : /\ c.status = "active"
                       /\ c.source # None => c.repository = None /\ ~c.agents}

\* Mutant: every program names the lock by the path as it was given.
RegistryLockFree_AsSpelled == TRUE

\* acquire_workspace_registry_lock waits for a file lock that other programs hold too.
RegistryLockFree == \A q \in Processes : command[q] = None

\* The checks of a command have passed.
Checked(q, f, c, asks) ==
    /\ RegistryLockFree
    /\ command' = [command EXCEPT ![q] = [file |-> f, content |-> c, asks |-> asks, crowded |-> FALSE]]
    /\ UNCHANGED <<orders, reports, run, asked>>

\* write_queue_work_order_file.
CreateOrder(q, n, c) ==
    /\ c \in NewOrders
    /\ orders[n] = Missing
    /\ HasRoom
    /\ NoOtherDelegation(n, c)
    /\ Checked(q, n, c, TRUE)

\* update_queue_work_order_file, with the file as its author read it.
Rewrite(q, n, c, asks) ==
    n \in OrderFiles /\ NoOtherDelegation(n, c) /\ Checked(q, n, c, asks)

\* A task is edited: skills, agents and repositories are what the form says, the
\* source report stays.
EditOrder(q, n) ==
    \E e, a \in BOOLEAN, p \in Repositories \cup {None} :
        Rewrite(q, n, [orders[n] EXCEPT !.evaluates = e, !.repository = p, !.agents = a], TRUE)

\* A work order is done by hand, or its run is found dead and marked failed,
\* which needs the execution lock.
SettleOrder(q, n, status) ==
    /\ Rewrite(q, n, [orders[n] EXCEPT !.status = status], FALSE)
    /\ \/ status = "archived" /\ orders[n].status \in {"active", "failed"}
       \/ status = "failed" /\ orders[n].status = "running" /\ run[n] = None

\* write_queue_result_report_file: a report made elsewhere for a work order.
WriteReportFile(q, r, n) ==
    /\ reports[r] = Missing
    /\ HasRoom
    /\ \E same \in BOOLEAN :
           Checked(q, r, [order |-> n, sameTasks |-> same, fits |-> TRUE], FALSE)

\* write_file_exclusively refuses a name that is taken, which a report's may be by now;
\* write_file_atomically replaces. The author of a delegation keeps taking it for one.
Writes(q) ==
    LET w == command[q] IN
    /\ w # None
    /\ \/ /\ w.file \in OrderNames
          /\ orders' = [orders EXCEPT ![w.file] = w.content]
          /\ asked' = IF ~w.asks THEN asked
                      ELSE [asked EXCEPT ![w.file] =
                               IF @ = None THEN w.content ELSE [w.content EXCEPT !.source = asked[w.file].source]]
          /\ UNCHANGED reports
       \/ /\ w.file \in ReportNames /\ reports[w.file] = Missing
          /\ reports' = [reports EXCEPT ![w.file] = w.content]
          /\ UNCHANGED <<orders, asked>>
    /\ command' = [command EXCEPT ![q] = None]
    /\ UNCHANGED run

\* The file cannot be written, or the program dies: the lock is free again.
GivesUp(q) ==
    /\ command[q] # None
    /\ command' = [command EXCEPT ![q] = None]
    /\ UNCHANGED <<orders, reports, run, asked>>

\* delete_queue_file; a work order needs its execution lock.
DeleteOrder(n) ==
    /\ RegistryLockFree
    /\ n \in OrderFiles
    /\ run[n] = None
    /\ orders' = [orders EXCEPT ![n] = Deleted]
    /\ UNCHANGED <<reports, run, asked, command>>

DeleteReport(r) ==
    /\ RegistryLockFree
    /\ r \in ReportFiles
    /\ reports' = [reports EXCEPT ![r] = Deleted]
    /\ UNCHANGED <<orders, run, asked, command>>

-----------------------------------------------------------------------------
(* A native run *)

\* The runner's QueueWorkOrder has no sourceReport and its tasks have no
\* repositoryIds: what it parses and writes again has lost both.
Rewritten(c, status) ==
    [c EXCEPT !.status = status, !.source = None, !.repository = None]

\* A running work order without a run is an interrupted one with its marker.
BeginRun(n) ==
    /\ RegistryLockFree
    /\ n \in OrderFiles
    /\ run[n] = None
    /\ orders[n].agents
    /\ orders[n].status # "archived"
    /\ orders' = [orders EXCEPT ![n] = Rewritten(@, "running")]
    /\ run' = [run EXCEPT ![n] = [locked |-> Rewritten(orders[n], "running"),
                                  reported |-> FALSE]]
    /\ UNCHANGED <<reports, asked, command>>

\* write_result_report: a new name is all it asks for, no lock and no room.  Every entry
\* gets a task id of its own (create_result_report_task).
PublishReport(n, r) ==
    /\ run[n] # None
    /\ ~run[n].reported
    /\ reports[r] = Missing
    /\ \E fits \in BOOLEAN :
           reports' = [reports EXCEPT ![r] = [order |-> n, sameTasks |-> FALSE, fits |-> fits]]
    /\ run' = [run EXCEPT ![n].reported = TRUE]
    /\ command' = [q \in Processes |-> IF command[q] = None THEN None
                                       ELSE [command[q] EXCEPT !.crowded = TRUE]]
    /\ UNCHANGED <<orders, asked>>

\* The last transition, unless the file changed under the run: a published
\* report completes it ("active" for --keep-work-order) or its commit failed.
EndRun(n) ==
    /\ RegistryLockFree
    /\ run[n] # None
    /\ \/ /\ orders[n] = run[n].locked
          /\ \E status \in {"failed"} \cup (IF run[n].reported THEN {"archived", "active"} ELSE {}) :
                 orders' = [orders EXCEPT ![n] = Rewritten(@, status)]
       \/ orders[n] # run[n].locked /\ UNCHANGED orders
    /\ run' = [run EXCEPT ![n] = None]
    /\ UNCHANGED <<reports, asked, command>>

\* The process dies.
InterruptRun(n) ==
    /\ run[n] # None
    /\ run' = [run EXCEPT ![n] = None]
    /\ UNCHANGED <<orders, reports, asked, command>>

-----------------------------------------------------------------------------

CommandStep(q, n) ==
    \/ \E c \in NewOrders : CreateOrder(q, n, c)
    \/ EditOrder(q, n)
    \/ \E status \in {"archived", "failed"} : SettleOrder(q, n, status)
    \/ \E r \in ReportNames : WriteReportFile(q, r, n)

RunStep(n) ==
    \/ BeginRun(n) \/ EndRun(n) \/ InterruptRun(n)
    \/ \E r \in ReportNames : PublishReport(n, r)

FolderNext ==
    \/ \E q \in Processes : Writes(q) \/ GivesUp(q) \/ (\E n \in OrderNames : CommandStep(q, n))
    \/ \E n \in OrderNames : DeleteOrder(n) \/ RunStep(n)
    \/ \E r \in ReportNames : DeleteReport(r)

FolderSpec == FolderInit /\ [][FolderNext]_folderVars

-----------------------------------------------------------------------------
(* Properties *)

\* The type invariant.
FolderTypeOK ==
    /\ orders \in [OrderNames -> WorkOrder \cup {Missing, Deleted}]
    /\ reports \in [ReportNames -> Report \cup {Missing, Deleted}]
    /\ run \in [OrderNames -> Run \cup {None}]
    /\ asked \in [OrderNames -> WorkOrder \cup {None}]
    /\ \A n \in OrderNames : orders[n] # Missing => asked[n] # None
    /\ command \in [Processes -> Command \cup {None}]

\* At no time two files say that they delegate the evaluation of one report, although
\* programs check the directory and write to it in two steps, die between them, and
\* native runs and deletions change what was checked (ensure_unique_evaluation_delegation).
UniqueDelegation ==
    \A m, n \in OrderFiles :
        /\ DelegationSource(orders[m]) # None
        /\ DelegationSource(orders[m]) = DelegationSource(orders[n])
        => m = n

\* No command of the panel fills the queue beyond what the panel can list. Exempt is a
\* command during which a run published its report: nothing counts again before it writes.
PanelNeverOverfills ==
    [][/\ Listable
       /\ \A n \in OrderNames : run'[n] = run[n]
       /\ \A q \in Processes : command[q] # None => ~command[q].crowded
       => Listable']_folderVars

-----------------------------------------------------------------------------
(* Claims of the repository that the code does not keep *)

\* evaluation_delegation.rs:7: "A matching evaluator source report may have only
\* one delegation".
OneDelegationPerReport ==
    \A m, n \in OrderFiles :
        /\ DelegationSource(asked[m]) # None
        /\ DelegationSource(asked[m]) = DelegationSource(asked[n])
        => m = n

=============================================================================
