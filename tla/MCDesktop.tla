----------------------------- MODULE MCDesktop ------------------------------
(***************************************************************************)
(* The parts of the desktop that share no state, side by side for TLC: a    *)
(* behaviour is one of one part, the others stay as they begin. Every part  *)
(* keeps its own constants, variables and properties.                       *)
(***************************************************************************)
EXTENDS WorkspaceAccess, RepositoryInspectionState, RepositoryTaskState, WorkspaceSyncState,
        ProjectRegistriesState, TLC

CONSTANTS r1, r2, p1, p2, w1

Paths == {p1, p2}

VARIABLES
    part,
    path, priority, open, seen, shown, cache, gen, active, refresh, single,
    calls, worker, events, flight, now, spent,
    migrated, accepted, answers, committed, task, rfailures,
    term, old, dir, launch, tshown, poll, tinputs, faults,
    syncFile, tracked, stored, syncPanel, mounted, syncMade, syncInputs, errors,
    order, runLock, page, ids, pageCalls, refreshes, clicked, pageInputs, outside

inspectionVars == <<path, priority, open, seen, shown, cache, gen, active, refresh, single,
                    calls, queue, jobs, scans, rejected, worker, events, flight, now, spent>>
accessVars == vars
registryVars == <<row, migrated, board, accepted, writes, answers, committed, task, overtaken,
                  edits, rfailures>>
taskVars == <<run, record, term, old, dir, known, read, launch, tshown, poll, item, tinputs, faults>>
syncVars == <<local, syncFile, head, tracked, upstream, remote, stored, syncPanel, flow, mounted, lost,
              syncMade, syncInputs, errors>>
panelVars == <<order, runLock, page, ids, pageCalls, refreshes, clicked, pageInputs, outside>>
allVars == <<part, inspectionVars, accessVars, registryVars, taskVars, syncVars, panelVars>>

Inspection == INSTANCE RepositoryInspection WITH
    Repos <- {r1, r2}, Projects <- {{r1}, {r2}}, Workers <- {1}, TTL <- 1,
    HomePath <- r1 :> p1 @@ r2 :> p2, MaxScans <- 3, MaxClock <- 1, MaxChanges <- 1

Registries == INSTANCE ProjectRegistries WITH
    Windows <- {w1}, Legacy <- {0}, MaxVisits <- 2, MaxInputs <- 3, MaxFailures <- 1,
    events <- committed, failures <- rfailures

\* Two runs of one repository; one run and a failure; the two terminals of a server.
Tasks == INSTANCE RepositoryTasks WITH
    Kinds <- {"build"}, Concurrency <- 1, MaxAttempts <- 1,
    MaxRuns <- 2, MaxInputs <- 2, MaxFaults <- 0,
    shown <- tshown, inputs <- tinputs

FailingTasks == INSTANCE RepositoryTasks WITH
    Kinds <- {"server"}, Concurrency <- 1, MaxAttempts <- 2,
    MaxRuns <- 1, MaxInputs <- 2, MaxFaults <- 1,
    shown <- tshown, inputs <- tinputs

ServerTasks == INSTANCE RepositoryTasks WITH
    Kinds <- {"server"}, Concurrency <- 1, MaxAttempts <- 2,
    MaxRuns <- 2, MaxInputs <- 1, MaxFaults <- 0,
    shown <- tshown, inputs <- tinputs

Sync == INSTANCE WorkspaceSync WITH
    Panels <- {1, 2}, Slots <- {1, 2}, PlainFiles <- {"plain"},
    MaxMade <- 2, MaxInputs <- 2, MaxFaults <- 1,
    file <- syncFile, panel <- syncPanel, made <- syncMade, inputs <- syncInputs

\* One work order that is run while the page is left; MCQueueParts has what else users do.
Panel == INSTANCE QueuePanel WITH
    Orders <- {r1}, Null <- None, Begin <- {r1 :> "active"}, Acts <- {"select", "run", "leave"},
    MaxInputs <- 2, MaxOutside <- 1,
    file <- order, lock <- runLock, panel <- page, calls <- pageCalls, inputs <- pageInputs

ASSUME PartsAssumption ==
    /\ Inspection!InspectionConstants /\ AccessConstants /\ Registries!RegistryConstants
    /\ Tasks!TaskConstants /\ FailingTasks!TaskConstants /\ ServerTasks!TaskConstants
    /\ Sync!SyncConstants /\ Panel!QueuePanelConstants

-----------------------------------------------------------------------------
InspectionStep ==
    part = "inspection" /\ Inspection!Next /\ UNCHANGED <<part, accessVars, registryVars, taskVars, syncVars, panelVars>>
AccessStep ==
    part = "access" /\ Next /\ UNCHANGED <<part, inspectionVars, registryVars, taskVars, syncVars, panelVars>>
RegistriesStep ==
    part = "registries" /\ Registries!Next /\ UNCHANGED <<part, inspectionVars, accessVars, taskVars, syncVars, panelVars>>
NotTasks == UNCHANGED <<part, inspectionVars, accessVars, registryVars, syncVars, panelVars>>
TasksStep ==
    /\ \/ part = "tasks" /\ Tasks!Next
       \/ part = "failing tasks" /\ FailingTasks!Next
       \/ part = "server tasks" /\ ServerTasks!Next
    /\ NotTasks
SyncStep ==
    part = "sync" /\ Sync!Next /\ UNCHANGED <<part, inspectionVars, accessVars, registryVars, taskVars, panelVars>>
NotPanel == UNCHANGED <<part, inspectionVars, accessVars, registryVars, taskVars, syncVars>>
PanelStep == part = "panel" /\ Panel!Next /\ NotPanel

TaskParts == {"tasks", "failing tasks", "server tasks"}
FreshTasks ==
    /\ part = "tasks" => Tasks!Init
    /\ part = "failing tasks" => FailingTasks!Init
    /\ part \notin {"tasks", "failing tasks"} => ServerTasks!Init

\* A part that rests begins in one of its initial states.
PartInit ==
    /\ part \in {"inspection", "access", "registries", "sync", "panel"} \cup TaskParts
    /\ Inspection!Init /\ Init /\ Registries!Init /\ FreshTasks /\ Sync!Init /\ Panel!Init
    /\ part = "sync" \/ ~upstream
    /\ part = "registries" \/ (row = {} /\ board[w1].view = 0)

PartNext == InspectionStep \/ AccessStep \/ RegistriesStep \/ TasksStep \/ SyncStep \/ PanelStep

\* Progress is owed in the parts that a liveness property is about.
InspectionProgress ==
    /\ part = "inspection" /\ Inspection!Progress
    /\ UNCHANGED <<part, accessVars, registryVars, taskVars, syncVars, panelVars>>
TasksProgress == part = "failing tasks" /\ FailingTasks!Progress /\ NotTasks
TimerFires == part = "failing tasks" /\ FailingTasks!TimerFires /\ NotTasks
PanelProgress == part = "panel" /\ Panel!Progress /\ NotPanel

PartSpec ==
    /\ PartInit /\ [][PartNext]_allVars
    /\ WF_allVars(InspectionProgress) /\ WF_allVars(TasksProgress) /\ WF_allVars(TimerFires)
    /\ WF_allVars(PanelProgress)

-----------------------------------------------------------------------------
SelectedAreInspected == Inspection!SelectedAreInspected
ListCatchesUp == part = "panel" => Panel!ListCatchesUp
ResultsAreShown == part = "failing tasks" => FailingTasks!ResultsAreShown
=============================================================================
