---------------------------- MODULE MCQueueParts ----------------------------
(***************************************************************************)
(* The queue folder, the evidence of briefs and the panel of the queue,    *)
(* side by side for TLC: a behaviour is one of one part, the others stay   *)
(* as they begin.                                                          *)
(***************************************************************************)
EXTENDS MCQueueFolder, BriefEvidence, QueuePanelState

VARIABLE part

panelVars == <<file, lock, panel, ids, calls, refreshes, clicked, inputs, outside>>

\* Two programs and two work orders that may delegate one report and name no repository.
Delegations == INSTANCE QueueFolder WITH
    Repositories <- {}, ReportNames <- {}

\* One program, one work order and two reports, one file within the discovery limit.
Briefs == INSTANCE BriefEvidence WITH
    Processes <- {q1}, Sources <- {}, OrderNames <- {w1}, ReportNames <- {f1, f2}

\* No work order of theirs has an evaluator's task, which briefs do not look at.
NoEvaluation ==
    \A q \in DOMAIN command : command[q] # None /\ command[q].file = w1 => ~command[q].content.evaluates

AllActs == {"select", "run", "cancel", "complete", "edit", "create", "delete", "leave"}

\* One work order and everything that users do; two of them and less.
Panel == INSTANCE QueuePanel WITH
    Orders <- {1}, Begin <- {1 :> "active", 1 :> "unwritten"}, Acts <- AllActs,
    MaxInputs <- 3, MaxOutside <- 1

TwoOrders == INSTANCE QueuePanel WITH
    Orders <- {1, 2}, Begin <- {1 :> "active" @@ 2 :> "active"},
    Acts <- {"select", "cancel", "complete", "edit", "delete"}, MaxInputs <- 3, MaxOutside <- 0

\* One work order, its editor and another program that runs it more than once.
Edited == INSTANCE QueuePanel WITH
    Orders <- {1}, Begin <- {1 :> "active"}, Acts <- {"select", "edit"},
    MaxInputs <- 3, MaxOutside <- 2

ASSUME PanelAssumption ==
    Panel!QueuePanelConstants /\ TwoOrders!QueuePanelConstants /\ Edited!QueuePanelConstants

PartInit ==
    /\ part \in {"folder", "briefs", "panel", "two orders", "edited"}
    /\ IF part = "folder" THEN Delegations!FolderInit /\ Briefs!NoEvidence ELSE Briefs!BriefInit
    /\ CASE part = "two orders" -> TwoOrders!Init
         [] part = "edited" -> Edited!Init
         [] OTHER -> Panel!Init
    /\ part = "panel" \/ \A o \in DOMAIN file : file[o].status = "active"

PartNext ==
    /\ \/ part = "folder" /\ Delegations!FolderNext /\ UNCHANGED <<briefVars, panelVars>>
       \/ part = "briefs" /\ Briefs!BriefNext /\ NoEvaluation' /\ UNCHANGED panelVars
       \/ part = "panel" /\ Panel!Next /\ UNCHANGED <<folderVars, briefVars>>
       \/ part = "two orders" /\ TwoOrders!Next /\ UNCHANGED <<folderVars, briefVars>>
       \/ part = "edited" /\ Edited!Next /\ UNCHANGED <<folderVars, briefVars>>
    /\ UNCHANGED part

PartSpec == PartInit /\ [][PartNext]_<<part, folderVars, briefVars, panelVars>>
=============================================================================
