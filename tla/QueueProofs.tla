----------------------------- MODULE QueueProofs -----------------------------
(***************************************************************************)
(* Proofs about the queue: QueueFolder and BriefEvidence, for any number of *)
(* programs, every set of files, reports and repositories and every limit,  *)
(* and QueueDispatch, for any executions, agents and providers and any      *)
(* limits.  The two share no state.                                         *)
(***************************************************************************)
EXTENDS QueueDispatch, BriefEvidence, FiniteSetTheorems, TLAPS

-----------------------------------------------------------------------------
(* The folder: files and what they hold                                      *)

\* A removed or unwritten file is no content, and no run is no run.
LEMMA Markers ==
    /\ Missing \notin WorkOrder /\ Deleted \notin WorkOrder
    /\ Missing \notin Report /\ Deleted \notin Report
    /\ None \notin Run /\ None \notin WorkOrder /\ None \notin Command
  BY FilesAssumption

LEMMA NewOrdersAreOrders == NewOrders \subseteq WorkOrder
  BY DEF NewOrders

\* What the runner writes is a work order of its own that names no report and
\* no repository.
LEMMA RewrittenIsOrder ==
    ASSUME NEW c \in WorkOrder, NEW s \in Statuses
    PROVE  /\ Rewritten(c, s) \in WorkOrder
           /\ Rewritten(c, s).repository = None
           /\ DelegationSource(Rewritten(c, s)) = None
  BY DEF Rewritten, WorkOrder, DelegationSource

\* A change of status keeps the repository of a work order.
LEMMA StatusKeepsTies ==
    ASSUME NEW c \in WorkOrder, NEW s \in Statuses
    PROVE  /\ [c EXCEPT !.status = s] \in WorkOrder
           /\ [c EXCEPT !.status = s].repository = c.repository
  BY DEF WorkOrder

-----------------------------------------------------------------------------
(* What a step does to the files                                              *)

\* A repository on disk is the one the author asked for; a run only drops it.
TiesAreAsked ==
    \A n \in OrderFiles : orders[n].repository # None =>
        asked[n].repository = orders[n].repository

\* What a command has checked of the content it is about to write.
Sound(f, c, asks) ==
    f \in OrderNames =>
        /\ NoOtherDelegation(f, c)
        /\ asks \/ (asked[f] # None /\ (c.repository # None => asked[f].repository = c.repository))

\* One command at a time, and what it checked still holds when it writes, but for the
\* room that the report of a run took.
OneCommand ==
    \A q, r \in Processes : command[q] # None /\ command[r] # None => q = r
StillSound(w) ==
    /\ Sound(w.file, w.content, w.asks)
    /\ w.crowded \/ w.file \in OrderFiles \/ HasRoom
CommandsAreSound ==
    OneCommand /\ \A q \in Processes : command[q] # None => StillSound(command[q])

\* The inductive invariant.
FolderInv == FolderTypeOK /\ CommandsAreSound /\ UniqueDelegation /\ TiesAreAsked

\* The steps by what they do to the files: a check, a run that rewrites its order or a
\* deletion, and a step that leaves the files and the commands alone.
Checks(q) ==
    \E f \in OrderNames \cup ReportNames, c \in WorkOrder \cup Report, asks \in BOOLEAN :
        /\ Checked(q, f, c, asks)
        /\ [file |-> f, content |-> c, asks |-> asks, crowded |-> FALSE] \in Command
        /\ Sound(f, c, asks)
        /\ f \in OrderFiles \/ HasRoom
Overwrites(n) ==
    /\ RegistryLockFree
    /\ n \in OrderFiles
    /\ \E x \in WorkOrder \cup {Deleted} :
          /\ orders' = [orders EXCEPT ![n] = x]
          /\ x \in WorkOrder => DelegationSource(x) = None /\ x.repository = None
    /\ UNCHANGED <<reports, asked, command>>
LeavesFiles == UNCHANGED <<orders, reports, asked, command>>

LEMMA CommandChecks ==
    ASSUME FolderInv, NEW q \in Processes, NEW n \in OrderNames, CommandStep(q, n)
    PROVE  Checks(q)
  <1>0. n \notin ReportNames BY FolderAssumption
  <1>a. ASSUME NEW c \in WorkOrder, NEW asks \in BOOLEAN, Rewrite(q, n, c, asks),
               asks \/ c.repository = orders[n].repository
        PROVE  Checks(q)
    <2>1. n \in OrderFiles /\ NoOtherDelegation(n, c) /\ Checked(q, n, c, asks) BY <1>a DEF Rewrite
    <2>2. asked[n] # None BY <2>1, Markers DEF FolderInv, FolderTypeOK, OrderFiles
    <2>3. orders[n].repository # None => asked[n].repository = orders[n].repository
      BY <2>1 DEF FolderInv, TiesAreAsked
    <2>4. Sound(n, c, asks) BY <1>a, <2>1, <2>2, <2>3 DEF Sound
    <2>5. [file |-> n, content |-> c, asks |-> asks, crowded |-> FALSE] \in Command BY DEF Command
    <2> QED BY <2>1, <2>4, <2>5 DEF Checks
  <1>1. ASSUME NEW c \in NewOrders, CreateOrder(q, n, c) PROVE Checks(q)
    <2>1. c \in WorkOrder BY NewOrdersAreOrders
    <2>2. [file |-> n, content |-> c, asks |-> TRUE, crowded |-> FALSE] \in Command
      BY <2>1 DEF Command
    <2>3. Sound(n, c, TRUE) /\ HasRoom /\ Checked(q, n, c, TRUE) BY <1>1 DEF CreateOrder, Sound
    <2> QED BY <2>1, <2>2, <2>3 DEF Checks
  <1>2. ASSUME EditOrder(q, n) PROVE Checks(q)
    <2>1. PICK e \in BOOLEAN, a \in BOOLEAN, p \in Repositories \cup {None} :
              Rewrite(q, n, [orders[n] EXCEPT !.evaluates = e, !.repository = p, !.agents = a], TRUE)
      BY <1>2 DEF EditOrder
    <2>2. orders[n] \in WorkOrder BY <2>1 DEF Rewrite, OrderFiles
    <2>3. [orders[n] EXCEPT !.evaluates = e, !.repository = p, !.agents = a] \in WorkOrder
      BY <2>2 DEF WorkOrder
    <2> QED BY <1>a, <2>1, <2>3
  <1>3. ASSUME NEW s \in {"archived", "failed"}, SettleOrder(q, n, s) PROVE Checks(q)
    <2>1. Rewrite(q, n, [orders[n] EXCEPT !.status = s], FALSE) BY <1>3 DEF SettleOrder
    <2>2. orders[n] \in WorkOrder /\ s \in Statuses BY <2>1 DEF Rewrite, OrderFiles, Statuses
    <2>3. /\ [orders[n] EXCEPT !.status = s] \in WorkOrder
          /\ [orders[n] EXCEPT !.status = s].repository = orders[n].repository
      BY <2>2, StatusKeepsTies
    <2> QED BY <1>a, <2>1, <2>3
  <1>4. ASSUME NEW r \in ReportNames, WriteReportFile(q, r, n) PROVE Checks(q)
    <2>1. PICK same \in BOOLEAN :
              Checked(q, r, [order |-> n, sameTasks |-> same, fits |-> TRUE], FALSE)
      BY <1>4 DEF WriteReportFile
    <2>2. [order |-> n, sameTasks |-> same, fits |-> TRUE] \in Report BY DEF Report
    <2>3. r \notin OrderNames BY FolderAssumption
    <2>4. [file |-> r, content |-> [order |-> n, sameTasks |-> same, fits |-> TRUE],
           asks |-> FALSE, crowded |-> FALSE] \in Command
      BY <2>2 DEF Command
    <2>5. HasRoom /\ Sound(r, [order |-> n, sameTasks |-> same, fits |-> TRUE], FALSE)
      BY <1>4, <2>3 DEF WriteReportFile, Sound
    <2> QED BY <2>1, <2>2, <2>4, <2>5 DEF Checks
  <1> QED BY <1>1, <1>2, <1>3, <1>4 DEF CommandStep

LEMMA RunOverwrites ==
    ASSUME FolderInv, NEW n \in OrderNames, DeleteOrder(n) \/ BeginRun(n) \/ EndRun(n)
    PROVE  Overwrites(n) \/ LeavesFiles
  <1>1. CASE DeleteOrder(n) BY <1>1, Markers DEF DeleteOrder, Overwrites
  <1>2. CASE BeginRun(n)
    <2>1. orders[n] \in WorkOrder /\ "running" \in Statuses
      BY <1>2 DEF BeginRun, OrderFiles, Statuses
    <2> QED BY <1>2, <2>1, RewrittenIsOrder DEF BeginRun, Overwrites
  <1>3. CASE EndRun(n)
    <2>1. CASE UNCHANGED orders BY <1>3, <2>1 DEF EndRun, LeavesFiles
    <2>2. CASE orders[n] = run[n].locked
      <3>1. orders[n] \in WorkOrder /\ n \in OrderFiles
        BY <1>3, <2>2 DEF EndRun, FolderInv, FolderTypeOK, Run, OrderFiles
      <3>2. PICK s \in Statuses : orders' = [orders EXCEPT ![n] = Rewritten(@, s)]
        BY <1>3, <2>2 DEF EndRun, Statuses
      <3> QED BY <1>3, <3>1, <3>2, RewrittenIsOrder DEF EndRun, Overwrites
    <2> QED BY <1>3, <2>1, <2>2 DEF EndRun
  <1> QED BY <1>1, <1>2, <1>3

LEMMA KindsOfSteps ==
    ASSUME FolderInv, [FolderNext]_folderVars
    PROVE  \/ \E q \in Processes : Checks(q) \/ Writes(q) \/ GivesUp(q)
           \/ \E n \in OrderNames : Overwrites(n)
           \/ \E n \in OrderNames, r \in ReportNames : PublishReport(n, r)
           \/ \E r \in ReportNames : DeleteReport(r)
           \/ LeavesFiles
  <1>1. ASSUME NEW q \in Processes, NEW n \in OrderNames, CommandStep(q, n) PROVE Checks(q)
    BY <1>1, CommandChecks
  <1>2. ASSUME NEW n \in OrderNames, DeleteOrder(n) \/ BeginRun(n) \/ EndRun(n)
        PROVE  Overwrites(n) \/ LeavesFiles
    BY <1>2, RunOverwrites
  <1>3. ASSUME NEW n \in OrderNames, InterruptRun(n) PROVE LeavesFiles
    BY <1>3 DEF InterruptRun, LeavesFiles
  <1>4. CASE UNCHANGED folderVars BY <1>4 DEF folderVars, LeavesFiles
  <1>5. CASE FolderNext BY <1>1, <1>2, <1>3, <1>5 DEF FolderNext, RunStep
  <1> QED BY <1>4, <1>5

-----------------------------------------------------------------------------
(* Type correctness *)

\* The files, what was asked and the commands keep their types.
LEMMA FilesType ==
    ASSUME FolderInv, [FolderNext]_folderVars
    PROVE  /\ orders' \in [OrderNames -> WorkOrder \cup {Missing, Deleted}]
           /\ reports' \in [ReportNames -> Report \cup {Missing, Deleted}]
           /\ asked' \in [OrderNames -> WorkOrder \cup {None}]
           /\ \A n \in OrderNames : orders'[n] # Missing => asked'[n] # None
           /\ command' \in [Processes -> Command \cup {None}]
  <1> DEFINE Goal == /\ orders' \in [OrderNames -> WorkOrder \cup {Missing, Deleted}]
                     /\ reports' \in [ReportNames -> Report \cup {Missing, Deleted}]
                     /\ asked' \in [OrderNames -> WorkOrder \cup {None}]
                     /\ \A n \in OrderNames : orders'[n] # Missing => asked'[n] # None
                     /\ command' \in [Processes -> Command \cup {None}]
  <1>0. FolderTypeOK BY DEF FolderInv
  <1>1. ASSUME NEW q \in Processes, Checks(q) PROVE Goal
    BY <1>0, <1>1 DEF Checks, Checked, FolderTypeOK
  <1>2. ASSUME NEW q \in Processes, Writes(q) PROVE Goal
    <2> DEFINE w == command[q]
    <2>1. w \in Command /\ StillSound(w)
      BY <1>0, <1>2 DEF Writes, FolderTypeOK, FolderInv, CommandsAreSound
    <2>2. command' = [command EXCEPT ![q] = None] BY <1>2 DEF Writes
    <2>3. CASE /\ w.file \in OrderNames
               /\ orders' = [orders EXCEPT ![w.file] = w.content]
               /\ asked' = IF ~w.asks THEN asked
                           ELSE [asked EXCEPT ![w.file] =
                                    IF @ = None THEN w.content
                                    ELSE [w.content EXCEPT !.source = asked[w.file].source]]
               /\ UNCHANGED reports
      <3>1. w.content \in WorkOrder BY <2>1, <2>3, FolderAssumption DEF Command
      <3>2. asked[w.file] # None => [w.content EXCEPT !.source = asked[w.file].source] \in WorkOrder
        <4> HAVE asked[w.file] # None
        <4>1. asked[w.file] \in WorkOrder BY <1>0, <2>3 DEF FolderTypeOK
        <4> QED BY <3>1, <4>1 DEF WorkOrder
      <3>3. asked' \in [OrderNames -> WorkOrder \cup {None}]
        BY <1>0, <2>3, <3>1, <3>2 DEF FolderTypeOK
      <3>4. asked'[w.file] # None
        <4>1. CASE w.asks BY <1>0, <2>3, <3>1, <3>2, <4>1, Markers DEF FolderTypeOK
        <4>2. CASE ~w.asks BY <2>1, <2>3, <4>2 DEF StillSound, Sound
        <4> QED BY <4>1, <4>2
      <3>5. \A n \in OrderNames \ {w.file} : orders'[n] = orders[n] /\ asked'[n] = asked[n]
        BY <1>0, <2>3 DEF FolderTypeOK
      <3>6. \A n \in OrderNames : orders'[n] # Missing => asked'[n] # None
        BY <1>0, <3>4, <3>5 DEF FolderTypeOK
      <3>7. orders' \in [OrderNames -> WorkOrder \cup {Missing, Deleted}]
        BY <1>0, <2>3, <3>1 DEF FolderTypeOK
      <3> QED BY <1>0, <2>2, <2>3, <3>3, <3>6, <3>7 DEF FolderTypeOK
    <2>4. CASE /\ w.file \in ReportNames
               /\ reports' = [reports EXCEPT ![w.file] = w.content]
               /\ UNCHANGED <<orders, asked>>
      <3>1. w.content \in Report BY <2>1, <2>4, FolderAssumption DEF Command
      <3> QED BY <1>0, <2>2, <2>4, <3>1 DEF FolderTypeOK
    <2> QED BY <1>2, <2>3, <2>4 DEF Writes
  <1>3. ASSUME NEW q \in Processes, GivesUp(q) PROVE Goal BY <1>0, <1>3 DEF GivesUp, FolderTypeOK
  <1>4. ASSUME NEW n \in OrderNames, Overwrites(n) PROVE Goal
    <2>1. PICK x \in WorkOrder \cup {Deleted} : orders' = [orders EXCEPT ![n] = x]
      BY <1>4 DEF Overwrites
    <2>2. asked[n] # None BY <1>0, <1>4, Markers DEF Overwrites, OrderFiles, FolderTypeOK
    <2> QED BY <1>0, <1>4, <2>1, <2>2 DEF Overwrites, FolderTypeOK
  <1>5. ASSUME NEW n \in OrderNames, NEW r \in ReportNames, PublishReport(n, r) PROVE Goal
    <2>1. \A fits \in BOOLEAN : [order |-> n, sameTasks |-> FALSE, fits |-> fits] \in Report
      BY DEF Report
    <2>2. reports' \in [ReportNames -> Report \cup {Missing, Deleted}]
      BY <1>0, <1>5, <2>1 DEF PublishReport, FolderTypeOK
    <2>3. \A w \in Command : [w EXCEPT !.crowded = TRUE] \in Command BY DEF Command
    <2>4. command' \in [Processes -> Command \cup {None}]
      BY <1>0, <1>5, <2>3 DEF PublishReport, FolderTypeOK
    <2> QED BY <1>0, <1>5, <2>2, <2>4 DEF PublishReport, FolderTypeOK
  <1>6. ASSUME NEW r \in ReportNames, DeleteReport(r) PROVE Goal
    BY <1>0, <1>6 DEF DeleteReport, FolderTypeOK
  <1>7. ASSUME LeavesFiles PROVE Goal BY <1>0, <1>7 DEF LeavesFiles, FolderTypeOK
  <1> HIDE DEF Goal
  <1>8. \/ \E q \in Processes : Checks(q) \/ Writes(q) \/ GivesUp(q)
        \/ \E n \in OrderNames : Overwrites(n)
        \/ \E n \in OrderNames, r \in ReportNames : PublishReport(n, r)
        \/ \E r \in ReportNames : DeleteReport(r)
        \/ LeavesFiles
    BY KindsOfSteps
  <1>9. Goal BY <1>1, <1>2, <1>3, <1>4, <1>5, <1>6, <1>7, <1>8
  <1> QED BY <1>9 DEF Goal

LEMMA RunType ==
    ASSUME FolderInv, [FolderNext]_folderVars
    PROVE  run' \in [OrderNames -> Run \cup {None}]
  <1>0. run \in [OrderNames -> Run \cup {None}] BY DEF FolderInv, FolderTypeOK
  <1>1. ASSUME NEW n \in OrderNames, BeginRun(n) PROVE run' \in [OrderNames -> Run \cup {None}]
    <2>1. orders[n] \in WorkOrder BY <1>1 DEF BeginRun, OrderFiles
    <2>2. Rewritten(orders[n], "running") \in WorkOrder BY <2>1, RewrittenIsOrder DEF Statuses
    <2>3. [locked |-> Rewritten(orders[n], "running"), reported |-> FALSE] \in Run BY <2>2 DEF Run
    <2> QED BY <1>0, <1>1, <2>3 DEF BeginRun
  <1>2. ASSUME NEW n \in OrderNames, EndRun(n) \/ InterruptRun(n)
        PROVE  run' \in [OrderNames -> Run \cup {None}]
    BY <1>0, <1>2 DEF EndRun, InterruptRun
  <1>3. ASSUME NEW n \in OrderNames, NEW r \in ReportNames, PublishReport(n, r)
        PROVE  run' \in [OrderNames -> Run \cup {None}]
    <2>1. run[n] \in Run BY <1>0, <1>3 DEF PublishReport
    <2>2. [run[n] EXCEPT !.reported = TRUE] \in Run BY <2>1 DEF Run
    <2> QED BY <1>0, <1>3, <2>2 DEF PublishReport
  <1>4. ASSUME NEW q \in Processes, NEW n \in OrderNames, CommandStep(q, n) PROVE run' = run
    BY <1>4 DEF CommandStep, CreateOrder, EditOrder, SettleOrder, WriteReportFile, Rewrite, Checked
  <1>5. ASSUME NEW q \in Processes, Writes(q) \/ GivesUp(q) PROVE run' = run
    BY <1>5 DEF Writes, GivesUp
  <1>6. ASSUME NEW n \in OrderNames, DeleteOrder(n) PROVE run' = run BY <1>6 DEF DeleteOrder
  <1>7. ASSUME NEW r \in ReportNames, DeleteReport(r) PROVE run' = run BY <1>7 DEF DeleteReport
  <1>8. CASE UNCHANGED folderVars BY <1>0, <1>8 DEF folderVars
  <1> QED BY <1>0, <1>1, <1>2, <1>3, <1>4, <1>5, <1>6, <1>7, <1>8 DEF FolderNext, RunStep

LEMMA NextType ==
    ASSUME FolderInv, [FolderNext]_folderVars
    PROVE  FolderTypeOK'
  BY FilesType, RunType DEF FolderTypeOK

-----------------------------------------------------------------------------
(* Commands write what they checked                                           *)
(*                                                                            *)
(* Only the program that has the lock changes work orders; a run may publish  *)
(* a report meanwhile, which no work order depends on.                        *)

LEMMA NextCommands ==
    ASSUME FolderInv, [FolderNext]_folderVars
    PROVE  CommandsAreSound'
  <1>0. /\ FolderTypeOK /\ OneCommand
        /\ \A q \in Processes : command[q] # None => StillSound(command[q])
    BY DEF FolderInv, CommandsAreSound
  <1>a. ASSUME \A q \in Processes : command'[q] = None PROVE CommandsAreSound'
    BY <1>a DEF CommandsAreSound, OneCommand
  <1>1. ASSUME NEW q \in Processes, Checks(q) PROVE CommandsAreSound'
    <2>1. PICK f \in OrderNames \cup ReportNames, c \in WorkOrder \cup Report, asks \in BOOLEAN :
              /\ Checked(q, f, c, asks)
              /\ Sound(f, c, asks)
              /\ f \in OrderFiles \/ HasRoom
      BY <1>1 DEF Checks
    <2> DEFINE w == [file |-> f, content |-> c, asks |-> asks, crowded |-> FALSE]
    <2>2. command'[q] = w /\ \A r \in Processes \ {q} : command'[r] = None
      BY <1>0, <2>1 DEF Checked, RegistryLockFree, FolderTypeOK
    <2>3. UNCHANGED <<orders, reports, asked>> BY <2>1 DEF Checked
    <2>4. Sound(f, c, asks)' /\ (f \in OrderFiles \/ HasRoom)'
      BY <2>1, <2>3 DEF Sound, NoOtherDelegation, DelegationSource, OrderFiles, ReportFiles, HasRoom
    <2>5. Sound(w.file, w.content, w.asks)' BY <2>4
    <2>6. StillSound(w)' BY <2>4, <2>5 DEF StillSound
    <2> HIDE DEF w
    <2>7. \A r \in Processes : command'[r] # None => r = q /\ StillSound(command[r])' BY <2>2, <2>6
    <2> QED BY <2>7 DEF CommandsAreSound, OneCommand
  <1>2. ASSUME NEW q \in Processes, Writes(q) \/ GivesUp(q) PROVE CommandsAreSound'
    <2>1. command[q] # None /\ command' = [command EXCEPT ![q] = None] BY <1>2 DEF Writes, GivesUp
    <2>2. \A r \in Processes : command'[r] = None BY <1>0, <2>1 DEF OneCommand, FolderTypeOK
    <2> QED BY <1>a, <2>2
  <1>3. ASSUME RegistryLockFree, UNCHANGED command PROVE CommandsAreSound'
    BY <1>a, <1>3 DEF RegistryLockFree
  <1>4. ASSUME NEW n \in OrderNames, NEW r \in ReportNames, PublishReport(n, r)
        PROVE  CommandsAreSound'
    <2>1. \A q \in Processes :
             command'[q] = IF command[q] = None THEN None ELSE [command[q] EXCEPT !.crowded = TRUE]
      BY <1>4 DEF PublishReport
    <2>2. UNCHANGED <<orders, asked>> BY <1>4 DEF PublishReport
    <2>3. ASSUME NEW q \in Processes, command'[q] # None
          PROVE  command[q] # None /\ StillSound(command[q])'
      <3>1. command[q] # None /\ command'[q] = [command[q] EXCEPT !.crowded = TRUE] BY <2>1, <2>3
      <3>2. command[q] \in Command /\ Sound(command[q].file, command[q].content, command[q].asks)
        BY <1>0, <3>1 DEF FolderTypeOK, StillSound
      <3>3. /\ command'[q].file = command[q].file /\ command'[q].content = command[q].content
            /\ command'[q].asks = command[q].asks /\ command'[q].crowded
        BY <3>1, <3>2 DEF Command
      <3>4. Sound(command[q].file, command[q].content, command[q].asks)'
        BY <2>2, <3>2, <3>3 DEF Sound, NoOtherDelegation, DelegationSource, OrderFiles
      <3> QED BY <3>1, <3>3, <3>4 DEF StillSound
    <2> QED BY <1>0, <2>3 DEF CommandsAreSound, OneCommand
  <1>5. CASE LeavesFiles
    BY <1>0, <1>5 DEF LeavesFiles, CommandsAreSound, OneCommand, StillSound, Sound,
      NoOtherDelegation, DelegationSource, OrderFiles, ReportFiles, HasRoom
  <1>6. ASSUME NEW n \in OrderNames, Overwrites(n) PROVE CommandsAreSound'
    BY <1>3, <1>6 DEF Overwrites
  <1>7. ASSUME NEW r \in ReportNames, DeleteReport(r) PROVE CommandsAreSound'
    BY <1>3, <1>7 DEF DeleteReport
  <1> QED BY <1>1, <1>2, <1>4, <1>5, <1>6, <1>7, KindsOfSteps

\* What the write of a command does to the work orders.
LEMMA WritesOneFile ==
    ASSUME FolderInv, NEW q \in Processes, Writes(q)
    PROVE  \/ UNCHANGED <<orders, asked>>
           \/ \E n \in OrderNames, c \in WorkOrder :
                 /\ orders' = [orders EXCEPT ![n] = c]
                 /\ NoOtherDelegation(n, c)
                 /\ c.repository # None => asked'[n].repository = c.repository
                 /\ \A m \in OrderNames \ {n} : asked'[m] = asked[m]
  <1> DEFINE w == command[q]
  <1>1. w \in Command /\ Sound(w.file, w.content, w.asks) /\ FolderTypeOK
    BY DEF Writes, FolderInv, FolderTypeOK, CommandsAreSound, StillSound
  <1>2. CASE /\ w.file \in OrderNames
             /\ orders' = [orders EXCEPT ![w.file] = w.content]
             /\ asked' = IF ~w.asks THEN asked
                         ELSE [asked EXCEPT ![w.file] =
                                  IF @ = None THEN w.content
                                  ELSE [w.content EXCEPT !.source = asked[w.file].source]]
    <2>1. w.content \in WorkOrder BY <1>1, <1>2, FolderAssumption DEF Command
    <2>2. NoOtherDelegation(w.file, w.content) BY <1>1, <1>2 DEF Sound
    <2>3. [w.content EXCEPT !.source = asked[w.file].source].repository = w.content.repository
      BY <2>1 DEF WorkOrder
    <2>4. w.content.repository # None => asked'[w.file].repository = w.content.repository
      <3>1. CASE w.asks BY <1>1, <1>2, <2>3, <3>1 DEF FolderTypeOK
      <3>2. CASE ~w.asks BY <1>1, <1>2, <3>2 DEF Sound
      <3> QED BY <3>1, <3>2
    <2>5. \A m \in OrderNames \ {w.file} : asked'[m] = asked[m] BY <1>1, <1>2 DEF FolderTypeOK
    <2> QED BY <1>2, <2>1, <2>2, <2>4, <2>5
  <1> QED BY <1>2 DEF Writes

-----------------------------------------------------------------------------
(* One delegation on disk                                                     *)
(*                                                                            *)
(* Nothing but a command of the panel makes a file a delegation: a run takes  *)
(* that away.  A command looks at every other file while it has the lock, and *)
(* what its own file says before does not matter.                             *)

\* The source a name delegates, None for a name without a file.
Delegates(n) == IF n \in OrderFiles THEN DelegationSource(orders[n]) ELSE None

\* Files are what a name of a work order leads to.
LEMMA OrderFilesAreNamed ==
    ASSUME FolderTypeOK
    PROVE  OrderFiles = {n \in OrderNames : orders[n] \in WorkOrder}
  BY DEF FolderTypeOK, OrderFiles

LEMMA UniqueByName ==
    ASSUME FolderTypeOK
    PROVE  UniqueDelegation <=>
        \A m, n \in OrderNames : Delegates(m) # None /\ Delegates(m) = Delegates(n) => m = n
  BY OrderFilesAreNamed DEF UniqueDelegation, Delegates

\* A step that changes one file to a delegation no other file has, or to no
\* delegation, keeps delegations unique.
LEMMA OneFileChanges ==
    ASSUME FolderTypeOK, FolderTypeOK', UniqueDelegation, NEW n \in OrderNames,
           \A m \in OrderNames \ {n} : orders'[m] = orders[m],
           \/ Delegates(n)' = None
           \/ \A m \in OrderNames \ {n} : Delegates(m) # Delegates(n)'
    PROVE  UniqueDelegation'
  <1>1. \A m \in OrderNames \ {n} : Delegates(m)' = Delegates(m)
    BY DEF Delegates, OrderFiles, DelegationSource, FolderTypeOK
  <1>2. \A l, m \in OrderNames : Delegates(l) # None /\ Delegates(l) = Delegates(m) => l = m
    BY UniqueByName
  <1>3. \A l, m \in OrderNames :
           Delegates(l)' # None /\ Delegates(l)' = Delegates(m)' => l = m
    BY <1>1, <1>2
  <1>4. OrderFiles' \subseteq OrderNames BY DEF OrderFiles, FolderTypeOK
  <1> QED BY <1>3, <1>4 DEF UniqueDelegation, Delegates

\* What the scan of the directory establishes.
LEMMA ScanIsEnough ==
    ASSUME NEW n \in OrderNames, NEW c \in WorkOrder, NoOtherDelegation(n, c),
           DelegationSource(c) # None
    PROVE  \A m \in OrderNames \ {n} : Delegates(m) # DelegationSource(c)
  BY DEF NoOtherDelegation, Delegates, OrderFiles

LEMMA PanelWriteKeepsUnique ==
    ASSUME FolderTypeOK, FolderTypeOK', UniqueDelegation, NEW n \in OrderNames, NEW c \in WorkOrder,
           NoOtherDelegation(n, c), orders' = [orders EXCEPT ![n] = c]
    PROVE  UniqueDelegation'
  <1>1. orders'[n] = c /\ \A m \in OrderNames \ {n} : orders'[m] = orders[m] BY DEF FolderTypeOK
  <1>2. Delegates(n)' = DelegationSource(c)
    BY <1>1 DEF Delegates, OrderFiles, DelegationSource, FolderTypeOK
  <1> QED BY <1>1, <1>2, ScanIsEnough, OneFileChanges

LEMMA OtherWriteKeepsUnique ==
    ASSUME FolderTypeOK, FolderTypeOK', UniqueDelegation, NEW n \in OrderNames, NEW x,
           x \in WorkOrder => DelegationSource(x) = None,
           orders' = [orders EXCEPT ![n] = x]
    PROVE  UniqueDelegation'
  <1>1. orders'[n] = x /\ \A m \in OrderNames \ {n} : orders'[m] = orders[m] BY DEF FolderTypeOK
  <1>2. Delegates(n)' = None BY <1>1 DEF Delegates, OrderFiles, DelegationSource
  <1> QED BY <1>1, <1>2, OneFileChanges

LEMMA NextUnique ==
    ASSUME FolderInv, [FolderNext]_folderVars
    PROVE  UniqueDelegation'
  <1>0. FolderTypeOK /\ FolderTypeOK' /\ UniqueDelegation BY NextType DEF FolderInv
  <1>1. ASSUME UNCHANGED orders PROVE UniqueDelegation'
    BY <1>0, <1>1 DEF UniqueDelegation, OrderFiles, DelegationSource
  <1>2. ASSUME NEW q \in Processes, Writes(q) PROVE UniqueDelegation'
    <2>1. ASSUME NEW n \in OrderNames, NEW c \in WorkOrder, NoOtherDelegation(n, c),
                 orders' = [orders EXCEPT ![n] = c]
          PROVE  UniqueDelegation'
      BY <1>0, <2>1, PanelWriteKeepsUnique
    <2> QED BY <1>1, <1>2, <2>1, WritesOneFile
  <1>3. ASSUME NEW n \in OrderNames, Overwrites(n) PROVE UniqueDelegation'
    <2>1. PICK x \in WorkOrder \cup {Deleted} :
              /\ orders' = [orders EXCEPT ![n] = x]
              /\ x \in WorkOrder => DelegationSource(x) = None
      BY <1>3 DEF Overwrites
    <2> QED BY <1>0, <2>1, OtherWriteKeepsUnique
  <1>4. ASSUME NEW q \in Processes, Checks(q) \/ GivesUp(q) PROVE UNCHANGED orders
    BY <1>4 DEF Checks, Checked, GivesUp
  <1>5. ASSUME NEW r \in ReportNames, NEW n \in OrderNames, PublishReport(n, r) PROVE UNCHANGED orders
    BY <1>5 DEF PublishReport
  <1>6. ASSUME NEW r \in ReportNames, DeleteReport(r) PROVE UNCHANGED orders
    BY <1>6 DEF DeleteReport
  <1>7. ASSUME LeavesFiles PROVE UNCHANGED orders BY <1>7 DEF LeavesFiles
  <1> QED BY <1>1, <1>2, <1>3, <1>4, <1>5, <1>6, <1>7, KindsOfSteps

-----------------------------------------------------------------------------
(* Work keeps to the repository it was meant for                              *)

LEMMA NextTies ==
    ASSUME FolderInv, [FolderNext]_folderVars
    PROVE  TiesAreAsked'
  <1>0. FolderTypeOK /\ FolderTypeOK' /\ TiesAreAsked BY NextType DEF FolderInv
  <1>1. ASSUME UNCHANGED <<orders, asked>> PROVE TiesAreAsked'
    BY <1>0, <1>1 DEF TiesAreAsked, OrderFiles
  <1>2. ASSUME NEW n \in OrderNames, NEW x, orders' = [orders EXCEPT ![n] = x],
               \A m \in OrderNames \ {n} : asked'[m] = asked[m],
               x \in WorkOrder /\ x.repository # None => asked'[n].repository = x.repository
        PROVE  TiesAreAsked'
    <2>1. orders'[n] = x /\ \A m \in OrderNames \ {n} : orders'[m] = orders[m]
      BY <1>0, <1>2 DEF FolderTypeOK
    <2>2. OrderFiles' \subseteq OrderNames BY <1>0 DEF OrderFiles, FolderTypeOK
    <2>3. \A m \in OrderFiles' \ {n} : m \in OrderFiles
      BY <1>0, <2>1, <2>2 DEF OrderFiles, FolderTypeOK
    <2> QED BY <1>0, <1>2, <2>1, <2>2, <2>3 DEF TiesAreAsked, OrderFiles
  <1>3. ASSUME NEW q \in Processes, Writes(q) PROVE TiesAreAsked' BY <1>1, <1>2, <1>3, WritesOneFile
  <1>4. ASSUME NEW n \in OrderNames, Overwrites(n) PROVE TiesAreAsked'
    <2>1. PICK x \in WorkOrder \cup {Deleted} :
              /\ orders' = [orders EXCEPT ![n] = x]
              /\ x \in WorkOrder => x.repository = None
      BY <1>4 DEF Overwrites
    <2>2. UNCHANGED asked BY <1>4 DEF Overwrites
    <2> QED BY <1>2, <2>1, <2>2
  <1>5. ASSUME NEW q \in Processes, Checks(q) \/ GivesUp(q) PROVE UNCHANGED <<orders, asked>>
    BY <1>5 DEF Checks, Checked, GivesUp
  <1>6. ASSUME NEW r \in ReportNames, NEW n \in OrderNames, PublishReport(n, r)
        PROVE  UNCHANGED <<orders, asked>>
    BY <1>6 DEF PublishReport
  <1>7. ASSUME NEW r \in ReportNames, DeleteReport(r) PROVE UNCHANGED <<orders, asked>>
    BY <1>7 DEF DeleteReport
  <1>8. ASSUME LeavesFiles PROVE UNCHANGED <<orders, asked>> BY <1>8 DEF LeavesFiles
  <1> QED BY <1>1, <1>3, <1>4, <1>5, <1>6, <1>7, <1>8, KindsOfSteps

-----------------------------------------------------------------------------

LEMMA InitFolder == FolderInit => FolderInv
  <1> SUFFICES ASSUME FolderInit PROVE FolderInv OBVIOUS
  <1>1. FolderTypeOK BY DEF FolderInit, FolderTypeOK
  <1>2. CommandsAreSound BY DEF FolderInit, CommandsAreSound, OneCommand
  <1>3. OrderFiles = {} BY Markers DEF FolderInit, OrderFiles
  <1> QED BY <1>1, <1>2, <1>3 DEF FolderInv, UniqueDelegation, TiesAreAsked

LEMMA NextFolder == FolderInv /\ [FolderNext]_folderVars => FolderInv'
  BY NextType, NextCommands, NextUnique, NextTies DEF FolderInv

\* Every variable keeps its type.
THEOREM FolderTypeCorrect == FolderSpec => []FolderTypeOK
  <1>1. FolderInv => FolderTypeOK BY DEF FolderInv
  <1> QED BY <1>1, InitFolder, NextFolder, PTL DEF FolderSpec

\* No two files ever delegate the evaluation of the same report, however many programs
\* check the directory and write to it in two steps.
THEOREM DelegationIsUnique == FolderSpec => []UniqueDelegation
  <1>1. FolderInv => UniqueDelegation BY DEF FolderInv
  <1> QED BY <1>1, InitFolder, NextFolder, PTL DEF FolderSpec

-----------------------------------------------------------------------------
(* The queue stays listable                                                   *)

\* Files that lose some of their number stay within the limit.
LEMMA FewerFiles ==
    ASSUME FolderTypeOK, Listable, OrderFiles' \subseteq OrderFiles, ReportFiles' \subseteq ReportFiles
    PROVE  Listable'
  <1>1. IsFiniteSet(OrderFiles) /\ IsFiniteSet(ReportFiles)
    BY FolderAssumption, FS_Subset DEF OrderFiles, ReportFiles, FolderTypeOK
  <1>2. /\ IsFiniteSet(OrderFiles') /\ Cardinality(OrderFiles') <= Cardinality(OrderFiles)
        /\ IsFiniteSet(ReportFiles') /\ Cardinality(ReportFiles') <= Cardinality(ReportFiles)
    BY <1>1, FS_Subset
  <1>3. /\ Cardinality(OrderFiles) \in Nat /\ Cardinality(OrderFiles') \in Nat
        /\ Cardinality(ReportFiles) \in Nat /\ Cardinality(ReportFiles') \in Nat
    BY <1>1, <1>2, FS_CardinalityType
  <1> QED BY <1>2, <1>3, FolderAssumption DEF Listable

\* One file more fits where the capacity was checked.
LEMMA OneMoreFile ==
    ASSUME FolderTypeOK, HasRoom, NEW x,
           \/ OrderFiles' \subseteq OrderFiles \cup {x} /\ ReportFiles' \subseteq ReportFiles
           \/ OrderFiles' \subseteq OrderFiles /\ ReportFiles' \subseteq ReportFiles \cup {x}
    PROVE  Listable'
  <1>1. IsFiniteSet(OrderFiles) /\ IsFiniteSet(ReportFiles)
    BY FolderAssumption, FS_Subset DEF OrderFiles, ReportFiles, FolderTypeOK
  <1>2. /\ Cardinality(OrderFiles) \in Nat /\ Cardinality(ReportFiles) \in Nat
        /\ IsFiniteSet(OrderFiles \cup {x}) /\ IsFiniteSet(ReportFiles \cup {x})
        /\ Cardinality(OrderFiles \cup {x}) \in Nat /\ Cardinality(ReportFiles \cup {x}) \in Nat
        /\ Cardinality(OrderFiles \cup {x}) <= Cardinality(OrderFiles) + 1
        /\ Cardinality(ReportFiles \cup {x}) <= Cardinality(ReportFiles) + 1
    <2>1. Cardinality(OrderFiles) \in Nat /\ Cardinality(ReportFiles) \in Nat
      BY <1>1, FS_CardinalityType
    <2>2. /\ IsFiniteSet(OrderFiles \cup {x})
          /\ Cardinality(OrderFiles \cup {x}) =
                 IF x \in OrderFiles THEN Cardinality(OrderFiles) ELSE Cardinality(OrderFiles) + 1
      BY <1>1, FS_AddElement
    <2>3. /\ IsFiniteSet(ReportFiles \cup {x})
          /\ Cardinality(ReportFiles \cup {x}) =
                 IF x \in ReportFiles THEN Cardinality(ReportFiles) ELSE Cardinality(ReportFiles) + 1
      BY <1>1, FS_AddElement
    <2> QED BY <2>1, <2>2, <2>3
  <1>3. CASE OrderFiles' \subseteq OrderFiles \cup {x} /\ ReportFiles' \subseteq ReportFiles
    <2>1. /\ IsFiniteSet(OrderFiles') /\ IsFiniteSet(ReportFiles')
          /\ Cardinality(OrderFiles') <= Cardinality(OrderFiles \cup {x})
          /\ Cardinality(ReportFiles') <= Cardinality(ReportFiles)
      BY <1>1, <1>2, <1>3, FS_Subset
    <2>2. Cardinality(OrderFiles') \in Nat /\ Cardinality(ReportFiles') \in Nat
      BY <2>1, FS_CardinalityType
    <2> QED BY <1>2, <2>1, <2>2, FolderAssumption DEF HasRoom, Listable
  <1>4. CASE OrderFiles' \subseteq OrderFiles /\ ReportFiles' \subseteq ReportFiles \cup {x}
    <2>1. /\ IsFiniteSet(OrderFiles') /\ IsFiniteSet(ReportFiles')
          /\ Cardinality(OrderFiles') <= Cardinality(OrderFiles)
          /\ Cardinality(ReportFiles') <= Cardinality(ReportFiles \cup {x})
      BY <1>1, <1>2, <1>4, FS_Subset
    <2>2. Cardinality(OrderFiles') \in Nat /\ Cardinality(ReportFiles') \in Nat
      BY <2>1, FS_CardinalityType
    <2> QED BY <1>2, <2>1, <2>2, FolderAssumption DEF HasRoom, Listable
  <1> QED BY <1>3, <1>4

\* The room of a command is counted under the lock that it keeps until it writes: nobody but
\* a run that publishes its report makes a file meanwhile.
LEMMA CommandsKeepListable ==
    ASSUME FolderInv, [FolderNext]_folderVars, Listable,
           \A n \in OrderNames : run'[n] = run[n],
           \A q \in Processes : command[q] # None => ~command[q].crowded
    PROVE  Listable'
  <1>0. FolderTypeOK /\ FolderTypeOK' BY NextType DEF FolderInv
  <1>1. ASSUME UNCHANGED <<orders, reports>> PROVE Listable'
    BY <1>1 DEF Listable, OrderFiles, ReportFiles
  <1>2. ASSUME NEW q \in Processes, Writes(q) PROVE Listable'
    <2> DEFINE w == command[q]
    <2>1. w \in Command /\ (w.file \in OrderFiles \/ HasRoom)
      BY <1>0, <1>2 DEF Writes, FolderTypeOK, FolderInv, CommandsAreSound, StillSound
    <2>2. \/ \A n \in OrderNames \ {w.file} : orders'[n] = orders[n] /\ reports' = reports
          \/ \A r \in ReportNames \ {w.file} : reports'[r] = reports[r] /\ orders' = orders
      BY <1>0, <1>2 DEF Writes, FolderTypeOK
    <2>3. \/ OrderFiles' \subseteq OrderFiles \cup {w.file} /\ ReportFiles' \subseteq ReportFiles
          \/ OrderFiles' \subseteq OrderFiles /\ ReportFiles' \subseteq ReportFiles \cup {w.file}
      <3>1. CASE w.file \in OrderNames /\ orders' = [orders EXCEPT ![w.file] = w.content] /\ reports' = reports
        BY <1>0, <3>1 DEF OrderFiles, ReportFiles, FolderTypeOK
      <3>2. CASE w.file \in ReportNames /\ reports' = [reports EXCEPT ![w.file] = w.content] /\ orders' = orders
        BY <1>0, <3>2 DEF OrderFiles, ReportFiles, FolderTypeOK
      <3> QED BY <1>2, <3>1, <3>2 DEF Writes
    <2>4. CASE HasRoom BY <1>0, <2>3, <2>4, OneMoreFile
    <2>5. CASE w.file \in OrderFiles
      <3>1. w.file \in OrderNames /\ w.file \notin ReportNames
        BY <1>0, <2>5, FolderAssumption DEF OrderFiles, FolderTypeOK
      <3>2. orders' = [orders EXCEPT ![w.file] = w.content] /\ reports' = reports
        BY <1>2, <3>1 DEF Writes
      <3>3. OrderFiles' \subseteq OrderFiles /\ ReportFiles' \subseteq ReportFiles
        BY <1>0, <2>5, <3>2 DEF OrderFiles, ReportFiles, FolderTypeOK
      <3> QED BY <1>0, <3>3, FewerFiles
    <2> QED BY <2>1, <2>4, <2>5
  <1>3. ASSUME NEW n \in OrderNames, Overwrites(n) PROVE Listable'
    <2>1. n \in OrderFiles /\ reports' = reports
          /\ \E x \in WorkOrder \cup {Deleted} : orders' = [orders EXCEPT ![n] = x]
      BY <1>3 DEF Overwrites
    <2>2. OrderFiles' \subseteq OrderFiles /\ ReportFiles' \subseteq ReportFiles
      BY <1>0, <2>1, Markers DEF OrderFiles, ReportFiles, FolderTypeOK
    <2> QED BY <1>0, <2>2, FewerFiles
  <1>4. ASSUME NEW n \in OrderNames, NEW r \in ReportNames, PublishReport(n, r) PROVE Listable'
    <2>1. run[n] \in Run /\ ~run[n].reported /\ run'[n] = [run[n] EXCEPT !.reported = TRUE]
      BY <1>0, <1>4 DEF PublishReport, FolderTypeOK
    <2>2. run'[n].reported BY <2>1 DEF Run
    <2> QED BY <2>1, <2>2
  <1>5. ASSUME NEW r \in ReportNames, DeleteReport(r) PROVE Listable'
    <2>1. OrderFiles' \subseteq OrderFiles /\ ReportFiles' \subseteq ReportFiles
      BY <1>0, <1>5, Markers DEF DeleteReport, OrderFiles, ReportFiles, FolderTypeOK
    <2> QED BY <1>0, <2>1, FewerFiles
  <1>6. ASSUME NEW q \in Processes, Checks(q) \/ GivesUp(q) PROVE UNCHANGED <<orders, reports>>
    BY <1>6 DEF Checks, Checked, GivesUp
  <1>7. ASSUME LeavesFiles PROVE UNCHANGED <<orders, reports>> BY <1>7 DEF LeavesFiles
  <1> QED BY <1>1, <1>2, <1>3, <1>4, <1>5, <1>6, <1>7, KindsOfSteps

\* No command of the panel leaves more files than list_known_queue_files lists
\* (ensure_queue_file_capacity); only the report of a run may be one too many, or the file of
\* a command that counted before it.
THEOREM PanelKeepsListable == FolderSpec => PanelNeverOverfills
  <1>1. FolderInv /\ [FolderNext]_folderVars =>
           [/\ Listable
            /\ \A n \in OrderNames : run'[n] = run[n]
            /\ \A q \in Processes : command[q] # None => ~command[q].crowded
            => Listable']_folderVars
    BY CommandsKeepListable
  <1> QED BY <1>1, InitFolder, NextFolder, PTL DEF FolderSpec, PanelNeverOverfills

-----------------------------------------------------------------------------
(* What a brief tells                                                         *)
(*                                                                            *)
(* While the page reads, what was there all along is still there to be read,  *)
(* and what was meant for the repository at some time is remembered.          *)

\* A report that was written is never another one.
LEMMA ReportsStay ==
    ASSUME FolderInv, [FolderNext]_folderVars, NEW r \in ReportNames, reports[r] # Missing
    PROVE  reports'[r] = reports[r] \/ reports'[r] = Deleted
  <1>0. FolderTypeOK BY DEF FolderInv
  <1>1. ASSUME NEW q \in Processes, Writes(q) PROVE reports'[r] = reports[r]
    BY <1>0, <1>1 DEF Writes, FolderTypeOK
  <1>2. ASSUME NEW n \in OrderNames, NEW s \in ReportNames, PublishReport(n, s)
        PROVE  reports'[r] = reports[r]
    BY <1>0, <1>2 DEF PublishReport, FolderTypeOK
  <1>3. ASSUME NEW s \in ReportNames, DeleteReport(s)
        PROVE  reports'[r] = reports[r] \/ reports'[r] = Deleted
    BY <1>0, <1>3 DEF DeleteReport, FolderTypeOK
  <1>4. ASSUME NEW q \in Processes, Checks(q) \/ GivesUp(q) PROVE reports' = reports
    BY <1>4 DEF Checks, Checked, GivesUp
  <1>5. ASSUME NEW n \in OrderNames, Overwrites(n) PROVE reports' = reports BY <1>5 DEF Overwrites
  <1>6. ASSUME LeavesFiles PROVE reports' = reports BY <1>6 DEF LeavesFiles
  <1> QED BY <1>1, <1>2, <1>3, <1>4, <1>5, <1>6, KindsOfSteps

\* A report of the work that the brief's tasks were given.
Tells(r, n) == reports[r].order = n /\ reports[r].sameTasks

\* The histories say what they should while files are left to read.
HistoriesHold ==
    evidence.toRead # {} =>
        /\ Meant(evidence.repository) \subseteq sometime
        /\ throughout \subseteq There(evidence.repository)
ReportsWereThere == \A r \in throughout \cap ReportNames : reports[r] # Missing

\* What was found was meant, and what was there all along is found or yet to be read.
FoundWasMeant == \A n \in OrderNames : evidence.found[n] # None => n \in sometime
OrdersAreFound ==
    \A n \in throughout \cap evidence.selected :
        n \in evidence.toRead \/ evidence.failed \/ evidence.found[n] # None
ReportsAreFound ==
    \A n \in OrderNames : \A r \in throughout \cap ReportFiles :
        Tells(r, n) /\ (n \in evidence.selected \/ ~evidence.partial) =>
            r \in evidence.toRead \/ evidence.failed \/ n \in evidence.reported

\* A link is one that was looked up or was made from what the page found.
LinksAreFound ==
    \A n \in OrderNames : <<evidence.repository, n>> \in links =>
        \/ n \in evidence.selected
        \/ /\ evidence.toRead = {} /\ ~evidence.failed /\ ~evidence.partial
           /\ evidence.found[n] # None
AllInView == ~evidence.partial => evidence.toRead \subseteq evidence.view

EvidenceHolds ==
    evidence # None =>
        /\ HistoriesHold /\ ReportsWereThere /\ FoundWasMeant /\ OrdersAreFound
        /\ ReportsAreFound /\ LinksAreFound /\ AllInView

BriefInv == FolderInv /\ BriefTypeOK /\ EvidenceHolds

LEMMA NamesDiffer ==
    ASSUME FolderTypeOK
    PROVE  /\ OrderFiles \subseteq OrderNames /\ ReportFiles \subseteq ReportNames
           /\ OrderNames \cap ReportNames = {}
           /\ DOMAIN asked = OrderNames
           /\ \A p : There(p) \subseteq OrderNames \cup ReportNames /\ Meant(p) \subseteq OrderNames
  BY FolderAssumption DEF FolderTypeOK, OrderFiles, ReportFiles, There, Meant

\* The queue changes beside the page.
LEMMA QueueChangesKeep ==
    ASSUME BriefInv, QueueChanges
    PROVE  BriefTypeOK' /\ EvidenceHolds'
  <1>0. /\ FolderInv /\ FolderInv' /\ FolderTypeOK /\ FolderTypeOK' /\ [FolderNext]_folderVars
        /\ UNCHANGED <<links, evidence>>
    BY NextFolder DEF BriefInv, QueueChanges, FolderInv
  <1>1. throughout' \subseteq throughout /\ sometime \subseteq sometime' BY DEF QueueChanges
  <1>2. sometime' \subseteq OrderNames
    BY <1>0, NamesDiffer DEF QueueChanges, BriefInv, BriefTypeOK, Meant, FolderTypeOK
  <1>3. BriefTypeOK' BY <1>0, <1>1, <1>2 DEF BriefInv, BriefTypeOK
  <1>4. ASSUME evidence # None PROVE EvidenceHolds'
    <2>0. /\ HistoriesHold /\ ReportsWereThere /\ FoundWasMeant /\ OrdersAreFound
          /\ ReportsAreFound /\ LinksAreFound /\ AllInView
      BY <1>4 DEF BriefInv, EvidenceHolds
    <2>1. HistoriesHold' BY <1>0, <1>4 DEF QueueChanges, Collecting, HistoriesHold
    <2>2. \A r \in throughout \cap ReportNames :
             reports'[r] = reports[r] \/ reports'[r] = Deleted
      BY <1>0, <2>0, ReportsStay DEF ReportsWereThere
    <2>3. ReportsWereThere' BY <1>1, <2>0, <2>2, FilesAssumption DEF ReportsWereThere
    <2>4. FoundWasMeant' /\ OrdersAreFound' /\ LinksAreFound' /\ AllInView'
      BY <1>0, <1>1, <2>0 DEF FoundWasMeant, OrdersAreFound, LinksAreFound, AllInView
    <2>5. \A r \in throughout' \cap ReportFiles' :
             r \in throughout \cap ReportFiles /\ reports'[r] = reports[r]
      BY <1>0, <1>1, <2>2, Markers DEF ReportFiles, FolderTypeOK
    <2>6. ReportsAreFound' BY <1>0, <2>0, <2>5 DEF ReportsAreFound, Tells
    <2> QED BY <2>1, <2>3, <2>4, <2>6 DEF EvidenceHolds
  <1> QED BY <1>0, <1>3, <1>4 DEF EvidenceHolds

\* The page begins to read.
LEMMA RefreshKeeps ==
    ASSUME BriefInv, NEW p \in Repositories, Refresh(p)
    PROVE  BriefTypeOK' /\ EvidenceHolds'
  <1> DEFINE files == OrderFiles \cup ReportFiles
             selected == {n \in OrderNames : <<p, n>> \in links}
  <1>0. FolderTypeOK /\ UNCHANGED <<orders, reports, run, asked, command, links>>
    BY DEF BriefInv, FolderInv, Refresh, folderVars
  <1>1. throughout' = There(p) /\ sometime' = Meant(p) BY DEF Refresh
  <1>2. PICK toRead \in SUBSET files, view \in SUBSET files, partial \in BOOLEAN :
            /\ evidence' = [repository |-> p, selected |-> selected, toRead |-> toRead, view |-> view,
                            found |-> [n \in OrderNames |-> None], reported |-> {},
                            failed |-> ~Listable, partial |-> partial]
            /\ Listable /\ selected # {} => toRead = files
            /\ Listable /\ ~partial => toRead = files /\ view = files
            /\ ~Listable => toRead = {}
    <2>1. CASE ~Listable
      <3> WITNESS {} \in SUBSET files
      <3> WITNESS {} \in SUBSET files
      <3> WITNESS FALSE \in BOOLEAN
      <3> QED BY <2>1 DEF Refresh
    <2>2. CASE Listable
      <3>1. PICK view \in SUBSET files :
                evidence' = [[repository |-> p, selected |-> selected, toRead |-> {}, view |-> {},
                              found |-> [n \in OrderNames |-> None], reported |-> {},
                              failed |-> ~Listable, partial |-> FALSE]
                             EXCEPT !.view = view, !.partial = view # files,
                                    !.toRead = IF selected = {} THEN view ELSE files]
        BY <2>2 DEF Refresh
      <3> DEFINE toRead == IF selected = {} THEN view ELSE files
      <3> WITNESS toRead \in SUBSET files
      <3> WITNESS view \in SUBSET files
      <3> WITNESS (view # files) \in BOOLEAN
      <3> QED BY <2>2, <3>1
    <2> QED BY <2>1, <2>2
  <1> DEFINE e == [repository |-> p, selected |-> selected, toRead |-> toRead, view |-> view,
                   found |-> [n \in OrderNames |-> None], reported |-> {},
                   failed |-> ~Listable, partial |-> partial]
  <1>3. /\ evidence'.repository = p /\ evidence'.selected = selected
        /\ evidence'.toRead = toRead /\ evidence'.view = view
        /\ \A n \in OrderNames : evidence'.found[n] = None
        /\ evidence'.failed = ~Listable /\ evidence'.partial = partial
    BY <1>2
  <1>4. files \subseteq OrderNames \cup ReportNames BY <1>0, NamesDiffer
  <1>5. evidence' \in Evidence BY <1>2, <1>4 DEF Evidence
  <1>6. There(p) \subseteq OrderNames \cup ReportNames /\ Meant(p) \subseteq OrderNames
    BY <1>0, NamesDiffer
  <1>7. BriefTypeOK'
    <2>1. FolderTypeOK' BY <1>0 DEF FolderTypeOK
    <2> QED BY <1>0, <1>1, <1>5, <1>6, <2>1 DEF BriefInv, BriefTypeOK
  <1>8. There(p)' = There(p) /\ Meant(p)' = Meant(p) /\ There(p) \subseteq files
    BY <1>0 DEF There, Meant, OrderFiles, ReportFiles
  <1>9. OrderFiles \cap ReportNames = {} /\ ReportFiles \cap OrderNames = {} BY <1>0, NamesDiffer
  <1> HIDE DEF files, selected, e
  <1>10. HistoriesHold' BY <1>1, <1>3, <1>8 DEF HistoriesHold, There, Meant
  <1>11. ReportsWereThere'
    <2>1. \A r \in There(p) \cap ReportNames : r \in ReportFiles BY <1>9 DEF There
    <2> QED BY <1>0, <1>1, <2>1, Markers DEF ReportsWereThere, ReportFiles
  <1>12. FoundWasMeant' BY <1>3 DEF FoundWasMeant
  <1>13. OrdersAreFound'
    <2>1. \A n \in There(p) \cap selected : selected # {} /\ n \in files BY <1>8
    <2> QED BY <1>1, <1>2, <1>3, <2>1 DEF OrdersAreFound
  <1>14. ReportsAreFound'
    <2>1. \A r \in There(p) : r \in files BY <1>8
    <2>2. \A n \in OrderNames : n \in selected \/ ~partial =>
              There(p) \subseteq toRead \/ ~Listable
      BY <1>2, <2>1
    <2> QED BY <1>1, <1>3, <2>2 DEF ReportsAreFound
  <1>15. LinksAreFound' BY <1>0, <1>3 DEF LinksAreFound, selected
  <1>16. AllInView' BY <1>2, <1>3 DEF AllInView
  <1> QED BY <1>7, <1>10, <1>11, <1>12, <1>13, <1>14, <1>15, <1>16 DEF EvidenceHolds

\* The page reads a file.
LEMMA ReadKeeps ==
    ASSUME BriefInv, NEW f \in OrderNames \cup ReportNames, ReadFile(f)
    PROVE  BriefTypeOK' /\ EvidenceHolds'
  <1> DEFINE rest == [evidence EXCEPT !.toRead = @ \ {f}, !.view = @ \ {f}]
  <1>0. /\ FolderTypeOK /\ evidence \in Evidence /\ f \in evidence.toRead
        /\ UNCHANGED <<orders, reports, run, asked, command, links, throughout, sometime>>
    BY DEF BriefInv, FolderInv, BriefTypeOK, ReadFile, folderVars
  <1>1. /\ HistoriesHold /\ ReportsWereThere /\ FoundWasMeant /\ OrdersAreFound
        /\ ReportsAreFound /\ LinksAreFound /\ AllInView
        /\ Meant(evidence.repository) \subseteq sometime
        /\ throughout \subseteq There(evidence.repository)
    BY <1>0 DEF BriefInv, EvidenceHolds, HistoriesHold, ReadFile
  <1>2. /\ rest \in Evidence
        /\ rest.repository = evidence.repository /\ rest.selected = evidence.selected
        /\ rest.toRead = evidence.toRead \ {f} /\ rest.view = evidence.view \ {f}
        /\ rest.found = evidence.found /\ rest.reported = evidence.reported
        /\ rest.failed = evidence.failed /\ rest.partial = evidence.partial
    BY <1>0 DEF Evidence
  <1>3. OrderFiles \subseteq OrderNames /\ ReportFiles \subseteq ReportNames /\ OrderNames \cap ReportNames = {}
    BY <1>0, NamesDiffer
  <1> HIDE DEF rest
  \* What the page knows afterwards, whatever it read.
  <1>4. /\ evidence' \in Evidence
        /\ evidence'.repository = evidence.repository /\ evidence'.selected = evidence.selected
        /\ evidence'.toRead = evidence.toRead \ {f} /\ evidence'.view = evidence.view \ {f}
        /\ evidence'.partial = evidence.partial
        /\ evidence.failed => evidence'.failed
        /\ evidence.reported \subseteq evidence'.reported
        /\ \A n \in OrderNames \ {f} : evidence'.found[n] = evidence.found[n]
        /\ f \in OrderNames => \/ evidence'.failed /\ evidence'.found[f] = evidence.found[f]
                               \/ /\ f \in OrderFiles
                                  /\ IF Counts(evidence, f, f) /\ orders[f].repository = evidence.repository
                                     THEN evidence'.found[f] = orders[f].status
                                     ELSE evidence'.found[f] = evidence.found[f]
        /\ f \in ReportFiles => \/ evidence'.failed
                                \/ Counts(evidence, f, reports[f].order) /\ reports[f].sameTasks
                                      => reports[f].order \in evidence'.reported
    <2>1. CASE /\ f \in OrderFiles
               /\ evidence' = IF Counts(evidence, f, f) /\ orders[f].repository = evidence.repository
                              THEN [rest EXCEPT !.found[f] = orders[f].status] ELSE rest
      <3>1. f \in OrderNames /\ f \notin ReportFiles /\ orders[f].status \in Statuses
        BY <1>3, <2>1 DEF OrderFiles, WorkOrder
      <3>2. CASE Counts(evidence, f, f) /\ orders[f].repository = evidence.repository
        <4>1. evidence' = [rest EXCEPT !.found = [@ EXCEPT ![f] = orders[f].status]] BY <2>1, <3>2
        <4>2. rest.found \in [OrderNames -> Statuses \cup {None}] BY <1>2 DEF Evidence
        <4> DEFINE fd == [rest.found EXCEPT ![f] = orders[f].status]
        <4>3. /\ fd \in [OrderNames -> Statuses \cup {None}] /\ fd[f] = orders[f].status
              /\ \A n \in OrderNames \ {f} : fd[n] = rest.found[n]
          BY <3>1, <4>2
        <4>4. evidence' = [rest EXCEPT !.found = fd] BY <4>1
        <4> HIDE DEF fd
        <4>5. /\ evidence' \in Evidence /\ evidence'.found = fd
              /\ evidence'.repository = rest.repository /\ evidence'.selected = rest.selected
              /\ evidence'.toRead = rest.toRead /\ evidence'.view = rest.view
              /\ evidence'.reported = rest.reported
              /\ evidence'.failed = rest.failed /\ evidence'.partial = rest.partial
          BY <1>2, <4>3, <4>4 DEF Evidence
        <4> QED BY <1>2, <3>1, <3>2, <2>1, <4>3, <4>5
      <3>3. CASE ~(Counts(evidence, f, f) /\ orders[f].repository = evidence.repository)
        BY <1>2, <2>1, <3>1, <3>3
      <3> QED BY <3>2, <3>3
    <2>2. CASE /\ f \in ReportFiles
               /\ evidence' = IF Counts(evidence, f, reports[f].order) /\ reports[f].sameTasks
                              THEN [rest EXCEPT !.reported = @ \cup {reports[f].order}] ELSE rest
      <3>1. f \notin OrderNames /\ reports[f].order \in OrderNames
        BY <1>3, <2>2 DEF ReportFiles, Report
      <3>2. CASE Counts(evidence, f, reports[f].order) /\ reports[f].sameTasks
        <4>1. evidence' = [rest EXCEPT !.reported = @ \cup {reports[f].order}] BY <2>2, <3>2
        <4>2. /\ evidence' \in Evidence /\ evidence'.found = rest.found
              /\ evidence'.repository = rest.repository /\ evidence'.selected = rest.selected
              /\ evidence'.toRead = rest.toRead /\ evidence'.view = rest.view
              /\ evidence'.reported = rest.reported \cup {reports[f].order}
              /\ evidence'.failed = rest.failed /\ evidence'.partial = rest.partial
          BY <1>2, <3>1, <4>1 DEF Evidence
        <4> QED BY <1>2, <3>1, <4>2
      <3>3. CASE ~(Counts(evidence, f, reports[f].order) /\ reports[f].sameTasks)
        BY <1>2, <2>2, <3>1, <3>3
      <3> QED BY <3>2, <3>3
    <2>3. CASE evidence' = [rest EXCEPT !.failed = TRUE]
      <3>1. /\ evidence' \in Evidence /\ evidence'.found = rest.found
            /\ evidence'.repository = rest.repository /\ evidence'.selected = rest.selected
            /\ evidence'.toRead = rest.toRead /\ evidence'.view = rest.view
            /\ evidence'.reported = rest.reported
            /\ evidence'.failed /\ evidence'.partial = rest.partial
        BY <1>2, <2>3 DEF Evidence
      <3> QED BY <1>2, <3>1
    <2> QED BY <2>1, <2>2, <2>3 DEF ReadFile, rest
  <1>5. BriefTypeOK'
    <2>1. FolderTypeOK' BY <1>0 DEF FolderTypeOK
    <2> QED BY <1>0, <1>4, <2>1 DEF BriefInv, BriefTypeOK
  <1>6. HistoriesHold' /\ ReportsWereThere'
    BY <1>0, <1>1, <1>4 DEF HistoriesHold, ReportsWereThere, There, Meant, OrderFiles, ReportFiles
  <1>7. FoundWasMeant'
    <2>1. ASSUME f \in OrderFiles, orders[f].repository = evidence.repository PROVE f \in sometime
      <3>1. orders[f].repository # None BY <1>0, <2>1, FolderAssumption DEF Evidence
      <3>2. asked[f].repository = orders[f].repository /\ asked[f] # None
        BY <1>0, <1>3, <2>1, <3>1, Markers DEF BriefInv, FolderInv, TiesAreAsked, FolderTypeOK, OrderFiles
      <3> QED BY <1>0, <1>1, <1>3, <2>1, <3>2 DEF Meant, FolderTypeOK
    <2> QED BY <1>0, <1>1, <1>4, <2>1 DEF FoundWasMeant
  <1>8. OrdersAreFound'
    <2> SUFFICES ASSUME NEW n \in throughout \cap evidence.selected
                 PROVE  n \in evidence'.toRead \/ evidence'.failed \/ evidence'.found[n] # None
      BY <1>0, <1>4 DEF OrdersAreFound
    <2>1. n \in OrderNames BY <1>0 DEF Evidence
    <2>2. CASE n # f BY <1>1, <1>4, <2>1, <2>2 DEF OrdersAreFound
    <2>3. CASE n = f
      <3>1. n \in OrderFiles /\ orders[n].repository = evidence.repository
        BY <1>1, <1>3, <2>1 DEF There
      <3>2. Counts(evidence, f, f) BY <2>3 DEF Counts
      <3>3. orders[n].status # None BY <3>1, EvidenceAssumption DEF OrderFiles, WorkOrder
      <3> QED BY <1>4, <2>1, <2>3, <3>1, <3>2, <3>3
    <2> QED BY <2>2, <2>3
  <1>9. ReportsAreFound'
    <2> SUFFICES ASSUME NEW n \in OrderNames, NEW r \in throughout \cap ReportFiles, Tells(r, n),
                        n \in evidence.selected \/ ~evidence.partial
                 PROVE  r \in evidence'.toRead \/ evidence'.failed \/ n \in evidence'.reported
      BY <1>0, <1>4 DEF ReportsAreFound, Tells, ReportFiles
    <2>1. CASE r # f BY <1>1, <1>4, <2>1 DEF ReportsAreFound
    <2>2. CASE r = f
      <3>1. Counts(evidence, f, n) BY <1>0, <1>1 DEF Counts, AllInView
      <3> QED BY <1>4, <2>2, <3>1 DEF Tells
    <2> QED BY <2>1, <2>2
  <1>10. LinksAreFound' /\ AllInView' BY <1>0, <1>1, <1>4 DEF LinksAreFound, AllInView
  <1> QED BY <1>5, <1>6, <1>7, <1>8, <1>9, <1>10 DEF EvidenceHolds

\* A link is made or removed.
LEMMA LinksKeep ==
    ASSUME BriefInv, NEW p \in Repositories, NEW n \in OrderNames, LinkBrief(p, n) \/ UnlinkBrief(p, n)
    PROVE  BriefTypeOK' /\ EvidenceHolds'
  <1>0. /\ UNCHANGED <<orders, reports, run, asked, command, evidence, throughout, sometime>>
        /\ evidence # None /\ evidence.repository = p /\ evidence.toRead = {}
    BY DEF LinkBrief, UnlinkBrief, folderVars, Shown
  <1>1. \/ links' \subseteq links
        \/ /\ links' = links \cup {<<p, n>>} /\ ~evidence.failed /\ ~evidence.partial
           /\ evidence.found[n] # None
    BY DEF LinkBrief, UnlinkBrief
  <1>2. BriefTypeOK' BY <1>0, <1>1 DEF BriefInv, BriefTypeOK, FolderTypeOK
  <1>3. /\ HistoriesHold /\ ReportsWereThere /\ FoundWasMeant /\ OrdersAreFound
        /\ ReportsAreFound /\ LinksAreFound /\ AllInView
    BY <1>0 DEF BriefInv, EvidenceHolds
  <1>4. LinksAreFound' BY <1>0, <1>1, <1>3 DEF LinksAreFound
  <1>5. /\ HistoriesHold' /\ ReportsWereThere' /\ FoundWasMeant' /\ OrdersAreFound'
        /\ ReportsAreFound' /\ AllInView'
    BY <1>0, <1>3 DEF HistoriesHold, There, Meant, OrderFiles, ReportFiles, ReportsWereThere,
      FoundWasMeant, OrdersAreFound, ReportsAreFound, Tells, AllInView
  <1> QED BY <1>2, <1>4, <1>5 DEF EvidenceHolds

LEMMA InitBrief == BriefInit => BriefInv
  BY InitFolder DEF BriefInit, NoEvidence, BriefInv, BriefTypeOK, FolderInv, EvidenceHolds

LEMMA NextBrief == BriefInv /\ [BriefNext]_<<folderVars, briefVars>> => BriefInv'
  <1> SUFFICES ASSUME BriefInv, [BriefNext]_<<folderVars, briefVars>> PROVE BriefInv' OBVIOUS
  <1>1. [FolderNext]_folderVars
    BY DEF BriefNext, QueueChanges, Refresh, ReadFile, LinkBrief, UnlinkBrief
  <1>2. FolderInv' BY <1>1, NextFolder DEF BriefInv
  <1>3. CASE UNCHANGED <<folderVars, briefVars>>
    <2>1. UNCHANGED <<orders, reports, run, asked, command, links, evidence, throughout, sometime>>
      BY <1>3 DEF folderVars, briefVars
    <2> QED
      BY <1>2, <2>1 DEF BriefInv, BriefTypeOK, FolderInv, EvidenceHolds, HistoriesHold, There,
        Meant, OrderFiles, ReportFiles, ReportsWereThere, FoundWasMeant, OrdersAreFound,
        ReportsAreFound, Tells, LinksAreFound, AllInView
  <1>4. CASE BriefNext
    BY <1>2, <1>4, QueueChangesKeep, RefreshKeeps, ReadKeeps, LinksKeep DEF BriefNext, BriefInv
  <1> QED BY <1>3, <1>4

\* What a brief says of linked work holds up, whatever happens to the files while the page
\* reads them, for any number of files and any discovery limit.
THEOREM GatesAreGrounded == BriefSpec => []GateIsGrounded
  <1>1. BriefInv => GateIsGrounded
    <2> SUFFICES ASSUME BriefInv, NEW p \in Repositories, NEW n \in OrderNames,
                        Shown(p), <<p, n>> \in links
                 PROVE  /\ Gate(n) \in {"executionFailed", "running", "reportNeedsReview"}
                              => n \in sometime
                        /\ Gate(n) = "missing" => n \notin throughout
                        /\ Gate(n) = "unverified" =>
                              \A r \in throughout \cap ReportFiles :
                                  reports[r].order = n => ~reports[r].sameTasks
      BY DEF GateIsGrounded
    <2>1. /\ FoundWasMeant /\ OrdersAreFound /\ ReportsAreFound /\ LinksAreFound
          /\ evidence.toRead = {} /\ evidence.repository = p
      BY DEF BriefInv, EvidenceHolds, Shown
    <2>2. \/ n \in evidence.selected
          \/ ~evidence.failed /\ ~evidence.partial /\ evidence.found[n] # None
      BY <2>1 DEF LinksAreFound
    <2>3. ASSUME Gate(n) \in {"executionFailed", "running", "reportNeedsReview"} PROVE n \in sometime
      BY <2>1, <2>3 DEF Gate, FoundWasMeant
    <2>4. ASSUME Gate(n) = "missing" PROVE n \notin throughout
      <3>1. ~(evidence.failed /\ n \in evidence.selected) /\ evidence.found[n] = None
        BY <2>4 DEF Gate
      <3> QED BY <2>1, <2>2, <3>1 DEF OrdersAreFound
    <2>5. ASSUME Gate(n) = "unverified", NEW r \in throughout \cap ReportFiles, reports[r].order = n
          PROVE  ~reports[r].sameTasks
      <3>1. ~(evidence.failed /\ n \in evidence.selected) /\ n \notin evidence.reported
        BY <2>5 DEF Gate
      <3> QED BY <2>1, <2>2, <2>5, <3>1 DEF ReportsAreFound, Tells
    <2> QED BY <2>3, <2>4, <2>5
  <1> QED BY <1>1, InitBrief, NextBrief, PTL DEF BriefSpec

-----------------------------------------------------------------------------
(***************************************************************************)
(* Dispatch: the inductive invariant of a run.                             *)
(***************************************************************************)
Tasks == {"unspawned"} \union Working \union Outcomes

Typed ==
    /\ registry \subseteq Executions
    /\ cancelRequested \subseteq registry
    /\ phase \in [Executions -> Phases]
    /\ handles \in [Executions -> Nat]
    /\ \A e \in Executions : handles[e] \leq AgentCount[e]
    /\ outputs \in [Executions -> Seq(Outcomes)]
    /\ task \in [Agents -> Tasks]
    /\ polling \subseteq Agents
    /\ aborted \subseteq Agents
    /\ attempts \in [Agents -> 0 .. MaxAttempts]
    /\ providerFree \in [Providers -> Nat]
    /\ globalFree \in Nat

\* The registry holds exactly the executions that are under way.
InRegistry == {"registered", "spawning", "completing", "failing"}
Registered == \A e \in Executions : (e \in registry) <=> (phase[e] \in InRegistry)

\* Nothing is registered or joined before the run has begun, and an agent
\* that has started has an abort handle.
NotBegun == {"idle", "registered", "rejected"}
HandlesFirst ==
    \A e \in Executions :
        /\ phase[e] \in NotBegun => handles[e] = 0 /\ outputs[e] = <<>>
        /\ \A i \in 1 .. AgentCount[e] :
               task[<<e, i>>] # "unspawned" => i \leq handles[e]

\* Only a task that works is polled, and the requests are counted.
PolledWorks == \A a \in polling : task[a] \in Working
Counted ==
    \A a \in Agents :
        /\ task[a] \in {"unspawned", "queued", "admitted"} => attempts[a] = 0
        /\ task[a] = "backoff" => attempts[a] < MaxAttempts

\* The joined outcomes are those the agents ended with.
Joined ==
    \A e \in Executions :
        /\ Len(outputs[e]) \leq AgentCount[e]
        /\ phase[e] = "spawning" => Len(outputs[e]) < AgentCount[e]
        /\ phase[e] \in {"completing", "completed"} =>
               Len(outputs[e]) = AgentCount[e]
        /\ \A i \in 1 .. Len(outputs[e]) :
               /\ outputs[e][i] = task[<<e, i>>]
               /\ outputs[e][i] \in {"answered", "gaveUp"}

RunInv ==
    /\ Typed /\ Registered /\ HandlesFirst /\ PolledWorks /\ Counted /\ Joined
    /\ NoOrphanAgents /\ CancelReachesEveryAgent /\ OneExecutionPerOrder

USE DEF Phases, Over, Outcomes, Working, Tasks, InRegistry, NotBegun, execVars, permits

\* The agents are the pairs of an execution and an index.
LEMMA AgentsArePairs ==
    /\ \A e \in Executions : \A i \in 1 .. AgentCount[e] : <<e, i>> \in Agents
    /\ \A a \in Agents : \E e \in Executions : \E i \in 1 .. AgentCount[e] : a = <<e, i>>
  BY DEF Agents

LEMMA HandlesAreAgents ==
    ASSUME Typed, NEW e \in Executions
    PROVE  HandlesOf(e) \subseteq Agents
  BY AgentsArePairs, ExecutionsAssumption DEF HandlesOf, Typed

LEMMA InitRunInv == Init => RunInv
  <1> SUFFICES ASSUME Init PROVE RunInv OBVIOUS
  <1>1. Typed BY LimitsAssumption, ExecutionsAssumption DEF Init, Typed
  <1>2. Registered /\ PolledWorks /\ CancelReachesEveryAgent /\ OneExecutionPerOrder
    BY DEF Init, Registered, PolledWorks, CancelReachesEveryAgent, OneExecutionPerOrder
  <1>3. HandlesFirst /\ Counted /\ NoOrphanAgents
    BY AgentsArePairs, LimitsAssumption DEF Init, HandlesFirst, Counted, NoOrphanAgents, AgentsOf
  <1>4. Joined BY ExecutionsAssumption DEF Init, Joined
  <1> QED BY <1>1, <1>2, <1>3, <1>4 DEF RunInv

(***************************************************************************)
(* Steps of an agent.                                                      *)
(***************************************************************************)
\* A step that only moves a working agent on leaves the executions' parts.
LEMMA AgentMoves ==
    ASSUME RunInv, NEW a \in Agents, task[a] \in Working,
           NEW next \in Working \union Outcomes, task' = [task EXCEPT ![a] = next],
           UNCHANGED <<execVars, aborted>>
    PROVE  /\ Registered' /\ HandlesFirst' /\ Joined'
           /\ NoOrphanAgents' /\ CancelReachesEveryAgent' /\ OneExecutionPerOrder'
  <1>1. \A b \in Agents : /\ task'[b] = IF b = a THEN next ELSE task[b]
                          /\ task[b] \in Outcomes => task'[b] = task[b]
                          /\ task'[b] # "unspawned" => task[b] # "unspawned"
                          /\ task'[b] \in Working => task[b] \in Working
    BY DEF RunInv, Typed
  <1>2. Registered' /\ CancelReachesEveryAgent' /\ OneExecutionPerOrder'
    BY DEF RunInv, Registered, CancelReachesEveryAgent, OneExecutionPerOrder, HandlesOf
  <1>3. HandlesFirst' /\ NoOrphanAgents'
    BY <1>1, AgentsArePairs DEF RunInv, HandlesFirst, NoOrphanAgents, AgentsOf
  <1>4. Joined'
    <2> SUFFICES ASSUME NEW e \in Executions, NEW i \in 1 .. Len(outputs[e])
                 PROVE  outputs[e][i] = task'[<<e, i>>]
      BY DEF RunInv, Joined
    <2>1. i \in 1 .. AgentCount[e] BY ExecutionsAssumption DEF RunInv, Joined, Typed
    <2> QED BY <1>1, <2>1, AgentsArePairs DEF RunInv, Joined
  <1> QED BY <1>2, <1>3, <1>4

\* The permits that come back keep the counters natural numbers.
LEMMA StopRunInv ==
    ASSUME RunInv, NEW a \in Agents, task[a] \in Working,
           NEW outcome \in Outcomes, Stop(a, outcome)
    PROVE  RunInv'
  <1>1. task' = [task EXCEPT ![a] = outcome] BY DEF Stop
  <1>2. providerFree' \in [Providers -> Nat] /\ globalFree' \in Nat
    <2>1. providerFree \in [Providers -> Nat] /\ globalFree \in Nat BY DEF RunInv, Typed
    <2>2. providerFree[ProviderOf[a]] + 1 \in Nat BY <2>1, ExecutionsAssumption
    <2>3. [providerFree EXCEPT ![ProviderOf[a]] = @ + 1] \in [Providers -> Nat] BY <2>1, <2>2
    <2>4. globalFree + 1 \in Nat BY <2>1
    <2> QED BY <2>1, <2>3, <2>4 DEF Stop, ReturnPermits
  <1>3. Typed' BY <1>2 DEF Stop, RunInv, Typed
  <1>4. PolledWorks' /\ Counted' BY <1>1 DEF Stop, RunInv, Typed, PolledWorks, Counted
  <1> QED BY <1>1, <1>3, <1>4, AgentMoves DEF Stop, RunInv

\* A step that leaves the tasks and the executions alone.
LEMMA PollingOnly ==
    ASSUME RunInv, polling' \subseteq Agents, \A a \in polling' : task[a] \in Working,
           UNCHANGED <<execVars, task, aborted, attempts, permits>>
    PROVE  RunInv'
  BY DEF RunInv, Typed, Registered, HandlesFirst, PolledWorks, Counted, Joined, NoOrphanAgents,
    CancelReachesEveryAgent, OneExecutionPerOrder, AgentsOf, HandlesOf

LEMMA PollRunInv ==
    ASSUME RunInv, NEW a \in Agents, Poll(a) \/ Suspend(a)
    PROVE  RunInv'
  <1>1. task[a] \in Working BY DEF Poll, Suspend, RunInv, PolledWorks
  <1>2. CASE Stop(a, "cancelled") BY <1>1, <1>2, StopRunInv
  <1>3. CASE /\ polling' \in {polling \union {a}, polling \ {a}}
             /\ UNCHANGED <<execVars, task, aborted, attempts, permits>>
    BY <1>1, <1>3, PollingOnly DEF RunInv, Typed, PolledWorks
  <1> QED BY <1>2, <1>3 DEF Poll, Suspend

LEMMA TakeProviderPermitRunInv ==
    ASSUME RunInv, NEW a \in Agents, TakeProviderPermit(a)
    PROVE  RunInv'
  <1>1. task[a] = "queued" /\ task' = [task EXCEPT ![a] = "admitted"] BY DEF TakeProviderPermit
  <1>2. providerFree' \in [Providers -> Nat]
    <2>1. providerFree \in [Providers -> Nat] /\ ProviderOf[a] \in Providers
      BY ExecutionsAssumption DEF RunInv, Typed
    <2>2. providerFree[ProviderOf[a]] - 1 \in Nat BY <2>1 DEF TakeProviderPermit
    <2> QED BY <2>1, <2>2 DEF TakeProviderPermit
  <1>3. Typed' /\ PolledWorks' /\ Counted'
    BY <1>1, <1>2 DEF TakeProviderPermit, RunInv, Typed, PolledWorks, Counted
  <1> QED BY <1>1, <1>3, AgentMoves DEF TakeProviderPermit, RunInv

LEMMA TakeGlobalPermitRunInv ==
    ASSUME RunInv, NEW a \in Agents, TakeGlobalPermit(a)
    PROVE  RunInv'
  <1>1. task[a] = "admitted" /\ task' = [task EXCEPT ![a] = "calling"] BY DEF TakeGlobalPermit
  <1>2. attempts' \in [Agents -> 0 .. MaxAttempts]
    BY LimitsAssumption DEF TakeGlobalPermit, RunInv, Typed
  <1>3. Typed' /\ PolledWorks' /\ Counted'
    BY <1>1, <1>2 DEF TakeGlobalPermit, RunInv, Typed, PolledWorks, Counted
  <1> QED BY <1>1, <1>3, AgentMoves DEF TakeGlobalPermit, RunInv

LEMMA AnswerRunInv ==
    ASSUME RunInv, NEW a \in Agents, Answer(a)
    PROVE  RunInv'
  <1>1. task[a] = "calling" BY DEF Answer
  <1>2. CASE \E outcome \in {"answered", "gaveUp"} : Stop(a, outcome) BY <1>1, <1>2, StopRunInv
  <1>3. CASE /\ MayRetry(a)
             /\ task' = [task EXCEPT ![a] = "backoff"]
             /\ UNCHANGED <<execVars, polling, aborted, attempts, permits>>
    <2>1. Typed' /\ PolledWorks' /\ Counted'
      BY <1>1, <1>3 DEF MayRetry, RunInv, Typed, PolledWorks, Counted
    <2> QED BY <1>1, <1>3, <2>1, AgentMoves DEF RunInv
  <1> QED BY <1>2, <1>3 DEF Answer

LEMMA RetryRunInv ==
    ASSUME RunInv, NEW a \in Agents, Retry(a)
    PROVE  RunInv'
  <1>1. task[a] = "backoff" /\ task' = [task EXCEPT ![a] = "calling"] BY DEF Retry
  <1>2. attempts' \in [Agents -> 0 .. MaxAttempts]
    BY <1>1, LimitsAssumption DEF Retry, RunInv, Typed, Counted
  <1>3. Typed' /\ PolledWorks' /\ Counted'
    BY <1>1, <1>2 DEF Retry, RunInv, Typed, PolledWorks, Counted
  <1> QED BY <1>1, <1>3, AgentMoves DEF Retry, RunInv

LEMMA AgentStepRunInv ==
    ASSUME RunInv, NEW a \in Agents, AgentStep(a)
    PROVE  RunInv'
  <1>1. CASE RefusePrompt(a) BY <1>1, StopRunInv DEF RefusePrompt
  <1>2. CASE Panic(a) BY <1>2, StopRunInv DEF Panic, RunInv, PolledWorks
  <1> QED
    BY <1>1, <1>2, PollRunInv, TakeProviderPermitRunInv, TakeGlobalPermitRunInv, AnswerRunInv,
      RetryRunInv DEF AgentStep, Advance

(***************************************************************************)
(* Steps of an execution.                                                  *)
(***************************************************************************)
LEMMA AcquireRunInv ==
    ASSUME RunInv, NEW e \in Executions, Acquire(e)
    PROVE  RunInv'
  <1>1. phase[e] = "idle" /\ e \notin registry BY DEF Acquire, RunInv, Registered
  <1>2. \E next \in {"rejected", "registered"} : phase' = [phase EXCEPT ![e] = next] BY DEF Acquire
  <1>3. Typed' BY <1>2 DEF Acquire, RunInv, Typed
  <1>4. Registered' BY <1>1 DEF Acquire, RunInv, Typed, Registered
  <1>5. OneExecutionPerOrder' BY DEF Acquire, OrderIsRunning, RunInv, OneExecutionPerOrder
  <1>6. HandlesFirst' /\ Joined' /\ NoOrphanAgents'
    <2>1. \A i \in 1 .. AgentCount[e] : task[<<e, i>>] = "unspawned"
      BY <1>1, ExecutionsAssumption DEF RunInv, HandlesFirst
    <2>2. HandlesFirst' /\ NoOrphanAgents'
      BY <1>1, <1>2, <2>1 DEF Acquire, RunInv, Typed, HandlesFirst, NoOrphanAgents, AgentsOf
    <2>3. Joined'
      BY <1>1, <1>2, ExecutionsAssumption DEF Acquire, RunInv, Typed, HandlesFirst, Joined
    <2> QED BY <2>2, <2>3
  <1>7. PolledWorks' /\ Counted' /\ CancelReachesEveryAgent'
    BY DEF Acquire, RunInv, PolledWorks, Counted, CancelReachesEveryAgent, HandlesOf
  <1> QED BY <1>3, <1>4, <1>5, <1>6, <1>7 DEF RunInv

LEMMA BeginRunInv ==
    ASSUME RunInv, NEW e \in Executions, Begin(e)
    PROVE  RunInv'
  <1>1. phase[e] = "registered" /\ handles[e] = 0 /\ outputs[e] = <<>>
    BY DEF Begin, RunInv, HandlesFirst
  <1>2. \E next \in {"rejected", "spawning", "failing"} : phase' = [phase EXCEPT ![e] = next]
    BY DEF Begin
  <1>3. Typed' /\ Registered' /\ OneExecutionPerOrder' /\ CancelReachesEveryAgent'
    BY <1>1, <1>2 DEF Begin, Unregister, RunInv, Typed, Registered, OneExecutionPerOrder,
      CancelReachesEveryAgent, HandlesOf
  <1>4. HandlesFirst' /\ Joined' /\ NoOrphanAgents'
    <2>1. \A i \in 1 .. AgentCount[e] : task[<<e, i>>] = "unspawned"
      BY <1>1, ExecutionsAssumption DEF RunInv, HandlesFirst
    <2>2. \A f \in Executions \ {e} : phase'[f] = phase[f] BY <1>2 DEF RunInv, Typed
    <2>3. HandlesFirst' BY <1>1, <2>1, <2>2 DEF Begin, RunInv, HandlesFirst
    <2>4. NoOrphanAgents' BY <2>1, <2>2 DEF Begin, RunInv, NoOrphanAgents, AgentsOf
    <2>5. Joined'
      <3>1. Len(outputs[e]) = 0 /\ AgentCount[e] \in Nat /\ AgentCount[e] > 0
        BY <1>1, ExecutionsAssumption
      <3>2. phase'[e] \notin {"completing", "completed"} BY <1>2 DEF RunInv, Typed
      <3> QED BY <2>2, <3>1, <3>2 DEF Begin, RunInv, Joined
    <2> QED BY <2>3, <2>4, <2>5
  <1>5. PolledWorks' /\ Counted' BY DEF Begin, RunInv, PolledWorks, Counted
  <1> QED BY <1>3, <1>4, <1>5 DEF RunInv

LEMMA RegisterAbortHandleRunInv ==
    ASSUME RunInv, NEW e \in Executions, RegisterAbortHandle(e)
    PROVE  RunInv'
  <1> DEFINE a == <<e, handles[e] + 1>>
  <1>1. handles[e] \in Nat /\ handles[e] < AgentCount[e] /\ a \in Agents
    <2>1. /\ handles[e] \in Nat /\ AgentCount[e] \in Nat
          /\ handles[e] < AgentCount[e]
      BY ExecutionsAssumption DEF RegisterAbortHandle, RunInv, Typed
    <2>2. handles[e] + 1 \in 1 .. AgentCount[e] BY <2>1
    <2> QED BY <2>1, <2>2, AgentsArePairs
  <1>2. /\ handles' = [handles EXCEPT ![e] = handles[e] + 1]
        /\ aborted \subseteq aborted' /\ aborted' \subseteq Agents
        /\ e \in cancelRequested => a \in aborted'
    BY <1>1 DEF RegisterAbortHandle, AbortedOnRegister, RunInv, Typed
  <1>3. Typed' /\ HandlesFirst'
    <2>1. \A f \in Executions : handles'[f] = IF f = e THEN handles[e] + 1 ELSE handles[f]
      BY <1>2 DEF RunInv, Typed
    <2>2. handles' \in [Executions -> Nat]
      <3>1. handles \in [Executions -> Nat] /\ handles[e] + 1 \in Nat BY <1>1 DEF RunInv, Typed
      <3> QED BY <1>2, <3>1
    <2>3. \A f \in Executions : handles'[f] \leq AgentCount[f]
      <3>1. AgentCount[e] \in Nat /\ handles[e] + 1 \leq AgentCount[e] BY <1>1, ExecutionsAssumption
      <3> QED BY <2>1, <3>1 DEF RunInv, Typed
    <2>4. HandlesFirst'
      <3>1. phase[e] \notin NotBegun BY DEF RegisterAbortHandle
      <3>2. ASSUME NEW f \in Executions, NEW i \in 1 .. AgentCount[f],
                   task[<<f, i>>] # "unspawned"
            PROVE  i \leq handles'[f]
        <4>1. i \leq handles[f] /\ handles[f] \in Nat /\ i \in Int
          BY <3>2, ExecutionsAssumption DEF RunInv, Typed, HandlesFirst
        <4> QED BY <2>1, <4>1
      <3> QED BY <2>1, <3>1, <3>2 DEF RegisterAbortHandle, RunInv, HandlesFirst
    <2> QED BY <1>2, <2>2, <2>3, <2>4 DEF RegisterAbortHandle, RunInv, Typed
  <1>4. CancelReachesEveryAgent'
    <2> SUFFICES ASSUME NEW f \in cancelRequested, NEW i \in 1 .. handles'[f]
                 PROVE  <<f, i>> \in aborted'
      BY DEF RegisterAbortHandle, CancelReachesEveryAgent, HandlesOf
    <2>1. f \in Executions BY DEF RunInv, Typed
    <2>2. CASE i \in 1 .. handles[f] BY <1>2, <2>2 DEF RunInv, CancelReachesEveryAgent, HandlesOf
    <2>3. CASE i \notin 1 .. handles[f]
      <3>1. f = e /\ i = handles[e] + 1 BY <1>1, <1>2, <2>1, <2>3 DEF RunInv, Typed
      <3> QED BY <1>2, <3>1
    <2> QED BY <2>2, <2>3
  <1>5. NoOrphanAgents' BY <1>2 DEF RegisterAbortHandle, RunInv, NoOrphanAgents, AgentsOf
  <1>6. Registered' /\ PolledWorks' /\ Counted' /\ Joined' /\ OneExecutionPerOrder'
    BY DEF RegisterAbortHandle, RunInv, Registered, PolledWorks, Counted, Joined,
      OneExecutionPerOrder
  <1> QED BY <1>3, <1>4, <1>5, <1>6 DEF RunInv

LEMMA SpawnRunInv ==
    ASSUME RunInv, NEW e \in Executions, Spawn(e)
    PROVE  RunInv'
  <1> DEFINE a == <<e, handles[e]>>
  <1>1. phase[e] = "spawning" /\ handles[e] \in 1 .. AgentCount[e] /\ a \in Agents
    BY AgentsArePairs, ExecutionsAssumption DEF Spawn, RunInv, Typed
  <1>2. task[a] = "unspawned" /\ \A b \in Agents : task'[b] = IF b = a THEN "queued" ELSE task[b]
    BY DEF Spawn, RunInv, Typed
  <1>3. Typed' /\ PolledWorks' /\ Counted'
    BY <1>1, <1>2, LimitsAssumption DEF Spawn, RunInv, Typed, PolledWorks, Counted
  <1>4. HandlesFirst'
    <2> SUFFICES ASSUME NEW f \in Executions, NEW i \in 1 .. AgentCount[f],
                        task'[<<f, i>>] # "unspawned"
                 PROVE  i \leq handles[f]
      BY DEF Spawn, RunInv, HandlesFirst
    <2>1. CASE <<f, i>> = a BY <1>1, <2>1 DEF RunInv, Typed
    <2>2. CASE <<f, i>> # a BY <1>2, <2>2, AgentsArePairs DEF RunInv, HandlesFirst
    <2> QED BY <2>1, <2>2
  <1>5. NoOrphanAgents'
    <2> SUFFICES ASSUME NEW f \in Executions, phase[f] \in {"completing", "failing"} \union Over,
                        NEW b \in AgentsOf(f), task'[b] \in Working
                 PROVE  b \in aborted
      BY DEF Spawn, NoOrphanAgents, AgentsOf
    <2>1. f # e /\ b \in Agents /\ b # a BY <1>1, AgentsArePairs DEF AgentsOf
    <2> QED BY <1>2, <2>1 DEF RunInv, NoOrphanAgents
  <1>6. Joined'
    <2> SUFFICES ASSUME NEW f \in Executions, NEW i \in 1 .. Len(outputs[f])
                 PROVE  outputs[f][i] = task'[<<f, i>>]
      BY DEF Spawn, RunInv, Joined
    <2>1. outputs[f][i] = task[<<f, i>>] /\ outputs[f][i] # "unspawned" BY DEF RunInv, Joined
    <2>2. i \in 1 .. AgentCount[f] BY ExecutionsAssumption DEF RunInv, Typed, Joined
    <2> QED BY <1>2, <2>1, <2>2, AgentsArePairs
  <1>7. Registered' /\ CancelReachesEveryAgent' /\ OneExecutionPerOrder'
    BY DEF Spawn, RunInv, Registered, CancelReachesEveryAgent, OneExecutionPerOrder, HandlesOf
  <1> QED BY <1>3, <1>4, <1>5, <1>6, <1>7 DEF RunInv

\* A joined agent ended for good: it was spawned before, so it exists.
LEMMA JoinRunInv ==
    ASSUME RunInv, NEW e \in Executions, Join(e)
    PROVE  RunInv'
  <1> DEFINE next == Len(outputs[e]) + 1
             outcome == task[<<e, next>>]
  <1>1. /\ phase[e] = "spawning" /\ outcome \in Outcomes
        /\ outputs \in [Executions -> Seq(Outcomes)]
        /\ AgentCount[e] \in Nat /\ Len(outputs[e]) \in Nat
        /\ next \in 1 .. AgentCount[e]
    <2>1. phase[e] = "spawning" /\ outcome \in Outcomes BY DEF Join
    <2>2. outputs \in [Executions -> Seq(Outcomes)] /\ AgentCount[e] \in Nat
      BY ExecutionsAssumption DEF RunInv, Typed
    <2>3. Len(outputs[e]) \in Nat BY <2>2
    <2>4. Len(outputs[e]) < AgentCount[e] BY <2>1 DEF RunInv, Joined
    <2> QED BY <2>1, <2>2, <2>3, <2>4
  <1>2. \E last \in {"spawning", "completing", "failing"} : phase' = [phase EXCEPT ![e] = last]
    BY <1>1 DEF Join, RunInv, Typed
  <1>3. \A f \in Executions \ {e} : phase'[f] = phase[f] /\ outputs'[f] = outputs[f]
    BY <1>1 DEF Join, RunInv, Typed
  <1>4. /\ phase'[e] # "spawning" => HandlesOf(e) \subseteq aborted'
        /\ aborted \subseteq aborted' /\ aborted' \subseteq Agents
    BY <1>1, HandlesAreAgents DEF Join, AbortedOnReturn, RunInv, Typed
  <1>5. \/ outputs' = outputs /\ phase'[e] = "failing"
        \/ /\ outputs' = [outputs EXCEPT ![e] = Append(outputs[e], outcome)]
           /\ outcome \in {"answered", "gaveUp"}
           /\ phase'[e] = IF next = AgentCount[e] THEN "completing" ELSE "spawning"
    BY <1>1 DEF Join, EndsTheRun, RunInv, Typed
  <1>6. Typed'
    <2>1. outputs' \in [Executions -> Seq(Outcomes)]
      <3>1. Append(outputs[e], outcome) \in Seq(Outcomes) BY <1>1
      <3>2. [outputs EXCEPT ![e] = Append(outputs[e], outcome)]
              \in [Executions -> Seq(Outcomes)]
        BY <1>1, <3>1
      <3> QED BY <1>1, <1>5, <3>2
    <2> QED BY <1>2, <1>4, <2>1 DEF Join, RunInv, Typed
  <1>7. Registered' /\ OneExecutionPerOrder' /\ PolledWorks' /\ Counted'
    BY <1>1, <1>2 DEF Join, RunInv, Typed, Registered, OneExecutionPerOrder, PolledWorks, Counted
  <1>8. HandlesFirst' BY <1>1, <1>2, <1>3 DEF Join, RunInv, Typed, HandlesFirst
  <1>9. Joined'
    <2>1. CASE outputs' = outputs /\ phase'[e] = "failing" BY <1>3, <2>1 DEF Join, RunInv, Joined
    <2>2. CASE /\ outputs' = [outputs EXCEPT ![e] = Append(outputs[e], outcome)]
               /\ outcome \in {"answered", "gaveUp"}
               /\ phase'[e] = IF next = AgentCount[e] THEN "completing" ELSE "spawning"
      <3>1. /\ outputs'[e] = Append(outputs[e], outcome)
            /\ outputs[e] \in Seq(Outcomes) /\ Len(outputs'[e]) = next
        BY <1>1, <2>2
      <3>2. \A i \in 1 .. Len(outputs'[e]) :
               /\ outputs'[e][i] = task[<<e, i>>]
               /\ outputs'[e][i] \in {"answered", "gaveUp"}
        <4> SUFFICES ASSUME NEW i \in 1 .. next
                     PROVE  /\ outputs'[e][i] = task[<<e, i>>]
                            /\ outputs'[e][i] \in {"answered", "gaveUp"}
          BY <3>1
        <4>1. CASE i = next BY <1>1, <2>2, <3>1, <4>1
        <4>2. CASE i # next
          <5>1. i \in 1 .. Len(outputs[e]) BY <1>1, <4>2
          <5>2. outputs'[e][i] = outputs[e][i] BY <3>1, <5>1
          <5> QED BY <5>1, <5>2 DEF RunInv, Joined
        <4> QED BY <4>1, <4>2
      <3>3. /\ Len(outputs'[e]) \leq AgentCount[e]
            /\ phase'[e] = "spawning" => Len(outputs'[e]) < AgentCount[e]
            /\ phase'[e] \in {"completing", "completed"} => Len(outputs'[e]) = AgentCount[e]
        BY <1>1, <2>2, <3>1
      <3>4. task' = task BY DEF Join
      <3> QED BY <1>3, <3>2, <3>3, <3>4 DEF RunInv, Joined
    <2> QED BY <1>5, <2>1, <2>2
  <1>10. NoOrphanAgents'
    <2> SUFFICES ASSUME NEW f \in Executions, phase'[f] \in {"completing", "failing"} \union Over,
                        NEW b \in AgentsOf(f), task[b] \in Working
                 PROVE  b \in aborted'
      BY DEF Join, NoOrphanAgents, AgentsOf
    <2>1. CASE f = e
      <3>1. PICK i \in 1 .. AgentCount[e] : b = <<e, i>> BY <2>1 DEF AgentsOf
      <3>2. i \leq handles[e] /\ handles[e] \in Nat /\ AgentCount[e] \in Nat
        BY <1>1, <3>1 DEF RunInv, Typed, HandlesFirst
      <3>3. b \in HandlesOf(e) BY <3>1, <3>2 DEF HandlesOf
      <3> QED BY <1>4, <2>1, <3>3
    <2>2. CASE f # e BY <1>3, <1>4, <2>2 DEF RunInv, NoOrphanAgents
    <2> QED BY <2>1, <2>2
  <1>11. CancelReachesEveryAgent' BY <1>4 DEF Join, RunInv, CancelReachesEveryAgent, HandlesOf
  <1> QED BY <1>6, <1>7, <1>8, <1>9, <1>10, <1>11 DEF RunInv

LEMMA ConcludeRunInv ==
    ASSUME RunInv, NEW e \in Executions, Conclude(e)
    PROVE  RunInv'
  <1>1. phase[e] \in {"completing", "failing"} BY DEF Conclude
  <1>2. \E last \in {"completed", "failed"} :
            /\ phase' = [phase EXCEPT ![e] = last]
            /\ last = "completed" => phase[e] = "completing"
    BY DEF Conclude
  <1>3. Typed' /\ Registered' /\ OneExecutionPerOrder' /\ CancelReachesEveryAgent'
    BY <1>2 DEF Conclude, Unregister, RunInv, Typed, Registered, OneExecutionPerOrder,
      CancelReachesEveryAgent, HandlesOf
  <1>4. HandlesFirst' /\ Joined' /\ NoOrphanAgents'
    BY <1>1, <1>2 DEF Conclude, RunInv, Typed, HandlesFirst, Joined, NoOrphanAgents, AgentsOf
  <1>5. PolledWorks' /\ Counted' BY DEF Conclude, RunInv, PolledWorks, Counted
  <1> QED BY <1>3, <1>4, <1>5 DEF RunInv

LEMMA CancelRunInv ==
    ASSUME RunInv, NEW e \in Executions, Cancel(e)
    PROVE  RunInv'
  <1>1. aborted' = aborted \union HandlesOf(e) /\ HandlesOf(e) \subseteq Agents
    BY HandlesAreAgents DEF Cancel, AbortedOnCancel, RunInv
  <1>2. Typed' /\ Registered' /\ HandlesFirst' /\ PolledWorks' /\ Counted' /\ Joined'
    BY <1>1 DEF Cancel, RunInv, Typed, Registered, HandlesFirst, PolledWorks, Counted, Joined
  <1>3. NoOrphanAgents' /\ CancelReachesEveryAgent' /\ OneExecutionPerOrder'
    BY <1>1 DEF Cancel, RunInv, NoOrphanAgents, CancelReachesEveryAgent, OneExecutionPerOrder,
      AgentsOf, HandlesOf
  <1> QED BY <1>2, <1>3 DEF RunInv

LEMMA StepRunInv == RunInv /\ [Next]_vars => RunInv'
  <1> SUFFICES ASSUME RunInv, [Next]_vars PROVE RunInv' OBVIOUS
  <1>1. ASSUME NEW e \in Executions, Acquire(e) \/ Proceed(e) \/ Cancel(e)
        PROVE  RunInv'
    BY <1>1, AcquireRunInv, BeginRunInv, RegisterAbortHandleRunInv, SpawnRunInv, JoinRunInv,
      ConcludeRunInv, CancelRunInv DEF Proceed
  <1>2. CASE UNCHANGED vars BY <1>2, PollingOnly DEF vars, RunInv, Typed, PolledWorks
  <1> QED BY <1>1, <1>2, AgentStepRunInv DEF Next, EveryExecutionOver

LEMMA AlwaysRunInv == Spec => []RunInv
  BY InitRunInv, StepRunInv, PTL DEF Spec

\* A cancelled execution has no agent that works on unaborted, those spawned
\* after the cancel included.
THEOREM CancelIsComplete == Spec => []CancelReachesEveryAgent
  <1>1. RunInv => CancelReachesEveryAgent BY DEF RunInv
  <1> QED BY <1>1, AlwaysRunInv, PTL

\* No agent is left running on its own when its execution has returned.
THEOREM NobodyIsLeftBehind == Spec => []NoOrphanAgents
  <1>1. RunInv => NoOrphanAgents BY DEF RunInv
  <1> QED BY <1>1, AlwaysRunInv, PTL

\* The registry holds at most one execution per work order.
THEOREM RegistryExcludes == Spec => []OneExecutionPerOrder
  <1>1. RunInv => OneExecutionPerOrder BY DEF RunInv
  <1> QED BY <1>1, AlwaysRunInv, PTL

\* A completed report has an entry for every agent, in order, and none of
\* them was cancelled or lost.
THEOREM ReportsAreComplete == Spec => []ReportIsComplete
  <1>1. RunInv => ReportIsComplete BY DEF RunInv, Joined, ReportIsComplete
  <1> QED BY <1>1, AlwaysRunInv, PTL

(***************************************************************************)
(* A cancel in time is honoured: some agent of the execution will not       *)
(* answer any more, and a report needs the answers of all.                  *)
(***************************************************************************)
\* An agent that has not started, is dropped when it is polled next, or was cancelled.
NeverAnswers(a) ==
    \/ task[a] \in {"unspawned", "cancelled"}
    \/ task[a] \in Working /\ a \notin polling /\ a \in aborted

Doomed(e) ==
    /\ phase[e] # "idle"
    /\ phase[e] \in {"registered", "spawning"} => e \in cancelRequested
    /\ \E a \in AgentsOf(e) : NeverAnswers(a)

LEMMA WorkingHasHandle ==
    ASSUME RunInv, NEW e \in cancelRequested, NEW a \in AgentsOf(e), task[a] # "unspawned"
    PROVE  a \in aborted
  <1>1. e \in Executions BY DEF RunInv, Typed
  <1>2. PICK i \in 1 .. AgentCount[e] : a = <<e, i>> BY DEF AgentsOf
  <1>3. i \leq handles[e] /\ handles[e] \in Nat BY <1>1, <1>2 DEF RunInv, HandlesFirst, Typed
  <1>4. a \in HandlesOf(e) BY <1>1, <1>2, <1>3, ExecutionsAssumption DEF HandlesOf
  <1> QED BY <1>4 DEF RunInv, CancelReachesEveryAgent

LEMMA WorkingIsAborted ==
    ASSUME RunInv', NEW e, e \in cancelRequested', NEW a \in AgentsOf(e), task'[a] # "unspawned"
    PROVE  a \in aborted'
  <1>1. e \in Executions BY DEF RunInv, Typed
  <1>2. PICK i \in 1 .. AgentCount[e] : a = <<e, i>> BY DEF AgentsOf
  <1>3. i \leq handles'[e] /\ handles'[e] \in Nat BY <1>1, <1>2 DEF RunInv, HandlesFirst, Typed
  <1>4. a \in HandlesOf(e)' BY <1>1, <1>2, <1>3, ExecutionsAssumption DEF HandlesOf
  <1> QED BY <1>4 DEF RunInv, CancelReachesEveryAgent

LEMMA CancelledIsDoomed ==
    ASSUME RunInv, NEW e \in Executions, CancelledInTime(e)
    PROVE  Doomed(e)
  <1>1. PICK a \in AgentsOf(e) : task[a] \in {"unspawned"} \union Working /\ a \notin polling
    BY DEF CancelledInTime
  <1>2. NeverAnswers(a) BY <1>1, WorkingHasHandle DEF CancelledInTime, NeverAnswers
  <1> QED BY <1>1, <1>2 DEF CancelledInTime, Doomed

LEMMA DoomedIsNotCompleted ==
    ASSUME RunInv, NEW e \in Executions, Doomed(e)
    PROVE  phase[e] # "completed"
  <1>1. PICK a \in AgentsOf(e) : NeverAnswers(a) BY DEF Doomed
  <1>2. PICK i \in 1 .. AgentCount[e] : a = <<e, i>> BY DEF AgentsOf
  <1>3. task[a] \notin {"answered", "gaveUp"} BY <1>1 DEF NeverAnswers
  <1> QED BY <1>2, <1>3 DEF RunInv, Joined

\* Only spawning and polling change what such an agent does.
LEMMA NeverAnswersStays ==
    ASSUME RunInv, NEW e \in Executions, Doomed(e), NEW a \in AgentsOf(e), NeverAnswers(a),
           [Next]_vars
    PROVE  NeverAnswers(a)'
  <1>1. a \in Agents /\ \E i \in 1 .. AgentCount[e] : a = <<e, i>> BY AgentsArePairs DEF AgentsOf
  <1>2. a \notin polling /\ task[a] \notin {"answered", "gaveUp", "panicked"}
    BY DEF RunInv, PolledWorks, NeverAnswers
  <1>3. aborted \subseteq aborted'
    BY DEF Next, Acquire, Proceed, Begin, RegisterAbortHandle, Spawn, Join, Conclude, Cancel,
      AgentStep, Advance, Poll, Suspend, TakeProviderPermit, TakeGlobalPermit, RefusePrompt, Answer,
      Retry, Panic, Stop, EveryExecutionOver, vars
  <1>4. ASSUME NEW b \in Agents, AgentStep(b)
        PROVE  NeverAnswers(a)'
    <2>1. CASE b = a
      <3>1. Poll(a)
        BY <1>2, <1>4, <2>1 DEF AgentStep, Advance, Suspend, TakeProviderPermit, TakeGlobalPermit,
          RefusePrompt, Answer, Retry, Panic
      <3>2. a \in aborted BY <3>1 DEF Poll, NeverAnswers
      <3>3. task'[a] = "cancelled" BY <1>1, <3>1, <3>2 DEF Poll, Stop, RunInv, Typed
      <3> QED BY <3>3 DEF NeverAnswers
    <2>2. CASE b # a
      <3>1. task'[a] = task[a]
        BY <1>1, <1>4, <2>2 DEF AgentStep, Advance, Poll, Suspend, TakeProviderPermit,
          TakeGlobalPermit, RefusePrompt, Answer, Retry, Panic, Stop, RunInv, Typed
      <3>2. a \notin polling'
        BY <1>2, <1>4, <2>2 DEF AgentStep, Advance, Poll, Suspend, TakeProviderPermit,
          TakeGlobalPermit, RefusePrompt, Answer, Retry, Panic, Stop
      <3> QED BY <1>3, <3>1, <3>2 DEF NeverAnswers
    <2> QED BY <2>1, <2>2
  <1>5. ASSUME NEW f \in Executions, Spawn(f)
        PROVE  NeverAnswers(a)'
    <2>1. polling' = polling /\ task' = [task EXCEPT ![<<f, handles[f]>>] = "queued"]
      BY <1>5 DEF Spawn
    <2>2. CASE a = <<f, handles[f]>>
      <3>1. f = e /\ task'[a] = "queued" /\ e \in cancelRequested'
        BY <1>1, <1>5, <2>1, <2>2 DEF Spawn, Doomed, RunInv, Typed
      <3>2. a \in aborted' BY <1>1, <3>1, StepRunInv, WorkingIsAborted DEF AgentsOf
      <3> QED BY <1>2, <2>1, <3>1, <3>2 DEF NeverAnswers
    <2>3. CASE a # <<f, handles[f]>> BY <1>1, <1>3, <2>1, <2>3 DEF NeverAnswers, RunInv, Typed
    <2> QED BY <2>2, <2>3
  <1>6. ASSUME task' = task, polling' = polling PROVE NeverAnswers(a)'
    BY <1>3, <1>6 DEF NeverAnswers
  <1> QED
    BY <1>4, <1>5, <1>6 DEF Next, Proceed, Acquire, Begin, RegisterAbortHandle, Join, Conclude,
      Cancel, EveryExecutionOver, vars

LEMMA DoomedStays ==
    ASSUME RunInv, NEW e \in Executions, Doomed(e), [Next]_vars
    PROVE  Doomed(e)'
  <1>1. PICK a \in AgentsOf(e) : NeverAnswers(a) BY DEF Doomed
  <1>2. NeverAnswers(a)' BY <1>1, NeverAnswersStays
  <1>3. /\ phase'[e] # "idle"
        /\ phase'[e] \in {"registered", "spawning"} => e \in cancelRequested'
    <2>1. ASSUME NEW f \in Executions, Acquire(f) \/ Begin(f) \/ Join(f) \/ Conclude(f)
          PROVE  <1>3
      <3>1. CASE f = e
        BY <2>1, <3>1 DEF Acquire, Begin, Join, Conclude, Unregister, Doomed, RunInv, Typed
      <3>2. CASE f # e
        BY <2>1, <3>2 DEF Acquire, Begin, Join, Conclude, Unregister, Doomed, RunInv, Typed
      <3> QED BY <3>1, <3>2
    <2>2. ASSUME phase' = phase, cancelRequested \subseteq cancelRequested'
          PROVE  <1>3
      BY <2>2 DEF Doomed
    <2>3. ASSUME NEW f \in Executions, RegisterAbortHandle(f) \/ Spawn(f) \/ Cancel(f)
          PROVE  <1>3
      BY <2>2, <2>3 DEF RegisterAbortHandle, Spawn, Cancel
    <2>4. ASSUME NEW b \in Agents, AgentStep(b)
          PROVE  <1>3
      BY <2>2, <2>4 DEF AgentStep, Advance, Poll, Suspend, TakeProviderPermit, TakeGlobalPermit,
        RefusePrompt, Answer, Retry, Panic, Stop
    <2>5. CASE UNCHANGED vars BY <2>2, <2>5 DEF vars
    <2> QED BY <2>1, <2>3, <2>4, <2>5 DEF Next, Proceed, EveryExecutionOver
  <1> QED BY <1>2, <1>3 DEF Doomed, AgentsOf

\* A cancel that comes while an agent is not being polled is honoured: the execution is
\* never completed, however late anybody answers (cancel_queue_work_order_execution).
THEOREM TimelyCancelsHonoured == Spec => TimelyCancelIsHonoured
  <1> SUFFICES ASSUME NEW e \in Executions
               PROVE  Spec => [](CancelledInTime(e) => [](phase[e] # "completed"))
    BY DEF TimelyCancelIsHonoured
  <1>1. RunInv /\ CancelledInTime(e) => Doomed(e) BY CancelledIsDoomed
  <1>2. RunInv /\ Doomed(e) /\ [Next]_vars => Doomed(e)' BY DoomedStays
  <1>3. RunInv /\ Doomed(e) => phase[e] # "completed" BY DoomedIsNotCompleted
  <1> QED BY <1>1, <1>2, <1>3, AlwaysRunInv, PTL DEF Spec

(***************************************************************************)
(* The permits.                                                            *)
(***************************************************************************)
GlobalHolders == {a \in Agents : task[a] \in HoldingGlobal}
ProviderHolders(p) == {a \in Agents : ProviderOf[a] = p /\ task[a] \in HoldingProvider}

PermitInv ==
    /\ IsFiniteSet(GlobalHolders)
    /\ globalFree + Cardinality(GlobalHolders) = GlobalLimit
    /\ \A p \in Providers :
         /\ IsFiniteSet(ProviderHolders(p))
         /\ providerFree[p] + Cardinality(ProviderHolders(p)) = ProviderLimit

\* A counter and a set keep their sum when an element changes sides.
LEMMA OneMore ==
    ASSUME NEW S, IsFiniteSet(S), NEW x, x \notin S, NEW free \in Nat, NEW limit \in Nat,
           free + Cardinality(S) = limit
    PROVE  /\ IsFiniteSet(S \union {x})
           /\ (free - 1) + Cardinality(S \union {x}) = limit
  <1>1. Cardinality(S) \in Nat BY FS_CardinalityType
  <1>2. IsFiniteSet(S \union {x}) /\ Cardinality(S \union {x}) = Cardinality(S) + 1 BY FS_AddElement
  <1> QED BY <1>1, <1>2

LEMMA OneLess ==
    ASSUME NEW S, IsFiniteSet(S), NEW x \in S, NEW free \in Nat, NEW limit \in Nat,
           free + Cardinality(S) = limit
    PROVE  /\ IsFiniteSet(S \ {x})
           /\ (free + 1) + Cardinality(S \ {x}) = limit
  <1>1. Cardinality(S) \in Nat BY FS_CardinalityType
  <1>2. IsFiniteSet(S \ {x}) /\ Cardinality(S \ {x}) = Cardinality(S) - 1 BY FS_RemoveElement
  <1> QED BY <1>1, <1>2

LEMMA InitPermitInv == Init => PermitInv
  <1> SUFFICES ASSUME Init PROVE PermitInv OBVIOUS
  <1>1. GlobalHolders = {} /\ \A p \in Providers : ProviderHolders(p) = {}
    BY DEF Init, GlobalHolders, ProviderHolders, HoldingGlobal, HoldingProvider
  <1>2. IsFiniteSet({}) /\ Cardinality({}) = 0 BY FS_EmptySet
  <1>3. globalFree = GlobalLimit /\ \A p \in Providers : providerFree[p] = ProviderLimit BY DEF Init
  <1>4. GlobalLimit + 0 = GlobalLimit /\ ProviderLimit + 0 = ProviderLimit BY LimitsAssumption
  <1> QED BY <1>1, <1>2, <1>3, <1>4 DEF PermitInv

\* Steps that neither take nor give a permit.
LEMMA SameHolders ==
    ASSUME PermitInv, UNCHANGED permits,
           \A a \in Agents : /\ (task'[a] \in HoldingGlobal) <=> (task[a] \in HoldingGlobal)
                             /\ (task'[a] \in HoldingProvider) <=> (task[a] \in HoldingProvider)
    PROVE  PermitInv'
  <1>1. GlobalHolders' = GlobalHolders BY DEF GlobalHolders
  <1>2. \A p \in Providers : ProviderHolders(p)' = ProviderHolders(p) BY DEF ProviderHolders
  <1> QED BY <1>1, <1>2 DEF PermitInv

\* Dropping a future gives back what it held, whatever that was.
LEMMA StopPermitInv ==
    ASSUME RunInv, PermitInv, NEW a \in Agents, NEW outcome \in Outcomes, Stop(a, outcome)
    PROVE  PermitInv'
  <1>0. /\ \A b \in Agents : task'[b] = IF b = a THEN outcome ELSE task[b]
        /\ outcome \notin HoldingGlobal /\ outcome \notin HoldingProvider
        /\ globalFree \in Nat /\ providerFree \in [Providers -> Nat]
        /\ GlobalLimit \in Nat /\ ProviderLimit \in Nat /\ ProviderOf[a] \in Providers
    BY ExecutionsAssumption, LimitsAssumption
    DEF Stop, RunInv, Typed, HoldingGlobal, HoldingProvider
  <1>1. IsFiniteSet(GlobalHolders)' /\ (globalFree + Cardinality(GlobalHolders))' = GlobalLimit
    <2>1. CASE task[a] \in HoldingGlobal
      <3>1. GlobalHolders' = GlobalHolders \ {a} /\ a \in GlobalHolders
        BY <1>0, <2>1 DEF GlobalHolders
      <3>2. globalFree' = globalFree + 1 BY <2>1 DEF Stop, ReturnPermits
      <3> QED BY <1>0, <3>1, <3>2, OneLess DEF PermitInv
    <2>2. CASE task[a] \notin HoldingGlobal
      <3>1. GlobalHolders' = GlobalHolders BY <1>0, <2>2 DEF GlobalHolders
      <3>2. globalFree' = globalFree BY <2>2 DEF Stop, ReturnPermits
      <3> QED BY <3>1, <3>2 DEF PermitInv
    <2> QED BY <2>1, <2>2
  <1>2. ASSUME NEW p \in Providers
        PROVE  /\ IsFiniteSet(ProviderHolders(p)')
               /\ providerFree'[p] + Cardinality(ProviderHolders(p)') = ProviderLimit
    <2>1. CASE task[a] \in HoldingProvider /\ ProviderOf[a] = p
      <3>1. ProviderHolders(p)' = ProviderHolders(p) \ {a} /\ a \in ProviderHolders(p)
        BY <1>0, <2>1 DEF ProviderHolders
      <3>2. providerFree'[p] = providerFree[p] + 1 /\ providerFree[p] \in Nat
        BY <1>0, <2>1 DEF Stop, ReturnPermits
      <3>3. /\ IsFiniteSet(ProviderHolders(p))
            /\ providerFree[p] + Cardinality(ProviderHolders(p)) = ProviderLimit
        BY DEF PermitInv
      <3>4. /\ IsFiniteSet(ProviderHolders(p) \ {a})
            /\ (providerFree[p] + 1) + Cardinality(ProviderHolders(p) \ {a}) = ProviderLimit
        <4> DEFINE S    == ProviderHolders(p)
                   free == providerFree[p]
        <4>1. IsFiniteSet(S) /\ a \in S /\ free + Cardinality(S) = ProviderLimit BY <3>1, <3>3
        <4>2. free \in Nat /\ ProviderLimit \in Nat BY <1>0, <3>2
        <4> HIDE DEF S, free
        <4>3. IsFiniteSet(S \ {a}) /\ (free + 1) + Cardinality(S \ {a}) = ProviderLimit
          BY <4>1, <4>2, OneLess
        <4> QED BY <4>3 DEF S, free
      <3> QED BY <3>1, <3>2, <3>4
    <2>2. CASE ~(task[a] \in HoldingProvider /\ ProviderOf[a] = p)
      <3>1. ProviderHolders(p)' = ProviderHolders(p) BY <1>0, <2>2 DEF ProviderHolders
      <3>2. providerFree'[p] = providerFree[p] BY <1>0, <2>2 DEF Stop, ReturnPermits
      <3> QED BY <3>1, <3>2 DEF PermitInv
    <2> QED BY <2>1, <2>2
  <1> QED BY <1>1, <1>2 DEF PermitInv

LEMMA TakeProviderPermitPermitInv ==
    ASSUME RunInv, PermitInv, NEW a \in Agents, TakeProviderPermit(a)
    PROVE  PermitInv'
  <1> DEFINE q == ProviderOf[a]
  <1>0. /\ task[a] = "queued" /\ "queued" \notin HoldingProvider
        /\ \A b \in Agents : task'[b] = IF b = a THEN "admitted" ELSE task[b]
        /\ providerFree \in [Providers -> Nat] /\ ProviderLimit \in Nat /\ q \in Providers
    BY ExecutionsAssumption, LimitsAssumption
    DEF TakeProviderPermit, RunInv, Typed, HoldingProvider
  <1>1. GlobalHolders' = GlobalHolders /\ globalFree' = globalFree
    BY <1>0 DEF GlobalHolders, HoldingGlobal, TakeProviderPermit
  <1>2. /\ ProviderHolders(q)' = ProviderHolders(q) \union {a}
        /\ a \notin ProviderHolders(q)
        /\ \A p \in Providers \ {q} : ProviderHolders(p)' = ProviderHolders(p)
    BY <1>0 DEF ProviderHolders, HoldingProvider
  <1>3. /\ providerFree'[q] = providerFree[q] - 1
        /\ \A p \in Providers \ {q} : providerFree'[p] = providerFree[p]
    BY <1>0 DEF TakeProviderPermit
  <1>4. /\ IsFiniteSet(ProviderHolders(q)')
        /\ providerFree'[q] + Cardinality(ProviderHolders(q)') = ProviderLimit
    <2> DEFINE S == ProviderHolders(q)
    <2>1. /\ IsFiniteSet(S) /\ a \notin S /\ providerFree[q] \in Nat
          /\ providerFree[q] + Cardinality(S) = ProviderLimit
      BY <1>0, <1>2 DEF PermitInv
    <2>2. /\ IsFiniteSet(S \union {a})
          /\ (providerFree[q] - 1) + Cardinality(S \union {a}) = ProviderLimit
      <3> HIDE DEF S, q
      <3> QED BY <1>0, <2>1, OneMore
    <2> QED BY <1>2, <1>3, <2>2
  <1> QED BY <1>1, <1>2, <1>3, <1>4 DEF PermitInv

LEMMA TakeGlobalPermitPermitInv ==
    ASSUME RunInv, PermitInv, NEW a \in Agents, TakeGlobalPermit(a)
    PROVE  PermitInv'
  <1>0. /\ task[a] = "admitted"
        /\ \A b \in Agents : task'[b] = IF b = a THEN "calling" ELSE task[b]
        /\ globalFree \in Nat /\ GlobalLimit \in Nat
    BY LimitsAssumption DEF TakeGlobalPermit, RunInv, Typed
  <1>1. \A p \in Providers : ProviderHolders(p)' = ProviderHolders(p)
    BY <1>0 DEF ProviderHolders, HoldingProvider
  <1>2. GlobalHolders' = GlobalHolders \union {a} /\ a \notin GlobalHolders
    BY <1>0 DEF GlobalHolders, HoldingGlobal
  <1>3. globalFree' = globalFree - 1 /\ providerFree' = providerFree BY DEF TakeGlobalPermit
  <1> QED BY <1>0, <1>1, <1>2, <1>3, OneMore DEF PermitInv

LEMMA StepPermitInv == RunInv /\ PermitInv /\ [Next]_vars => PermitInv'
  <1> SUFFICES ASSUME RunInv, PermitInv, [Next]_vars PROVE PermitInv' OBVIOUS
  <1>1. ASSUME NEW e \in Executions, Spawn(e) PROVE PermitInv'
    <2>1. \A a \in Agents : task'[a] # task[a] => task[a] = "unspawned" /\ task'[a] = "queued"
      BY <1>1 DEF Spawn, RunInv, Typed
    <2> QED BY <1>1, <2>1, SameHolders DEF Spawn, HoldingGlobal, HoldingProvider
  <1>2. ASSUME task' = task, UNCHANGED permits PROVE PermitInv' BY <1>2, SameHolders
  <1>3. ASSUME NEW e \in Executions, Acquire(e) \/ Proceed(e) \/ Cancel(e)
        PROVE  PermitInv'
    BY <1>1, <1>2, <1>3
    DEF Proceed, Acquire, Begin, RegisterAbortHandle, Join, Conclude, Cancel
  <1>4. ASSUME NEW a \in Agents, Poll(a) \/ Suspend(a) PROVE PermitInv'
    BY <1>2, <1>4, StopPermitInv DEF Poll, Suspend
  <1>5. ASSUME NEW a \in Agents, Answer(a) PROVE PermitInv'
    <2>1. CASE \E outcome \in {"answered", "gaveUp"} : Stop(a, outcome) BY <2>1, StopPermitInv
    <2>2. CASE /\ task' = [task EXCEPT ![a] = "backoff"]
               /\ UNCHANGED permits
      <3>1. \A b \in Agents : task'[b] # task[b] => task[b] = "calling" /\ task'[b] = "backoff"
        BY <1>5, <2>2 DEF Answer, RunInv, Typed
      <3> QED BY <2>2, <3>1, SameHolders DEF HoldingGlobal, HoldingProvider
    <2> QED BY <1>5, <2>1, <2>2 DEF Answer
  <1>6. ASSUME NEW a \in Agents, Retry(a) PROVE PermitInv'
    <2>1. \A b \in Agents : task'[b] # task[b] => task[b] = "backoff" /\ task'[b] = "calling"
      BY <1>6 DEF Retry, RunInv, Typed
    <2> QED BY <1>6, <2>1, SameHolders DEF Retry, HoldingGlobal, HoldingProvider
  <1>7. ASSUME NEW a \in Agents, AgentStep(a) PROVE PermitInv'
    BY <1>4, <1>5, <1>6, <1>7, StopPermitInv, TakeProviderPermitPermitInv, TakeGlobalPermitPermitInv
      DEF AgentStep, Advance, RefusePrompt, Panic
  <1> QED BY <1>2, <1>3, <1>7 DEF Next, EveryExecutionOver, vars

LEMMA AlwaysPermitInv == Spec => []PermitInv
  BY InitPermitInv, StepPermitInv, AlwaysRunInv, PTL DEF Spec

\* Free and held permits add up to the limits: no permit is lost or given
\* twice, however a task ends.
THEOREM PermitsNeverLeak == Spec => []PermitsAreConserved
  <1>1. PermitInv => PermitsAreConserved
    BY DEF PermitInv, PermitsAreConserved, GlobalHolders, ProviderHolders
  <1> QED BY <1>1, AlwaysPermitInv, PTL

\* The type invariant; the bounds on the counters come from the conservation.
THEOREM TypeCorrect == Spec => []TypeOK
  <1>1. RunInv /\ PermitInv => TypeOK
    <2> SUFFICES ASSUME RunInv, PermitInv PROVE TypeOK OBVIOUS
    <2>1. globalFree \in 0 .. GlobalLimit
      <3>1. Cardinality(GlobalHolders) \in Nat /\ globalFree \in Nat /\ GlobalLimit \in Nat
        BY FS_CardinalityType, LimitsAssumption DEF PermitInv, RunInv, Typed
      <3> QED BY <3>1 DEF PermitInv
    <2>2. providerFree \in [Providers -> 0 .. ProviderLimit]
      <3>1. ASSUME NEW p \in Providers PROVE providerFree[p] \in 0 .. ProviderLimit
        <4>1. /\ Cardinality(ProviderHolders(p)) \in Nat
              /\ providerFree[p] \in Nat /\ ProviderLimit \in Nat
          BY FS_CardinalityType, LimitsAssumption DEF PermitInv, RunInv, Typed
        <4> QED BY <4>1 DEF PermitInv
      <3> QED BY <3>1 DEF RunInv, Typed
    <2> QED BY <2>1, <2>2 DEF TypeOK, RunInv, Typed, Joined
  <1> QED BY <1>1, AlwaysRunInv, AlwaysPermitInv, PTL
=============================================================================
