--------------------------- MODULE QueueExecution ---------------------------
(***************************************************************************)
(* One work-order file as it is run by the desktop application and by the  *)
(* command line at the same time as the Queue editor, the stale-run        *)
(* recovery and writers outside the program change it.                     *)
(*                                                                         *)
(* Translated from src-tauri/src/queue_work_order_execution.rs (the lock,  *)
(* its marker, the guarded status writes, Drop), queue_folder.rs (update   *)
(* and delete), queue_execution.rs and bin/workduck-cli.rs (the two        *)
(* runners) and the Queue workflows of src/lib/queue.                      *)
(*                                                                         *)
(* Two locks meet here.  The execution lock of a work order is an OS file  *)
(* lock that is only ever tried, is held for a whole run, and dies with    *)
(* its process; a marker in the lock file survives.  The workspace         *)
(* registry lock is waited for and held for one commit.                    *)
(***************************************************************************)
EXTENDS Naturals, FiniteSets

CONSTANTS
    Orders,         \* work-order files of one workspace
    Bodies,         \* what the prompts of a work order depend on
    Desktop,        \* runs started inside the desktop process
    Cli,            \* command-line processes, one run each
    Editors,        \* concurrent Queue panel operations of the desktop process
    ExternalWrites, \* may writers outside the program (git, an IDE) appear?
    DiskFaults,     \* may writes to disk fail?
    MaxCrashes      \* bound on process crashes

Runners == Desktop \cup Cli
Actors  == Runners \cup Editors

CONSTANTS Nobody,   \* a free lock
          Absent    \* a file that does not exist

Statuses == {"active", "running", "failed", "archived"}
Content  == [status : Statuses, body : Bodies]

ASSUME ActorsAssumption ==
    /\ Desktop \cap Cli = {}
    /\ Editors \cap Runners = {}
    /\ Nobody \notin Actors
ASSUME ContentAssumption == Absent \notin Content /\ Bodies # {}
\* A free job is no job of a run (the abstract specification's NoJob is Nobody).
ASSUME JobAssumption == \A p \in Runners, b \in Bodies : [by |-> p, body |-> b] # Nobody
ASSUME BoundsAssumption  == {ExternalWrites, DiskFaults} \subseteq BOOLEAN /\ MaxCrashes \in Nat

VARIABLES
    file,      \* the work-order files
    execLock,  \* who holds the execution lock of each work order
    marker,    \* what the lock file says: "clear", "marked", or "torn" when a
               \* rewrite truncated it and has not written it (the program
               \* reads "torn" as it reads "clear")
    regLock,   \* who holds the workspace registry lock
    reports,   \* result reports on disk
    run,       \* where each runner is, and what it remembers (see Run)
    editor,    \* where each editor operation is, and its two snapshots
    crashes    \* crashes so far

vars == <<file, execLock, marker, regLock, reports, run, editor, crashes>>

\* "running" opens a run; "archived" and "active" are the two completions;
\* "failed" is fail(); "dropped" is the write of "failed" made by Drop.
Goals == {"running", "archived", "active", "failed", "dropped"}

\* A run owns its work order from the commit of "running" to the release.
LivePcs == {"started", "executing", "reporting", "finalized"}
CommitPcs == {"commit", "verify", "rename"}
Pcs == {"idle", "planned", "locked", "accepted", "truncated"}
            \cup CommitPcs \cup LivePcs

\* A run remembers its work order, the body whose estimate the user approved,
\* the work order it read with its revision (QueueWorkOrderExecution), and the
\* transition it is committing.
Run == [pc : Pcs, order : Orders \cup {Nobody}, approved : Bodies \cup {Absent},
        seen : Content \cup {Absent}, goal : Goals]
NoRun == [pc |-> "idle", order |-> Nobody, approved |-> Absent, seen |-> Absent,
          goal |-> "running"]

EditorPcs == {"idle", "ready", "verify", "replace"}
Edit == [pc : EditorPcs, order : Orders \cup {Nobody},
         old : Content \cup {Absent}, new : Content \cup {Absent}]
NoEdit == [pc |-> "idle", order |-> Nobody, old |-> Absent, new |-> Absent]

Init ==
    /\ file \in [Orders -> [status : {"active"}, body : Bodies]]
    /\ execLock = [o \in Orders |-> Nobody]
    /\ marker = [o \in Orders |-> "clear"]
    /\ regLock = Nobody
    /\ reports = {}
    /\ run = [p \in Runners |-> NoRun]
    /\ editor = [e \in Editors |-> NoEdit]
    /\ crashes = 0

-----------------------------------------------------------------------------
(* Helpers *)

Goto(p, l) == run' = [run EXCEPT ![p].pc = l]
Leave(p) == run' = [run EXCEPT ![p] = NoRun]

\* The run sets out to write the status of goal g.
CommitTo(p, g) == run' = [run EXCEPT ![p] = [@ EXCEPT !.pc = "commit", !.goal = g]]

\* An early return: the desktop calls fail(), the command line uses `?`, which
\* drops the execution.
GiveUp(p) == CommitTo(p, IF p \in Desktop THEN "failed" ELSE "dropped")

\* Closing the lock file gives the lock back; the marker stays as it is.
Unlock(o) == execLock' = [execLock EXCEPT ![o] = Nobody]

\* acquire_queue_execution: one run per work order inside the desktop process.
InApp(o) ==
    \E d \in Desktop : run[d].pc \notin {"idle", "planned"} /\ run[d].order = o

\* validate_work_order with the exception begin makes for a marked lock file.
Executable(o, c) ==
    \/ c.status \in {"active", "failed"}
    \/ c.status = "running" /\ marker[o] = "marked"

\* The status a goal writes.
Target(g) == IF g = "dropped" THEN "failed" ELSE g

-----------------------------------------------------------------------------
(* A run begins *)

\* The user reads the estimate of an executable work order and approves it:
\* the preview dialog, or the unlocked read of the command line.
Plan(p, o) ==
    /\ run[p].pc = "idle"
    /\ file[o] # Absent
    /\ file[o].status \in {"active", "failed"}
    /\ run' = [run EXCEPT ![p] = [NoRun EXCEPT !.pc = "planned", !.order = o,
                                             !.approved = file[o].body]]
    /\ UNCHANGED <<file, execLock, marker, regLock, reports, editor, crashes>>

LockIsFree_AppOnly(p, o) == p \in Desktop => ~InApp(o)
LockIsFree(p, o) ==
    /\ p \in Desktop => ~InApp(o)
    /\ execLock[o] = Nobody

\* The lock is tried, never waited for.
TryLock(p) ==
    LET o == run[p].order IN
    /\ run[p].pc = "planned"
    /\ IF LockIsFree(p, o)
       THEN execLock' = [execLock EXCEPT ![o] = p] /\ Goto(p, "locked")
       ELSE Leave(p) /\ UNCHANGED execLock
    /\ UNCHANGED <<file, marker, regLock, reports, editor, crashes>>

\* The desktop checks the approval against the locked snapshot, the command
\* line does not (begin_queue_work_order_execution_at passes |_| Ok(())).
Acceptable(p, c) ==
    /\ c # Absent
    /\ Executable(run[p].order, c)
    /\ p \in Desktop => c.body = run[p].approved

ReadSnapshot(p) ==
    LET o == run[p].order IN
    /\ run[p].pc = "locked"
    /\ IF Acceptable(p, file[o])
       THEN /\ run' = [run EXCEPT ![p].pc = "accepted", ![p].seen = file[o]]
            /\ UNCHANGED execLock
       ELSE Leave(p) /\ Unlock(o)
    /\ UNCHANGED <<file, marker, regLock, reports, editor, crashes>>

\* write_lock_marker truncates the file and then writes it.
TruncateMarker(p) ==
    /\ run[p].pc = "accepted"
    /\ marker' = [marker EXCEPT ![run[p].order] = "torn"]
    /\ Goto(p, "truncated")
    /\ UNCHANGED <<file, execLock, regLock, reports, editor, crashes>>

WriteMarker(p) ==
    /\ run[p].pc = "truncated"
    /\ \/ /\ marker' = [marker EXCEPT ![run[p].order] = "marked"]
          /\ Goto(p, "commit")
          /\ UNCHANGED execLock
       \/ DiskFaults /\ Leave(p) /\ Unlock(run[p].order) /\ UNCHANGED marker
    /\ UNCHANGED <<file, regLock, reports, editor, crashes>>

-----------------------------------------------------------------------------
(* A guarded status write: write_work_order_if_unchanged *)

\* acquire_workspace_registry_lock waits.
LockRegistry(p) ==
    /\ run[p].pc = "commit"
    /\ regLock = Nobody
    /\ regLock' = p
    /\ Goto(p, "verify")
    /\ UNCHANGED <<file, execLock, marker, reports, editor, crashes>>

\* What an Err of the write does to the run: begin gives up; complete and fail
\* drop the execution, and Drop tries "failed" once more; Drop gives up.
CommitFails(p) ==
    /\ regLock' = Nobody
    /\ UNCHANGED marker
    /\ IF run[p].goal \in {"running", "dropped"}
       THEN Leave(p) /\ Unlock(run[p].order)
       ELSE CommitTo(p, "dropped") /\ UNCHANGED execLock

Unchanged_Blind(p) == file[run[p].order] # Absent
Unchanged(p) == file[run[p].order] = run[p].seen

\* The digest is compared, the temporary file written, the content compared
\* again: only the last comparison matters to what follows.
Verify(p) ==
    /\ run[p].pc = "verify"
    /\ IF Unchanged(p)
       THEN Goto(p, "rename") /\ UNCHANGED <<regLock, execLock, marker>>
       ELSE CommitFails(p)
    /\ UNCHANGED <<file, reports, editor, crashes>>

\* The temporary file takes the name of the work order.
Written(p) == [run[p].seen EXCEPT !.status = Target(run[p].goal)]

Rename(p) ==
    LET o == run[p].order IN
    /\ run[p].pc = "rename"
    /\ \/ /\ file' = [file EXCEPT ![o] = Written(p)]
          /\ run' = [run EXCEPT ![p].seen = Written(p),
                        ![p].pc = IF run[p].goal = "running" THEN "started"
                                                            ELSE "finalized"]
          /\ regLock' = Nobody
          /\ UNCHANGED <<execLock, marker>>
       \/ DiskFaults /\ CommitFails(p) /\ UNCHANGED file
    /\ UNCHANGED <<reports, editor, crashes>>

-----------------------------------------------------------------------------
(* A run goes on *)

\* The estimate of the locked work order has the approved confirmation token.
Confirmed(p) == run[p].seen.body = run[p].approved

\* Prompts are built for the locked work order and the agents are spawned.  The
\* command line compares the approved token only here.
Launch(p) ==
    /\ run[p].pc = "started"
    /\ \/ Confirmed(p) /\ Goto(p, "executing")
       \/ p \in Cli /\ ~Confirmed(p) /\ CommitTo(p, "failed")
       \/ GiveUp(p)
    /\ UNCHANGED <<file, execLock, marker, regLock, reports, editor, crashes>>

\* Every agent answered or failed (both are reported), or the run was cancelled
\* or a task was lost.
AgentsReturn(p) ==
    /\ run[p].pc = "executing"
    /\ Goto(p, "reporting") \/ GiveUp(p)
    /\ UNCHANGED <<file, execLock, marker, regLock, reports, editor, crashes>>

\* What is left to do when no report could be published.
ReportFailureGoal == "dropped"

\* complete(): the report is published first.  --keep-work-order asks for
\* "active".  A failure here drops the execution; the report may exist already
\* when its path cannot be resolved afterwards.
WriteReport(p) ==
    LET published == reports \cup {[order |-> run[p].order, body |-> run[p].seen.body]}
    IN
    /\ run[p].pc = "reporting"
    /\ \/ reports' = published /\ CommitTo(p, "archived")
       \/ reports' = published /\ p \in Cli /\ CommitTo(p, "active")
       \/ DiskFaults /\ reports' \in {reports, published} /\ CommitTo(p, ReportFailureGoal)
    /\ UNCHANGED <<file, execLock, marker, regLock, editor, crashes>>

\* clear_lock_marker, then the lock file is closed.
Finalize(p) ==
    /\ run[p].pc = "finalized"
    /\ marker' = [marker EXCEPT ![run[p].order] = "clear"]
    /\ Unlock(run[p].order)
    /\ Leave(p)
    /\ UNCHANGED <<file, regLock, reports, editor, crashes>>

-----------------------------------------------------------------------------
(* Queue panel operations *)

EditorGoto(e, l) == editor' = [editor EXCEPT ![e].pc = l]

\* The operation reads the file and decides what it wants in its place.
Ask(e, o, new) ==
    /\ editor[e].pc = "idle"
    /\ file[o] # Absent
    /\ editor' = [editor EXCEPT ![e] =
                     [pc |-> "ready", order |-> o, old |-> file[o], new |-> new]]
    /\ UNCHANGED <<file, execLock, marker, regLock, reports, run, crashes>>

\* A task is edited, whatever the status of its work order.
AskSave(e, o) ==
    \E b \in Bodies \ {file[o].body} : Ask(e, o, [file[o] EXCEPT !.body = b])

\* A work order done by hand is archived.
AskComplete(e, o) ==
    /\ file[o].status \in {"active", "failed"}
    /\ Ask(e, o, [file[o] EXCEPT !.status = "archived"])

\* A run that looks stale is marked failed.  The refresh asks the desktop process
\* which runs are its own before it reads the file, so its answer is old by then;
\* a cancellation without an execution id does not ask at all.
AskRecover(e, o) ==
    /\ file[o].status = "running"
    /\ Ask(e, o, [file[o] EXCEPT !.status = "failed"])

AskDelete(e, o) == Ask(e, o, Absent)

EditorAsk(e, o) ==
    /\ file[o] # Absent
    /\ AskSave(e, o) \/ AskComplete(e, o) \/ AskRecover(e, o) \/ AskDelete(e, o)

\* Every command waits for the workspace registry lock first.
EditorLock(e) ==
    /\ editor[e].pc = "ready"
    /\ regLock = Nobody
    /\ regLock' = e
    /\ EditorGoto(e, "verify")
    /\ UNCHANGED <<file, execLock, marker, reports, run, crashes>>

\* Deleting, and taking a work order out of "running", need the execution lock.
NeedsExecLock_Delete(op) == op.new = Absent
NeedsExecLock(op) ==
    \/ op.new = Absent
    \/ op.old.status = "running" /\ op.new.status # "running"

\* An update must find what its author read; a deletion takes what is there.
StillThere(op) ==
    IF op.new = Absent THEN file[op.order] # Absent ELSE file[op.order] = op.old

EditorVerify_Waits(e) ==
    LET op == editor[e] IN
    /\ op.pc = "verify"
    /\ NeedsExecLock(op) => execLock[op.order] = Nobody
    /\ IF StillThere(op)
       THEN EditorGoto(e, "replace") /\ UNCHANGED regLock
       ELSE editor' = [editor EXCEPT ![e] = NoEdit] /\ regLock' = Nobody
    /\ UNCHANGED <<file, execLock, marker, reports, run, crashes>>
EditorVerify(e) ==
    LET op == editor[e] IN
    /\ op.pc = "verify"
    /\ IF /\ NeedsExecLock(op) => execLock[op.order] = Nobody
          /\ StillThere(op)
       THEN /\ EditorGoto(e, "replace")
            /\ execLock' = IF NeedsExecLock(op)
                           THEN [execLock EXCEPT ![op.order] = e] ELSE execLock
            /\ UNCHANGED regLock
       ELSE /\ editor' = [editor EXCEPT ![e] = NoEdit]
            /\ regLock' = Nobody
            /\ UNCHANGED execLock
    /\ UNCHANGED <<file, marker, reports, run, crashes>>

\* The write or the removal, or its failure; both locks are released.
EditorReplace(e) ==
    LET op == editor[e] IN
    /\ op.pc = "replace"
    /\ \/ /\ file' = [file EXCEPT ![op.order] = op.new]
       \/ DiskFaults /\ UNCHANGED file
    /\ execLock' = [o \in Orders |-> IF execLock[o] = e THEN Nobody ELSE execLock[o]]
    /\ regLock' = Nobody
    /\ editor' = [editor EXCEPT ![e] = NoEdit]
    /\ UNCHANGED <<marker, reports, run, crashes>>

-----------------------------------------------------------------------------
(* The world outside *)

\* git, an IDE agent or a sync tool writes a work order without any lock.
External(o) ==
    /\ ExternalWrites
    /\ \E c \in (Content \cup {Absent}) \ {file[o]} :
           file' = [file EXCEPT ![o] = c]
    /\ UNCHANGED <<execLock, marker, regLock, reports, run, editor, crashes>>

\* Processes die: the OS gives their locks back, everything on disk stays.
Die_KeepsLock(ps) ==
    /\ crashes < MaxCrashes
    /\ crashes' = crashes + 1
    /\ run' = [p \in Runners |-> IF p \in ps THEN NoRun ELSE run[p]]
    /\ editor' = [e \in Editors |-> IF e \in ps THEN NoEdit ELSE editor[e]]
    /\ regLock' = IF regLock \in ps THEN Nobody ELSE regLock
    /\ UNCHANGED <<file, execLock, marker, reports>>
Die(ps) ==
    /\ crashes < MaxCrashes
    /\ crashes' = crashes + 1
    /\ run' = [p \in Runners |-> IF p \in ps THEN NoRun ELSE run[p]]
    /\ editor' = [e \in Editors |-> IF e \in ps THEN NoEdit ELSE editor[e]]
    /\ execLock' = [o \in Orders |-> IF execLock[o] \in ps THEN Nobody ELSE execLock[o]]
    /\ regLock' = IF regLock \in ps THEN Nobody ELSE regLock
    /\ UNCHANGED <<file, marker, reports>>

CliCrash(p) == run[p] # NoRun /\ Die({p})

DesktopCrash ==
    /\ \/ \E d \in Desktop : run[d] # NoRun
       \/ \E e \in Editors : editor[e] # NoEdit
    /\ Die(Desktop \cup Editors)

-----------------------------------------------------------------------------

\* The steps a run takes by itself once it holds the lock.
RunStep(p) ==
    \/ TryLock(p) \/ ReadSnapshot(p) \/ TruncateMarker(p) \/ WriteMarker(p)
    \/ LockRegistry(p) \/ Verify(p) \/ Rename(p)
    \/ Launch(p) \/ AgentsReturn(p) \/ WriteReport(p) \/ Finalize(p)

EditorStep(e) == EditorLock(e) \/ EditorVerify(e) \/ EditorReplace(e)

WorkduckNext ==
    \/ \E p \in Runners : RunStep(p) \/ (\E o \in Orders : Plan(p, o))
    \/ \E e \in Editors : EditorStep(e) \/ (\E o \in Orders : EditorAsk(e, o))
    \/ \E p \in Cli : CliCrash(p)
    \/ DesktopCrash

Next == WorkduckNext \/ \E o \in Orders : External(o)

Spec == Init /\ [][Next]_vars

\* Nobody but the program writes the files.
WorkduckSpec == Init /\ [][WorkduckNext]_vars

\* A live process keeps taking the steps of a run: agents answer or time out, and
\* whoever waits for the registry lock gets it when it keeps coming free.
RunFairness ==
    /\ \A p \in Runners : WF_vars(RunStep(p)) /\ SF_vars(LockRegistry(p))
    /\ \A e \in Editors : WF_vars(EditorStep(e)) /\ SF_vars(EditorLock(e))

FairSpec == WorkduckSpec /\ RunFairness

\* The run has begun and has not given the work order back.
Owns(p) == run[p].pc \in LivePcs \/ (run[p].pc \in CommitPcs /\ run[p].goal # "running")

\* "running" in the file, and no run to get it out of there.
Unattended(o) ==
    /\ file[o] # Absent
    /\ file[o].status = "running"
    /\ \A p \in Runners : ~(Owns(p) /\ run[p].order = o)

\* The refresh timer keeps offering the recovery of a stale run, and a disk that
\* fails does not fail for ever.
RecoverySpec ==
    /\ FairSpec
    /\ \A e \in Editors, o \in Orders : SF_vars(file[o] # Absent /\ AskRecover(e, o))
    /\ \A e \in Editors : SF_vars(EditorReplace(e) /\ \E o \in Orders : Unattended(o) /\ ~Unattended(o)')

-----------------------------------------------------------------------------
(* Invariants *)

\* Every variable keeps its type.
TypeOK ==
    /\ file \in [Orders -> Content \cup {Absent}]
    /\ execLock \in [Orders -> Actors \cup {Nobody}]
    /\ marker \in [Orders -> {"clear", "torn", "marked"}]
    /\ regLock \in Actors \cup {Nobody}
    /\ reports \subseteq [order : Orders, body : Bodies]
    /\ run \in [Runners -> Run]
    /\ editor \in [Editors -> Edit]
    /\ crashes \in 0..MaxCrashes

\* Desktop and command line never run one work order at the same time, whoever
\* started first, whatever crashed and whatever was edited meanwhile.
OneRunPerOrder ==
    \A p, q \in Runners : Owns(p) /\ Owns(q) /\ run[p].order = run[q].order => p = q

\* While a run is under way its file says so: no recovery, deletion, completion
\* or second run takes "running" away before the run itself commits.
LiveRunIsRunning ==
    ~ExternalWrites =>
        \A p \in Runners : Owns(p) /\ run[p].pc # "finalized" =>
            /\ file[run[p].order] # Absent
            /\ file[run[p].order].status = "running"

\* A file left "running" by the program keeps the mark that lets a later run take
\* it over, except when a takeover dies between truncating and writing the mark.
RunningIsMarked ==
    ~ExternalWrites =>
        \A o \in Orders : file[o] # Absent /\ file[o].status = "running" =>
            marker[o] # "clear"

\* "running" is always accounted for: by the run at work, or by the mark a crashed
\* run leaves for the one that takes over.
RunningIsAccountedFor == LiveRunIsRunning /\ RunningIsMarked

-----------------------------------------------------------------------------
(* Action properties *)

\* A run never replaces instructions saved after it read the work order: only an
\* editor operation changes the body of an existing file.
EditsAreNeverReverted ==
    [][~ExternalWrites =>
        \A o \in Orders :
            file[o] # Absent /\ file'[o] # Absent /\ file'[o].body # file[o].body =>
                \E e \in Editors : editor[e].new = file'[o] /\ editor[e].old = file[o]]_vars

-----------------------------------------------------------------------------
(* Liveness *)

\* A run that holds the execution lock gives it back: the two locks are never
\* taken in orders that let a runner and an editor wait for each other.
RunsEnd ==
    \A p \in Runners : run[p].pc # "idle" ~> run[p].pc = "idle"

\* A work order left "running" by a crash or by a lost commit is taken over or
\* marked failed: it does not stay unattended.
InterruptedIsRecovered == \A o \in Orders : Unattended(o) ~> ~Unattended(o)

-----------------------------------------------------------------------------
(* The abstract specification this one implements *)

\* The job of a work order: the run that has committed "running" and has not
\* committed its end.
AtWork(p) == Owns(p) /\ run[p].pc # "finalized"
JobOf(o) ==
    IF \E p \in Runners : AtWork(p) /\ run[p].order = o
    THEN LET w == CHOOSE p \in Runners : AtWork(p) /\ run[p].order = o
         IN  [by |-> w, body |-> run[w].seen.body]
    ELSE Nobody

Lifecycle == INSTANCE WorkOrderLifecycle WITH
    Workers <- Runners, NoJob <- Nobody,
    work <- file, results <- reports, job <- [o \in Orders |-> JobOf(o)]

\* Every step of runners, editors and crashes is a step of the life cycle that
\* the Queue promises, or no step of it.
ImplementsLifecycle == Lifecycle!Spec

-----------------------------------------------------------------------------
(* A claim of the repository that the code does not keep *)

\* queue_work_order_execution.rs:177: "A rejected preview must not turn an
\* externally edited work order into a failed run."
RejectedPreviewIsNoFailure ==
    [][\A p \in Runners :
        run[p].pc = "rename" /\ run'[p].pc = "finalized" /\ Target(run[p].goal) = "failed"
            => run[p].seen.body = run[p].approved]_vars

=============================================================================
