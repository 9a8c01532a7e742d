------------------------ MODULE QueueExecutionProofs ------------------------
(* Proofs about QueueExecution, for every set of work orders, runners and    *)
(* editors, with external writers, failing disks and any number of crashes:  *)
(* who holds which lock, who may rely on what the file says, and, step by    *)
(* step, the implementation of WorkOrderLifecycle.                           *)
EXTENDS QueueExecution, TLAPS

\* A runner that is busy has a work order.
Placed == \A p \in Runners : run[p].pc # "idle" => run[p].order \in Orders

\* From the accepted snapshot on, a runner remembers a real content.
Before == {"idle", "planned", "locked"}
HasSnapshot == \A p \in Runners : run[p].pc \notin Before => run[p].seen \in Content

\* A runner past TryLock holds the execution lock of its work order.
HoldsLock ==
    \A p \in Runners :
        run[p].pc \notin {"idle", "planned"} => execLock[run[p].order] = p

LockInv == TypeOK /\ Placed /\ HasSnapshot /\ HoldsLock

USE DEF Pcs, CommitPcs, LivePcs, EditorPcs, Goals

LEMMA InitLockInv == Init => LockInv
  <1> SUFFICES ASSUME Init PROVE LockInv OBVIOUS
  <1>1. \A p \in Runners : run[p] = NoRun BY DEF Init
  <1>2. TypeOK
    <2>1. NoRun \in Run /\ NoEdit \in Edit BY DEF NoRun, Run, NoEdit, Edit
    <2>2. file \in [Orders -> Content \cup {Absent}] BY DEF Init, Content, Statuses
    <2> QED BY <2>1, <2>2, BoundsAssumption DEF Init, TypeOK
  <1> QED BY <1>1, <1>2 DEF LockInv, Placed, HasSnapshot, HoldsLock, NoRun, Before

\* A runner that goes on with its lock keeps the three parts.
LEMMA GoingOn ==
    ASSUME LockInv, NEW p \in Runners,
           run' \in [Runners -> Run],
           \A q \in Runners \ {p} : run'[q] = run[q],
           run[p].pc \notin {"idle", "planned"},
           run'[p].order = run[p].order,
           run'[p].pc \in Before \/ run'[p].seen \in Content,
           UNCHANGED execLock
    PROVE  Placed' /\ HasSnapshot' /\ HoldsLock'
  BY DEF LockInv, Placed, HasSnapshot, HoldsLock

\* A runner that leaves, giving its lock back or having none, keeps them too.
LEMMA Leaving ==
    ASSUME LockInv, NEW p \in Runners, Leave(p),
           \/ run[p].pc \notin {"idle", "planned"} /\ Unlock(run[p].order)
           \/ UNCHANGED execLock
    PROVE  /\ run' \in [Runners -> Run]
           /\ execLock' \in [Orders -> Actors \cup {Nobody}]
           /\ Placed' /\ HasSnapshot' /\ HoldsLock'
  <1>1. NoRun \in Run /\ NoRun.pc = "idle" BY DEF NoRun, Run
  <1>2. run' \in [Runners -> Run] /\ run'[p] = NoRun BY <1>1 DEF Leave, LockInv, TypeOK
  <1>3. \A q \in Runners \ {p} : run'[q] = run[q] BY DEF Leave, LockInv, TypeOK
  <1>4. execLock' \in [Orders -> Actors \cup {Nobody}] BY DEF LockInv, TypeOK, Unlock
  <1>5. Placed' /\ HasSnapshot' BY <1>1, <1>2, <1>3 DEF LockInv, Placed, HasSnapshot, Before
  <1>6. ASSUME NEW q \in Runners, run'[q].pc \notin {"idle", "planned"}
        PROVE  execLock'[run'[q].order] = q
    <2>1. q # p /\ run'[q] = run[q] BY <1>1, <1>2, <1>3, <1>6
    <2>2. execLock[run[q].order] = q /\ run[q].order \in Orders
      BY <1>6, <2>1 DEF LockInv, Placed, HoldsLock
    <2>3. CASE UNCHANGED execLock BY <2>1, <2>2, <2>3
    <2>4. CASE run[p].pc \notin {"idle", "planned"} /\ Unlock(run[p].order)
      <3>1. execLock[run[p].order] = p BY <2>4 DEF LockInv, HoldsLock
      <3>2. run[p].order # run[q].order BY <2>1, <2>2, <3>1
      <3> QED BY <2>1, <2>2, <2>4, <3>2 DEF Unlock, LockInv, TypeOK
    <2> QED BY <2>3, <2>4
  <1> QED BY <1>2, <1>4, <1>5, <1>6 DEF HoldsLock

LEMMA PlanLockInv ==
    ASSUME LockInv, NEW p \in Runners, NEW o \in Orders, Plan(p, o)
    PROVE  LockInv'
  <1>1. file[o] \in Content BY DEF LockInv, TypeOK, Plan
  <1>2. run'[p] \in Run /\ run'[p].pc = "planned" /\ run'[p].order = o
    BY <1>1 DEF LockInv, TypeOK, Plan, NoRun, Run, Content
  <1>3. \A q \in Runners \ {p} : run'[q] = run[q] BY DEF LockInv, TypeOK, Plan
  <1>4. run' \in [Runners -> Run] BY <1>2 DEF LockInv, TypeOK, Plan
  <1>5. TypeOK' BY <1>4 DEF LockInv, TypeOK, Plan
  <1> QED BY <1>2, <1>3, <1>5 DEF LockInv, Placed, HasSnapshot, HoldsLock, Before, Plan

LEMMA TryLockLockInv ==
    ASSUME LockInv, NEW p \in Runners, TryLock(p)
    PROVE  LockInv'
  <1> DEFINE o == run[p].order
  <1>1. o \in Orders BY DEF LockInv, Placed, TryLock
  <1>2. \A q \in Runners \ {p} : run'[q] = run[q] BY DEF LockInv, TypeOK, TryLock, Goto, Leave
  <1>3. CASE LockIsFree(p, o)
    <2>1. execLock' = [execLock EXCEPT ![o] = p] /\ Goto(p, "locked") /\ execLock[o] = Nobody
      BY <1>3 DEF TryLock, LockIsFree
    <2>2. run'[p] = [run[p] EXCEPT !.pc = "locked"] /\ run'[p] \in Run
      BY <2>1 DEF Goto, LockInv, TypeOK, Run
    <2>3. TypeOK' BY <1>1, <2>1, <2>2 DEF LockInv, TypeOK, TryLock, Goto, Actors
    <2>4. Placed' /\ HasSnapshot'
      BY <1>1, <1>2, <2>2 DEF LockInv, TypeOK, Run, Placed, HasSnapshot, Before
    <2>5. HoldsLock' BY <1>1, <1>2, <2>1, <2>2, ActorsAssumption
      DEF LockInv, TypeOK, Run, Placed, HoldsLock, Actors
    <2> QED BY <2>3, <2>4, <2>5 DEF LockInv
  <1>4. CASE ~LockIsFree(p, o)
    <2>1. Leave(p) /\ UNCHANGED execLock BY <1>4 DEF TryLock
    <2> QED BY <2>1, Leaving DEF LockInv, TypeOK, TryLock
  <1> QED BY <1>3, <1>4

LEMMA ReadSnapshotLockInv ==
    ASSUME LockInv, NEW p \in Runners, ReadSnapshot(p)
    PROVE  LockInv'
  <1> DEFINE o == run[p].order
  <1>1. o \in Orders BY DEF LockInv, Placed, ReadSnapshot
  <1>2. CASE Acceptable(p, file[o])
    <2>1. /\ run' = [run EXCEPT ![p].pc = "accepted", ![p].seen = file[o]]
          /\ UNCHANGED execLock
      BY <1>2 DEF ReadSnapshot
    <2>2. file[o] \in Content BY <1>1, <1>2 DEF Acceptable, LockInv, TypeOK
    <2>3. /\ run' \in [Runners -> Run]
          /\ run'[p].order = o /\ run'[p].seen = file[o]
      <3> DEFINE next == [run[p] EXCEPT !.pc = "accepted", !.seen = file[o]]
      <3>1. run[p] \in Run /\ run \in [Runners -> Run] BY DEF LockInv, TypeOK
      <3>2. next \in Run /\ next.order = o /\ next.seen = file[o] BY <2>2, <3>1 DEF Run
      <3>3. run' = [run EXCEPT ![p] = next] BY <2>1
      <3> HIDE DEF next
      <3> QED BY <3>1, <3>2, <3>3
    <2>4. \A q \in Runners \ {p} : run'[q] = run[q] BY <2>1 DEF LockInv, TypeOK
    <2>5. Placed' /\ HasSnapshot' /\ HoldsLock' BY <2>1, <2>2, <2>3, <2>4, GoingOn DEF ReadSnapshot
    <2> QED BY <2>1, <2>3, <2>5 DEF LockInv, TypeOK, ReadSnapshot
  <1>3. CASE ~Acceptable(p, file[o])
    <2>1. Leave(p) /\ Unlock(o) /\ run[p].pc \notin {"idle", "planned"} BY <1>3 DEF ReadSnapshot
    <2> QED BY <2>1, Leaving DEF LockInv, TypeOK, ReadSnapshot
  <1> QED BY <1>2, <1>3

\* Steps of a run that keeps its lock and only moves on, perhaps to another goal.
LEMMA MovingOn ==
    ASSUME LockInv, NEW p \in Runners, NEW l \in Pcs \ Before, NEW g \in Goals,
           run[p].pc \notin Before,
           Goto(p, l) \/ CommitTo(p, g),
           UNCHANGED execLock
    PROVE  run' \in [Runners -> Run] /\ Placed' /\ HasSnapshot' /\ HoldsLock'
  <1>1. run[p].seen \in Content BY DEF LockInv, HasSnapshot
  <1>2. run' \in [Runners -> Run] /\ run'[p].order = run[p].order
           /\ run'[p].seen = run[p].seen
    <2>1. CASE Goto(p, l) BY <2>1 DEF Goto, LockInv, TypeOK, Run
    <2>2. CASE CommitTo(p, g)
      <3> DEFINE next == [run[p] EXCEPT !.pc = "commit", !.goal = g]
      <3>1. run[p] \in Run /\ run \in [Runners -> Run] BY DEF LockInv, TypeOK
      <3>2. next \in Run /\ next.order = run[p].order /\ next.seen = run[p].seen
        BY <3>1 DEF Run, Pcs, CommitPcs
      <3>3. run' = [run EXCEPT ![p] = next] BY <2>2 DEF CommitTo
      <3> HIDE DEF next
      <3> QED BY <3>1, <3>2, <3>3
    <2> QED BY <2>1, <2>2
  <1>3. \A q \in Runners \ {p} : run'[q] = run[q] BY DEF Goto, CommitTo, LockInv, TypeOK
  <1>4. run[p].pc \notin {"idle", "planned"} BY DEF Before
  <1> QED BY <1>1, <1>2, <1>3, <1>4, GoingOn

LEMMA TruncateMarkerLockInv ==
    ASSUME LockInv, NEW p \in Runners, TruncateMarker(p)
    PROVE  LockInv'
  BY MovingOn DEF LockInv, TypeOK, TruncateMarker, Before

LEMMA WriteMarkerLockInv ==
    ASSUME LockInv, NEW p \in Runners, WriteMarker(p)
    PROVE  LockInv'
  <1>1. CASE Leave(p) /\ Unlock(run[p].order) /\ UNCHANGED marker
    BY <1>1, Leaving DEF LockInv, TypeOK, WriteMarker
  <1>2. CASE /\ marker' = [marker EXCEPT ![run[p].order] = "marked"]
             /\ Goto(p, "commit") /\ UNCHANGED execLock
    BY <1>2, MovingOn DEF LockInv, TypeOK, WriteMarker, Before
  <1> QED BY <1>1, <1>2 DEF WriteMarker

LEMMA CommitFailsLockInv ==
    ASSUME LockInv, NEW p \in Runners, run[p].pc \notin Before, CommitFails(p)
    PROVE  /\ run' \in [Runners -> Run] /\ execLock' \in [Orders -> Actors \cup {Nobody}]
           /\ Placed' /\ HasSnapshot' /\ HoldsLock'
  <1>1. CASE run[p].goal \in {"running", "dropped"} BY <1>1, Leaving DEF CommitFails, Before
  <1>2. CASE run[p].goal \notin {"running", "dropped"}
    BY <1>2, MovingOn DEF CommitFails, Before, LockInv, TypeOK
  <1> QED BY <1>1, <1>2

LEMMA LockRegistryLockInv ==
    ASSUME LockInv, NEW p \in Runners, LockRegistry(p)
    PROVE  LockInv'
  BY MovingOn DEF LockInv, TypeOK, LockRegistry, Before, Actors

LEMMA VerifyLockInv ==
    ASSUME LockInv, NEW p \in Runners, Verify(p)
    PROVE  LockInv'
  <1>1. CASE Unchanged(p) BY <1>1, MovingOn DEF LockInv, TypeOK, Verify, Before
  <1>2. CASE ~Unchanged(p)
    BY <1>2, CommitFailsLockInv DEF LockInv, TypeOK, Verify, CommitFails, Before
  <1> QED BY <1>1, <1>2

LEMMA WrittenType ==
    ASSUME LockInv, NEW p \in Runners, run[p].pc \notin Before
    PROVE  Written(p) \in Content /\ Written(p).status = Target(run[p].goal)
           /\ Written(p).body = run[p].seen.body
  <1>1. run[p].seen \in Content /\ run[p].goal \in Goals BY DEF LockInv, HasSnapshot, TypeOK, Run
  <1>2. Target(run[p].goal) \in Statuses BY <1>1 DEF Target, Statuses
  <1> QED BY <1>1, <1>2 DEF Written, Content

LEMMA RenameLockInv ==
    ASSUME LockInv, NEW p \in Runners, Rename(p)
    PROVE  LockInv'
  <1>1. run[p].pc \notin Before /\ run[p].pc \notin {"idle", "planned"} BY DEF Rename, Before
  <1>2. run[p].order \in Orders /\ Written(p) \in Content BY <1>1, WrittenType DEF LockInv, Placed
  <1>3. CASE DiskFaults /\ CommitFails(p) /\ UNCHANGED file
    BY <1>1, <1>3, CommitFailsLockInv DEF LockInv, TypeOK, Rename, CommitFails
  <1>4. CASE ~(DiskFaults /\ CommitFails(p) /\ UNCHANGED file)
    <2> DEFINE l == IF run[p].goal = "running" THEN "started" ELSE "finalized"
    <2>1. /\ file' = [file EXCEPT ![run[p].order] = Written(p)]
          /\ run' = [run EXCEPT ![p].seen = Written(p), ![p].pc = l]
          /\ UNCHANGED <<execLock, marker>> /\ regLock' = Nobody
      BY <1>4 DEF Rename
    <2>2. /\ run' \in [Runners -> Run] /\ run'[p].order = run[p].order
          /\ run'[p].seen = Written(p)
      <3> DEFINE next == [run[p] EXCEPT !.seen = Written(p), !.pc = l]
      <3>1. run[p] \in Run /\ run \in [Runners -> Run] /\ l \in Pcs BY DEF LockInv, TypeOK
      <3> HIDE DEF l
      <3>2. next \in Run /\ next.order = run[p].order /\ next.seen = Written(p)
        BY <1>2, <3>1 DEF Run
      <3>3. run' = [run EXCEPT ![p] = next] BY <2>1
      <3> HIDE DEF next
      <3> QED BY <3>1, <3>2, <3>3
    <2>3. \A q \in Runners \ {p} : run'[q] = run[q] BY <2>1 DEF LockInv, TypeOK
    <2>4. Placed' /\ HasSnapshot' /\ HoldsLock' BY <1>1, <1>2, <2>1, <2>2, <2>3, GoingOn
    <2> QED BY <1>2, <2>1, <2>2, <2>4 DEF LockInv, TypeOK, Rename
  <1> QED BY <1>3, <1>4

LEMMA GiveUpIsCommit ==
    ASSUME NEW p \in Runners, GiveUp(p)
    PROVE  \E g \in Goals : CommitTo(p, g)
  BY DEF GiveUp

LEMMA LaunchLockInv ==
    ASSUME LockInv, NEW p \in Runners, Launch(p)
    PROVE  LockInv'
  <1>1. Goto(p, "executing") \/ \E g \in Goals : CommitTo(p, g) BY GiveUpIsCommit DEF Launch
  <1>2. run' \in [Runners -> Run] /\ Placed' /\ HasSnapshot' /\ HoldsLock'
    BY <1>1, MovingOn DEF Launch, Before
  <1> QED BY <1>2 DEF LockInv, TypeOK, Launch

LEMMA AgentsReturnLockInv ==
    ASSUME LockInv, NEW p \in Runners, AgentsReturn(p)
    PROVE  LockInv'
  <1>1. Goto(p, "reporting") \/ \E g \in Goals : CommitTo(p, g) BY GiveUpIsCommit DEF AgentsReturn
  <1>2. run' \in [Runners -> Run] /\ Placed' /\ HasSnapshot' /\ HoldsLock'
    BY <1>1, MovingOn DEF AgentsReturn, Before
  <1> QED BY <1>2 DEF LockInv, TypeOK, AgentsReturn

LEMMA WriteReportLockInv ==
    ASSUME LockInv, NEW p \in Runners, WriteReport(p)
    PROVE  LockInv'
  <1>1. \E g \in Goals : CommitTo(p, g) BY DEF WriteReport, ReportFailureGoal
  <1>2. run' \in [Runners -> Run] /\ Placed' /\ HasSnapshot' /\ HoldsLock'
    BY <1>1, MovingOn DEF WriteReport, Before
  <1>3. [order |-> run[p].order, body |-> run[p].seen.body] \in [order : Orders, body : Bodies]
    BY DEF WriteReport, LockInv, Placed, HasSnapshot, Content, Before
  <1>4. reports' \subseteq [order : Orders, body : Bodies] BY <1>3 DEF WriteReport, LockInv, TypeOK
  <1> QED BY <1>2, <1>4 DEF LockInv, TypeOK, WriteReport

LEMMA FinalizeLockInv ==
    ASSUME LockInv, NEW p \in Runners, Finalize(p)
    PROVE  LockInv'
  BY Leaving DEF LockInv, TypeOK, Finalize

-----------------------------------------------------------------------------
(* Editors, the outside, crashes *)

\* What no runner does leaves the runners alone; their locks must stay theirs.
LEMMA RunnersAlone ==
    ASSUME LockInv, UNCHANGED run,
           \A o \in Orders : execLock[o] \in Runners => execLock'[o] = execLock[o]
    PROVE  Placed' /\ HasSnapshot' /\ HoldsLock'
  BY DEF LockInv, Placed, HasSnapshot, HoldsLock

LEMMA AskLockInv ==
    ASSUME LockInv, NEW e \in Editors, NEW o \in Orders, EditorAsk(e, o)
    PROVE  LockInv'
  <1>1. file[o] \in Content BY DEF EditorAsk, LockInv, TypeOK
  <1>2. PICK new \in Content \cup {Absent} : Ask(e, o, new)
    <2>1. CASE AskSave(e, o) BY <1>1, <2>1 DEF AskSave, Content
    <2>2. CASE AskComplete(e, o) BY <1>1, <2>2 DEF AskComplete, Content, Statuses
    <2>3. CASE AskRecover(e, o) BY <1>1, <2>3 DEF AskRecover, Content, Statuses
    <2>4. CASE AskDelete(e, o) BY <2>4 DEF AskDelete
    <2> QED BY <2>1, <2>2, <2>3, <2>4 DEF EditorAsk
  <1>3. editor' \in [Editors -> Edit] BY <1>1, <1>2 DEF Ask, LockInv, TypeOK, Edit
  <1> QED BY <1>2, <1>3, RunnersAlone DEF Ask, LockInv, TypeOK

LEMMA EditorTypes ==
    ASSUME LockInv, NEW e \in Editors
    PROVE  NoEdit \in Edit /\ editor[e] \in Edit
           /\ \A l \in EditorPcs : [editor[e] EXCEPT !.pc = l] \in Edit
  BY DEF LockInv, TypeOK, NoEdit, Edit

LEMMA EditorLockLockInv ==
    ASSUME LockInv, NEW e \in Editors, EditorLock(e)
    PROVE  LockInv'
  <1>1. editor' \in [Editors -> Edit] BY EditorTypes DEF EditorLock, EditorGoto, LockInv, TypeOK
  <1> QED BY <1>1, RunnersAlone DEF EditorLock, LockInv, TypeOK, Actors

LEMMA EditorVerifyLockInv ==
    ASSUME LockInv, NEW e \in Editors, EditorVerify(e)
    PROVE  LockInv'
  <1>1. editor' \in [Editors -> Edit] BY EditorTypes DEF EditorVerify, EditorGoto, LockInv, TypeOK
  <1>2. execLock' \in [Orders -> Actors \cup {Nobody}] BY DEF EditorVerify, LockInv, TypeOK, Actors
  <1>3. \A o \in Orders : execLock[o] \in Runners => execLock'[o] = execLock[o]
    BY ActorsAssumption DEF EditorVerify, LockInv, TypeOK, Actors
  <1>4. regLock' \in Actors \cup {Nobody} BY DEF EditorVerify, LockInv, TypeOK
  <1>5. UNCHANGED <<file, marker, reports, run, crashes>> BY DEF EditorVerify
  <1> QED BY <1>1, <1>2, <1>3, <1>4, <1>5, RunnersAlone DEF LockInv, TypeOK

LEMMA EditorReplaceLockInv ==
    ASSUME LockInv, NEW e \in Editors, EditorReplace(e)
    PROVE  LockInv'
  <1>1. editor' \in [Editors -> Edit] BY EditorTypes DEF EditorReplace, LockInv, TypeOK
  <1>2. execLock' \in [Orders -> Actors \cup {Nobody}] BY DEF EditorReplace, LockInv, TypeOK
  <1>3. \A o \in Orders : execLock[o] \in Runners => execLock'[o] = execLock[o]
    BY ActorsAssumption DEF EditorReplace, LockInv, TypeOK
  <1>4. file' \in [Orders -> Content \cup {Absent}]
    BY EditorTypes DEF EditorReplace, LockInv, TypeOK, Edit
  <1>5. UNCHANGED <<marker, reports, run, crashes>> /\ regLock' = Nobody BY DEF EditorReplace
  <1> QED BY <1>1, <1>2, <1>3, <1>4, <1>5, RunnersAlone DEF LockInv, TypeOK

LEMMA ExternalLockInv ==
    ASSUME LockInv, NEW o \in Orders, External(o)
    PROVE  LockInv'
  <1>1. file' \in [Orders -> Content \cup {Absent}] BY DEF External, LockInv, TypeOK
  <1> QED BY <1>1, RunnersAlone DEF External, LockInv, TypeOK

LEMMA DieLockInv ==
    ASSUME LockInv, NEW ps, ps \subseteq Actors, Die(ps)
    PROVE  LockInv'
  <1>1. NoRun \in Run /\ NoRun.pc = "idle" /\ NoEdit \in Edit BY DEF NoRun, Run, NoEdit, Edit
  <1>2. run' \in [Runners -> Run] /\ editor' \in [Editors -> Edit] BY <1>1 DEF Die, LockInv, TypeOK
  <1>3. execLock' \in [Orders -> Actors \cup {Nobody}] /\ regLock' \in Actors \cup {Nobody}
    BY DEF Die, LockInv, TypeOK
  <1>4. crashes' \in 0..MaxCrashes BY BoundsAssumption DEF Die, LockInv, TypeOK
  <1>5. \A q \in Runners : run'[q].pc # "idle" => q \notin ps /\ run'[q] = run[q] BY <1>1 DEF Die
  <1>6. Placed' /\ HasSnapshot' BY <1>5, <1>1 DEF Die, LockInv, Placed, HasSnapshot, Before
  <1>7. HoldsLock'
    <2> SUFFICES ASSUME NEW q \in Runners, run'[q].pc \notin {"idle", "planned"}
                 PROVE  execLock'[run'[q].order] = q
      BY DEF HoldsLock
    <2>1. q \notin ps /\ run'[q] = run[q] BY <1>5
    <2>2. run[q].order \in Orders /\ execLock[run[q].order] = q
      BY <2>1 DEF LockInv, Placed, HoldsLock
    <2> QED BY <2>1, <2>2 DEF Die
  <1> QED BY <1>2, <1>3, <1>4, <1>6, <1>7 DEF Die, LockInv, TypeOK

LEMMA NextLockInv == LockInv /\ [Next]_vars => LockInv'
  <1> SUFFICES ASSUME LockInv, [Next]_vars PROVE LockInv' OBVIOUS
  <1>1. ASSUME NEW p \in Runners, RunStep(p) PROVE LockInv'
    BY <1>1, TryLockLockInv, ReadSnapshotLockInv, TruncateMarkerLockInv, WriteMarkerLockInv,
      LockRegistryLockInv, VerifyLockInv, RenameLockInv, LaunchLockInv, AgentsReturnLockInv,
      WriteReportLockInv, FinalizeLockInv DEF RunStep
  <1>2. ASSUME NEW e \in Editors, EditorStep(e) PROVE LockInv'
    BY <1>2, EditorLockLockInv, EditorVerifyLockInv, EditorReplaceLockInv DEF EditorStep
  <1>3. ASSUME NEW p \in Cli, CliCrash(p) PROVE LockInv'
    <2>1. {p} \subseteq Actors BY DEF Actors, Runners
    <2> QED BY <1>3, <2>1, DieLockInv DEF CliCrash
  <1>4. CASE DesktopCrash
    <2>1. Desktop \cup Editors \subseteq Actors BY DEF Actors, Runners
    <2> QED BY <1>4, <2>1, DieLockInv DEF DesktopCrash
  <1>5. CASE UNCHANGED vars BY <1>5 DEF vars, LockInv, TypeOK, Placed, HasSnapshot, HoldsLock
  <1> QED BY <1>1, <1>2, <1>3, <1>4, <1>5, PlanLockInv, AskLockInv, ExternalLockInv
    DEF Next, WorkduckNext

\* The program never leaves the states its types describe.
THEOREM TypeCorrect == Spec => []TypeOK
  <1>1. LockInv => TypeOK BY DEF LockInv
  <1> QED BY <1>1, InitLockInv, NextLockInv, PTL DEF Spec

\* At most one run of a work order at a time, on one machine, for any number of
\* desktop runs and command lines, whatever crashes and whatever is edited.
THEOREM MutualExclusion == Spec => []OneRunPerOrder
  <1>1. LockInv => OneRunPerOrder BY DEF LockInv, OneRunPerOrder, Owns, HoldsLock
  <1> QED BY <1>1, InitLockInv, NextLockInv, PTL DEF Spec

-----------------------------------------------------------------------------
(* What a run and an editor operation may rely on when nobody outside writes. *)
(* Every write of a work order happens under the registry lock, so what its  *)
(* writer compared is what it replaces; every writer that takes a work order *)
(* into or out of "running" holds its execution lock as well.                *)

\* A runner that compares or replaces has the registry lock, and what it is about
\* to replace is what it read.
WritesWhatItRead(p) ==
    /\ run[p].pc \in {"verify", "rename"} => regLock = p
    /\ run[p].pc = "rename" => file[run[p].order] = run[p].seen

\* A run that is beginning means to write "running" over something executable,
\* and has marked the lock file before it may.
OpensMarked(p) ==
    /\ run[p].pc \in {"planned", "locked", "accepted", "truncated"} => run[p].goal = "running"
    /\ run[p].pc \in {"accepted", "truncated"} \/ (run[p].pc \in CommitPcs /\ run[p].goal = "running")
           => run[p].seen.status # "archived"
    /\ run[p].pc \in CommitPcs /\ run[p].goal = "running" => marker[run[p].order] = "marked"

\* A run at work finds "running" in the file and in what it remembers; it has
\* published a report before it goes to write a completion.
WorksOnRunning(p) ==
    /\ AtWork(p) => /\ run[p].seen.status = "running"
                    /\ file[run[p].order] # Absent
                    /\ file[run[p].order].status = "running"
    /\ run[p].pc \in CommitPcs /\ run[p].goal \in {"archived", "active"} =>
           [order |-> run[p].order, body |-> run[p].seen.body] \in reports

\* A run that has written its end does not leave "running" behind.
EndsSettled(p) ==
    run[p].pc = "finalized" =>
        file[run[p].order] = Absent \/ file[run[p].order].status # "running"

RunOK(p) == WritesWhatItRead(p) /\ OpensMarked(p) /\ WorksOnRunning(p) /\ EndsSettled(p)

\* The changes an editor operation can ask for.
Change(old, new) ==
    \/ new = Absent
    \/ new \in Content /\ new.status = old.status
    \/ /\ old.status \in {"active", "failed"}
       /\ new = [old EXCEPT !.status = "archived"]
    \/ old.status = "running" /\ new = [old EXCEPT !.status = "failed"]

EditOK(e) ==
    /\ editor[e].pc # "idle" => /\ editor[e].order \in Orders
                                /\ editor[e].old \in Content
                                /\ Change(editor[e].old, editor[e].new)
    /\ editor[e].pc \in {"verify", "replace"} => regLock = e
    /\ editor[e].pc = "replace" =>
           /\ StillThere(editor[e])
           /\ NeedsExecLock(editor[e]) => execLock[editor[e].order] = e

\* RunningIsMarked, one work order at a time.
MarkedOK(o) == file[o] # Absent /\ file[o].status = "running" => marker[o] # "clear"

OwnedInv ==
    /\ \A p \in Runners : RunOK(p)
    /\ \A e \in Editors : EditOK(e)
    /\ \A o \in Orders : MarkedOK(o)

LEMMA InitOwnedInv == Init => OwnedInv
  <1> SUFFICES ASSUME Init PROVE OwnedInv OBVIOUS
  <1>1. ASSUME NEW p \in Runners PROVE RunOK(p)
    BY DEF Init, NoRun, RunOK, WritesWhatItRead, OpensMarked, WorksOnRunning, EndsSettled, AtWork,
      Owns
  <1>2. ASSUME NEW e \in Editors PROVE EditOK(e) BY DEF Init, NoEdit, EditOK
  <1>3. ASSUME NEW o \in Orders PROVE MarkedOK(o) BY DEF Init, MarkedOK
  <1> QED BY <1>1, <1>2, <1>3 DEF OwnedInv

Running(c) == c # Absent /\ c.status = "running"

\* What others do does not disturb a run, as long as the registry lock stays with
\* it and its work order stays running or not running.
LEMMA RunUndisturbed ==
    ASSUME LockInv, NEW q \in Runners, RunOK(q), run'[q] = run[q],
           regLock = q => regLock' = q,
           run[q].pc \notin {"idle", "planned"} =>
               /\ marker'[run[q].order] = marker[run[q].order]
               /\ Running(file'[run[q].order]) <=> Running(file[run[q].order])
               /\ regLock = q => file'[run[q].order] = file[run[q].order],
           reports \subseteq reports'
    PROVE  RunOK(q)'
  <1>1. WritesWhatItRead(q)' BY DEF RunOK, WritesWhatItRead
  <1>2. OpensMarked(q)' BY DEF RunOK, OpensMarked
  <1>3. WorksOnRunning(q)' BY DEF RunOK, WorksOnRunning, AtWork, Owns, Running
  <1>4. EndsSettled(q)' BY DEF RunOK, EndsSettled, Running
  <1> QED BY <1>1, <1>2, <1>3, <1>4 DEF RunOK

\* Nor an editor operation, as long as it keeps the locks it has and nobody writes
\* while it has the registry lock.
LEMMA EditUndisturbed ==
    ASSUME NEW e \in Editors, EditOK(e), editor'[e] = editor[e],
           regLock = e => regLock' = e /\ UNCHANGED file,
           \A o \in Orders : execLock[o] = e => execLock'[o] = e
    PROVE  EditOK(e)'
  BY DEF EditOK, StillThere, NeedsExecLock

\* A step of one runner keeps the invariant if it keeps the runner's own part, and
\* changes only a work order it has locked, one it leaves marked if it is running.
LEMMA RunnerKeeps ==
    ASSUME LockInv, OwnedInv, NEW p \in Runners,
           \A q \in Runners \ {p} : run'[q] = run[q],
           UNCHANGED editor,
           \A a \in Actors \ {p} : regLock = a => regLock' = a /\ UNCHANGED file,
           \A o \in Orders : execLock[o] \in Actors \ {p} => execLock'[o] = execLock[o],
           \A o \in Orders :
               \/ file'[o] = file[o] /\ marker'[o] = marker[o]
               \/ execLock[o] = p /\ MarkedOK(o)',
           reports \subseteq reports',
           RunOK(p)'
    PROVE  OwnedInv'
  <1>1. ASSUME NEW q \in Runners \ {p} PROVE RunOK(q)'
    <2>1. q \in Actors \ {p} BY DEF Actors
    <2>2. run[q].pc \notin {"idle", "planned"} =>
              run[q].order \in Orders /\ execLock[run[q].order] = q
      BY DEF LockInv, Placed, HoldsLock
    <2>3. run[q].pc \notin {"idle", "planned"} =>
              /\ marker'[run[q].order] = marker[run[q].order]
              /\ file'[run[q].order] = file[run[q].order]
      BY <2>1, <2>2
    <2>4. RunOK(q) /\ run'[q] = run[q] /\ (regLock = q => regLock' = q) BY <2>1 DEF OwnedInv
    <2> QED BY <2>3, <2>4, RunUndisturbed
  <1>2. ASSUME NEW e \in Editors PROVE EditOK(e)'
    <2>1. e \in Actors \ {p} BY ActorsAssumption DEF Actors
    <2>2. EditOK(e) /\ editor'[e] = editor[e] BY DEF OwnedInv
    <2>3. \A o \in Orders : execLock[o] = e => execLock'[o] = e BY <2>1
    <2>4. regLock = e => regLock' = e /\ UNCHANGED file BY <2>1
    <2> QED BY <2>2, <2>3, <2>4, EditUndisturbed
  <1>3. ASSUME NEW o \in Orders PROVE MarkedOK(o)' BY DEF OwnedInv, MarkedOK
  <1> QED BY <1>1, <1>2, <1>3 DEF OwnedInv

\* A runner at rest needs nothing.
LEMMA AtRest ==
    ASSUME LockInv, NEW p \in Runners, Leave(p)
    PROVE  RunOK(p)' /\ run'[p] = NoRun /\ \A q \in Runners \ {p} : run'[q] = run[q]
  <1>1. run'[p] = NoRun /\ \A q \in Runners \ {p} : run'[q] = run[q] BY DEF Leave, LockInv, TypeOK
  <1> QED
    BY <1>1 DEF NoRun, RunOK, WritesWhatItRead, OpensMarked, WorksOnRunning, EndsSettled, AtWork,
      Owns

LEMMA GotoFields ==
    ASSUME LockInv, NEW p \in Runners, NEW l, Goto(p, l)
    PROVE  /\ run'[p].pc = l /\ run'[p].order = run[p].order
           /\ run'[p].seen = run[p].seen /\ run'[p].goal = run[p].goal
           /\ run'[p].approved = run[p].approved
           /\ \A q \in Runners \ {p} : run'[q] = run[q]
  BY DEF Goto, LockInv, TypeOK, Run

LEMMA CommitToFields ==
    ASSUME LockInv, NEW p \in Runners, NEW g, CommitTo(p, g)
    PROVE  /\ run'[p].pc = "commit" /\ run'[p].order = run[p].order
           /\ run'[p].seen = run[p].seen /\ run'[p].goal = g
           /\ \A q \in Runners \ {p} : run'[q] = run[q]
  <1> DEFINE next == [run[p] EXCEPT !.pc = "commit", !.goal = g]
  <1>1. run[p] \in Run /\ run \in [Runners -> Run] BY DEF LockInv, TypeOK
  <1>2. next.pc = "commit" /\ next.goal = g /\ next.order = run[p].order /\ next.seen = run[p].seen
    BY <1>1 DEF Run
  <1>3. run' = [run EXCEPT ![p] = next] BY DEF CommitTo
  <1> HIDE DEF next
  <1> QED BY <1>1, <1>2, <1>3

\* A run at work that goes to commit something else than "running", or goes on, has
\* what it relies on.
LEMMA WorkGoesOn ==
    ASSUME LockInv, NEW p \in Runners, RunOK(p), AtWork(p),
           UNCHANGED <<file, marker>>, reports \subseteq reports',
           \/ \E l \in {"executing", "reporting"} : run[p].pc \in LivePcs /\ Goto(p, l)
           \/ \E g \in {"failed", "dropped"} : CommitTo(p, g)
           \/ \E g \in {"archived", "active"} : CommitTo(p, g) /\
                [order |-> run[p].order, body |-> run[p].seen.body] \in reports'
    PROVE  RunOK(p)' /\ AtWork(p)'
  <1>1. CASE \E l \in {"executing", "reporting"} : run[p].pc \in LivePcs /\ Goto(p, l)
    <2>1. PICK l \in {"executing", "reporting"} : Goto(p, l) BY <1>1
    <2>2. /\ run'[p].pc = l /\ run'[p].order = run[p].order
          /\ run'[p].seen = run[p].seen /\ run'[p].goal = run[p].goal
      BY <2>1, GotoFields
    <2> QED
      BY <2>2 DEF RunOK, WritesWhatItRead, OpensMarked, WorksOnRunning, EndsSettled, AtWork, Owns
  <1>2. CASE ~\E l \in {"executing", "reporting"} : run[p].pc \in LivePcs /\ Goto(p, l)
    <2>1. PICK g \in Goals \ {"running"} :
            /\ CommitTo(p, g)
            /\ g \in {"archived", "active"} =>
                 [order |-> run[p].order, body |-> run[p].seen.body] \in reports'
      BY <1>2
    <2>2. /\ run'[p].pc = "commit" /\ run'[p].order = run[p].order
          /\ run'[p].seen = run[p].seen /\ run'[p].goal = g
      BY <2>1, CommitToFields
    <2> QED BY <2>1, <2>2
      DEF RunOK, WritesWhatItRead, OpensMarked, WorksOnRunning, EndsSettled, AtWork, Owns
  <1> QED BY <1>1, <1>2

LEMMA PlanOwned ==
    ASSUME LockInv, OwnedInv, NEW p \in Runners, NEW o \in Orders, Plan(p, o)
    PROVE  OwnedInv'
  <1>1. run'[p].pc = "planned" /\ run'[p].goal = "running" BY DEF Plan, LockInv, TypeOK, NoRun
  <1>2. RunOK(p)'
    BY <1>1 DEF RunOK, WritesWhatItRead, OpensMarked, WorksOnRunning, EndsSettled, AtWork, Owns
  <1>3. \A q \in Runners \ {p} : run'[q] = run[q] BY DEF Plan, LockInv, TypeOK
  <1> QED BY <1>2, <1>3, RunnerKeeps DEF Plan

LEMMA TryLockOwned ==
    ASSUME LockInv, OwnedInv, NEW p \in Runners, TryLock(p)
    PROVE  OwnedInv'
  <1>1. RunOK(p) BY DEF OwnedInv
  <1>2. CASE LockIsFree(p, run[p].order)
    <2>1. /\ execLock' = [execLock EXCEPT ![run[p].order] = p] /\ Goto(p, "locked")
          /\ execLock[run[p].order] = Nobody
      BY <1>2 DEF TryLock, LockIsFree
    <2>2. run'[p].pc = "locked" /\ run'[p].goal = "running"
           /\ \A q \in Runners \ {p} : run'[q] = run[q]
      BY <1>1, <2>1, GotoFields DEF TryLock, RunOK, OpensMarked
    <2>3. RunOK(p)'
      BY <2>2 DEF RunOK, WritesWhatItRead, OpensMarked, WorksOnRunning, EndsSettled, AtWork, Owns
    <2>4. \A o \in Orders : execLock[o] \in Actors \ {p} => execLock'[o] = execLock[o]
      BY <2>1, ActorsAssumption DEF LockInv, TypeOK
    <2> QED BY <2>2, <2>3, <2>4, RunnerKeeps DEF TryLock
  <1>3. CASE ~LockIsFree(p, run[p].order)
    <2>1. Leave(p) /\ UNCHANGED execLock BY <1>3 DEF TryLock
    <2> QED BY <2>1, AtRest, RunnerKeeps DEF TryLock
  <1> QED BY <1>2, <1>3

\* Giving a work order back disturbs no lock but the runner's own.
LEMMA UnlocksOwn ==
    ASSUME LockInv, NEW p \in Runners, run[p].pc \notin {"idle", "planned"}, Unlock(run[p].order)
    PROVE  \A o \in Orders : execLock[o] \in Actors \ {p} => execLock'[o] = execLock[o]
  <1>1. execLock[run[p].order] = p BY DEF LockInv, HoldsLock
  <1> QED BY <1>1 DEF Unlock, LockInv, TypeOK

LEMMA ReadSnapshotOwned ==
    ASSUME LockInv, OwnedInv, NEW p \in Runners, ReadSnapshot(p)
    PROVE  OwnedInv'
  <1> DEFINE o == run[p].order
  <1>1. RunOK(p) /\ o \in Orders BY DEF OwnedInv, LockInv, Placed, ReadSnapshot
  <1>2. CASE Acceptable(p, file[o])
    <2>1. /\ run' = [run EXCEPT ![p].pc = "accepted", ![p].seen = file[o]]
          /\ UNCHANGED execLock
      BY <1>2 DEF ReadSnapshot
    <2>2. /\ run'[p].pc = "accepted" /\ run'[p].seen = file[o] /\ run'[p].goal = run[p].goal
          /\ \A q \in Runners \ {p} : run'[q] = run[q]
      BY <2>1 DEF LockInv, TypeOK, Run
    <2>3. run[p].goal = "running" /\ file[o].status # "archived"
      BY <1>1, <1>2 DEF RunOK, OpensMarked, ReadSnapshot, Acceptable, Executable
    <2>4. RunOK(p)' BY <2>2, <2>3
      DEF RunOK, WritesWhatItRead, OpensMarked, WorksOnRunning, EndsSettled, AtWork, Owns
    <2> QED BY <2>1, <2>2, <2>4, RunnerKeeps DEF ReadSnapshot
  <1>3. CASE ~Acceptable(p, file[o])
    <2>1. Leave(p) /\ Unlock(o) BY <1>3 DEF ReadSnapshot
    <2> QED BY <2>1, AtRest, UnlocksOwn, RunnerKeeps DEF ReadSnapshot
  <1> QED BY <1>2, <1>3

LEMMA TruncateMarkerOwned ==
    ASSUME LockInv, OwnedInv, NEW p \in Runners, TruncateMarker(p)
    PROVE  OwnedInv'
  <1>1. RunOK(p) /\ run[p].order \in Orders /\ execLock[run[p].order] = p
    BY DEF OwnedInv, LockInv, Placed, HoldsLock, TruncateMarker
  <1>2. Goto(p, "truncated") /\ marker' = [marker EXCEPT ![run[p].order] = "torn"]
    BY DEF TruncateMarker
  <1>3. RunOK(p)' BY <1>1, <1>2, GotoFields
    DEF RunOK, WritesWhatItRead, OpensMarked, WorksOnRunning, EndsSettled, AtWork, Owns,
        TruncateMarker
  <1>4. \A o \in Orders : marker'[o] = IF o = run[p].order THEN "torn" ELSE marker[o]
    BY <1>2 DEF LockInv, TypeOK
  <1>5. \A o \in Orders : \/ file'[o] = file[o] /\ marker'[o] = marker[o]
                          \/ execLock[o] = p /\ MarkedOK(o)'
    BY <1>1, <1>4 DEF MarkedOK, TruncateMarker
  <1> QED BY <1>2, <1>3, <1>5, GotoFields, RunnerKeeps DEF TruncateMarker

LEMMA WriteMarkerOwned ==
    ASSUME LockInv, OwnedInv, NEW p \in Runners, WriteMarker(p)
    PROVE  OwnedInv'
  <1>1. RunOK(p) /\ run[p].order \in Orders /\ execLock[run[p].order] = p
    BY DEF OwnedInv, LockInv, Placed, HoldsLock, WriteMarker
  <1>2. CASE /\ marker' = [marker EXCEPT ![run[p].order] = "marked"]
             /\ Goto(p, "commit") /\ UNCHANGED execLock
    <2>1. /\ run'[p].pc = "commit" /\ run'[p].order = run[p].order
          /\ run'[p].seen = run[p].seen /\ run'[p].goal = "running"
      BY <1>1, <1>2, GotoFields DEF RunOK, OpensMarked, WriteMarker
    <2>2. \A o \in Orders : marker'[o] = IF o = run[p].order THEN "marked" ELSE marker[o]
      BY <1>2 DEF LockInv, TypeOK
    <2>3. RunOK(p)' BY <1>1, <2>1, <2>2
      DEF RunOK, WritesWhatItRead, OpensMarked, WorksOnRunning, EndsSettled, AtWork, Owns,
          WriteMarker
    <2>4. \A o \in Orders : \/ file'[o] = file[o] /\ marker'[o] = marker[o]
                            \/ execLock[o] = p /\ MarkedOK(o)'
      BY <1>1, <2>2 DEF MarkedOK, WriteMarker
    <2> QED BY <1>2, <2>3, <2>4, GotoFields, RunnerKeeps DEF WriteMarker
  <1>3. CASE Leave(p) /\ Unlock(run[p].order) /\ UNCHANGED marker
    BY <1>3, AtRest, UnlocksOwn, RunnerKeeps DEF WriteMarker
  <1> QED BY <1>2, <1>3 DEF WriteMarker

\* A runner that holds the registry lock is the only one that may write.
LEMMA RegLockIsOwn ==
    ASSUME LockInv, OwnedInv, NEW p \in Runners, run[p].pc \in {"verify", "rename"}
    PROVE  regLock = p /\ \A a \in Actors \ {p} : regLock # a
  BY DEF OwnedInv, RunOK, WritesWhatItRead

LEMMA LockRegistryOwned ==
    ASSUME LockInv, OwnedInv, NEW p \in Runners, LockRegistry(p)
    PROVE  OwnedInv'
  <1>1. RunOK(p) BY DEF OwnedInv
  <1>2. RunOK(p)' BY <1>1, GotoFields
    DEF LockRegistry, RunOK, WritesWhatItRead, OpensMarked, WorksOnRunning, EndsSettled, AtWork,
        Owns
  <1>3. \A a \in Actors \ {p} : regLock # a BY ActorsAssumption DEF LockRegistry
  <1> QED BY <1>2, <1>3, GotoFields, RunnerKeeps DEF LockRegistry

\* A failed commit of a run at work leads to the commit of "failed" made by Drop,
\* any other to the end of the run.
LEMMA CommitFailsOwned ==
    ASSUME LockInv, OwnedInv, NEW p \in Runners, run[p].pc \in {"verify", "rename"},
           CommitFails(p), UNCHANGED <<file, reports, editor>>
    PROVE  OwnedInv'
  <1>1. RunOK(p) BY DEF OwnedInv
  <1>2. CASE run[p].goal \in {"running", "dropped"}
    <2>1. Leave(p) /\ Unlock(run[p].order) /\ UNCHANGED marker BY <1>2 DEF CommitFails
    <2> QED BY <2>1, AtRest, UnlocksOwn, RegLockIsOwn, RunnerKeeps
  <1>3. CASE run[p].goal \notin {"running", "dropped"}
    <2>1. CommitTo(p, "dropped") /\ UNCHANGED <<execLock, marker>> BY <1>3 DEF CommitFails
    <2>2. AtWork(p) BY <1>3 DEF AtWork, Owns
    <2>3. RunOK(p)' BY <1>1, <2>1, <2>2, WorkGoesOn
    <2> QED BY <2>1, <2>3, CommitToFields, RegLockIsOwn, RunnerKeeps
  <1> QED BY <1>2, <1>3

LEMMA VerifyOwned ==
    ASSUME LockInv, OwnedInv, NEW p \in Runners, Verify(p)
    PROVE  OwnedInv'
  <1>1. RunOK(p) BY DEF OwnedInv
  <1>2. CASE Unchanged(p)
    <2>1. Goto(p, "rename") /\ UNCHANGED <<regLock, execLock, marker, file, reports, editor>>
      BY <1>2 DEF Verify
    <2>2. /\ run'[p].pc = "rename" /\ run'[p].order = run[p].order
          /\ run'[p].seen = run[p].seen /\ run'[p].goal = run[p].goal
      BY <2>1, GotoFields
    <2>3. RunOK(p)' BY <1>1, <1>2, <2>1, <2>2
      DEF Verify, Unchanged, RunOK, WritesWhatItRead, OpensMarked, WorksOnRunning, EndsSettled,
          AtWork, Owns
    <2> QED BY <2>1, <2>3, GotoFields, RegLockIsOwn, RunnerKeeps DEF Verify
  <1>3. CASE ~Unchanged(p) BY <1>3, CommitFailsOwned DEF Verify
  <1> QED BY <1>2, <1>3

\* The step of Rename that writes.
Renames(p) ==
    /\ file' = [file EXCEPT ![run[p].order] = Written(p)]
    /\ run' = [run EXCEPT ![p].seen = Written(p),
                  ![p].pc = IF run[p].goal = "running" THEN "started" ELSE "finalized"]
    /\ regLock' = Nobody
    /\ UNCHANGED <<execLock, marker, reports, editor, crashes>>

LEMMA RenameCases ==
    ASSUME NEW p \in Runners, Rename(p)
    PROVE  Renames(p) \/ (CommitFails(p) /\ UNCHANGED <<file, reports, editor>>)
  BY DEF Rename, Renames

LEMMA RenamesFields ==
    ASSUME LockInv, NEW p \in Runners, run[p].pc = "rename", Renames(p)
    PROVE  /\ run[p].order \in Orders /\ Written(p) \in Content
           /\ Written(p).status = Target(run[p].goal)
           /\ run'[p].pc = (IF run[p].goal = "running" THEN "started" ELSE "finalized")
           /\ run'[p].order = run[p].order /\ run'[p].seen = Written(p)
           /\ run'[p].goal = run[p].goal
           /\ \A q \in Runners \ {p} : run'[q] = run[q]
           /\ \A o \in Orders : file'[o] = IF o = run[p].order THEN Written(p) ELSE file[o]
  <1>1. /\ run[p].order \in Orders /\ Written(p) \in Content
        /\ Written(p).status = Target(run[p].goal)
    BY WrittenType DEF LockInv, Placed, Before
  <1>2. \A o \in Orders : file'[o] = IF o = run[p].order THEN Written(p) ELSE file[o]
    BY DEF Renames, LockInv, TypeOK
  <1>3. /\ run'[p].pc = (IF run[p].goal = "running" THEN "started" ELSE "finalized")
        /\ run'[p].order = run[p].order /\ run'[p].seen = Written(p)
        /\ run'[p].goal = run[p].goal
        /\ \A q \in Runners \ {p} : run'[q] = run[q]
    BY DEF Renames, LockInv, TypeOK, Run
  <1> QED BY <1>1, <1>2, <1>3

LEMMA RenameOwned ==
    ASSUME LockInv, OwnedInv, NEW p \in Runners, Rename(p)
    PROVE  OwnedInv'
  <1>1. RunOK(p) /\ run[p].pc = "rename" /\ execLock[run[p].order] = p
    BY DEF OwnedInv, LockInv, HoldsLock, Rename
  <1>2. CASE CommitFails(p) /\ UNCHANGED <<file, reports, editor>> BY <1>1, <1>2, CommitFailsOwned
  <1>3. CASE Renames(p)
    <2> DEFINE o == run[p].order
    <2>1. /\ o \in Orders /\ Written(p) \in Content /\ Written(p).status = Target(run[p].goal)
          /\ run'[p].pc = (IF run[p].goal = "running" THEN "started" ELSE "finalized")
          /\ run'[p].order = o /\ run'[p].seen = Written(p) /\ run'[p].goal = run[p].goal
          /\ \A q \in Runners \ {p} : run'[q] = run[q]
          /\ \A x \in Orders : file'[x] = IF x = o THEN Written(p) ELSE file[x]
      BY <1>1, <1>3, RenamesFields
    <2>2. file'[o] # Absent /\ file'[o].status = Target(run[p].goal) BY <2>1, ContentAssumption
    <2>3. RunOK(p)' /\ MarkedOK(o)'
      <3>1. CASE run[p].goal = "running"
        <4>1. marker'[o] = "marked" BY <1>1, <1>3, <3>1 DEF RunOK, OpensMarked, Renames
        <4> QED BY <2>1, <2>2, <3>1, <4>1
          DEF Target, MarkedOK, RunOK, WritesWhatItRead, OpensMarked, WorksOnRunning,
              EndsSettled, AtWork, Owns
      <3>2. CASE run[p].goal # "running"
        <4>1. Target(run[p].goal) # "running" /\ run'[p].pc = "finalized"
          BY <2>1, <3>2 DEF Target, LockInv, TypeOK, Run
        <4> QED BY <2>1, <2>2, <4>1
          DEF MarkedOK, RunOK, WritesWhatItRead, OpensMarked, WorksOnRunning,
              EndsSettled, AtWork, Owns
      <3> QED BY <3>1, <3>2
    <2>4. \A x \in Orders : \/ file'[x] = file[x] /\ marker'[x] = marker[x]
                            \/ execLock[x] = p /\ MarkedOK(x)'
      BY <1>1, <1>3, <2>1, <2>3 DEF Renames
    <2>5. \A a \in Actors \ {p} : regLock # a BY <1>1, RegLockIsOwn
    <2>6. UNCHANGED <<execLock, editor>> /\ reports \subseteq reports' BY <1>3 DEF Renames
    <2> QED BY <2>1, <2>3, <2>4, <2>5, <2>6, RunnerKeeps
  <1> QED BY <1>2, <1>3, RenameCases

LEMMA LaunchOwned ==
    ASSUME LockInv, OwnedInv, NEW p \in Runners, Launch(p)
    PROVE  OwnedInv'
  <1>1. RunOK(p) /\ AtWork(p) /\ run[p].pc \in LivePcs BY DEF OwnedInv, AtWork, Owns, Launch
  <1>2. Goto(p, "executing") \/ \E g \in {"failed", "dropped"} : CommitTo(p, g)
    BY DEF Launch, GiveUp
  <1>3. RunOK(p)' BY <1>1, <1>2, WorkGoesOn DEF Launch
  <1>4. \A q \in Runners \ {p} : run'[q] = run[q] BY <1>2, GotoFields, CommitToFields
  <1> QED BY <1>3, <1>4, RunnerKeeps DEF Launch

LEMMA AgentsReturnOwned ==
    ASSUME LockInv, OwnedInv, NEW p \in Runners, AgentsReturn(p)
    PROVE  OwnedInv'
  <1>1. RunOK(p) /\ AtWork(p) /\ run[p].pc \in LivePcs BY DEF OwnedInv, AtWork, Owns, AgentsReturn
  <1>2. Goto(p, "reporting") \/ \E g \in {"failed", "dropped"} : CommitTo(p, g)
    BY DEF AgentsReturn, GiveUp
  <1>3. RunOK(p)' BY <1>1, <1>2, WorkGoesOn DEF AgentsReturn
  <1>4. \A q \in Runners \ {p} : run'[q] = run[q] BY <1>2, GotoFields, CommitToFields
  <1> QED BY <1>3, <1>4, RunnerKeeps DEF AgentsReturn

LEMMA WriteReportOwned ==
    ASSUME LockInv, OwnedInv, NEW p \in Runners, WriteReport(p)
    PROVE  OwnedInv' /\ AtWork(p)'
  <1> DEFINE mine == [order |-> run[p].order, body |-> run[p].seen.body]
  <1>1. RunOK(p) /\ AtWork(p) BY DEF OwnedInv, AtWork, Owns, WriteReport
  <1>2. /\ reports \subseteq reports'
        /\ \/ CommitTo(p, "dropped")
           \/ \E g \in {"archived", "active"} : CommitTo(p, g) /\ mine \in reports'
    BY DEF WriteReport, ReportFailureGoal
  <1>3. RunOK(p)' /\ AtWork(p)' BY <1>1, <1>2, WorkGoesOn DEF WriteReport
  <1>4. \A q \in Runners \ {p} : run'[q] = run[q] BY <1>2, CommitToFields
  <1> QED BY <1>2, <1>3, <1>4, RunnerKeeps DEF WriteReport

LEMMA FinalizeOwned ==
    ASSUME LockInv, OwnedInv, NEW p \in Runners, Finalize(p)
    PROVE  OwnedInv'
  <1>1. RunOK(p) /\ run[p].order \in Orders /\ execLock[run[p].order] = p
    BY DEF OwnedInv, LockInv, Placed, HoldsLock, Finalize
  <1>2. Leave(p) /\ Unlock(run[p].order) /\ UNCHANGED <<file, regLock, reports, editor>>
    BY DEF Finalize
  <1>3. \A o \in Orders : marker'[o] = IF o = run[p].order THEN "clear" ELSE marker[o]
    BY DEF Finalize, LockInv, TypeOK
  <1>4. \A o \in Orders : o = run[p].order => MarkedOK(o)'
    BY <1>1, <1>2 DEF Finalize, RunOK, EndsSettled, MarkedOK
  <1>5. \A o \in Orders : \/ file'[o] = file[o] /\ marker'[o] = marker[o]
                          \/ execLock[o] = p /\ MarkedOK(o)'
    BY <1>1, <1>2, <1>3, <1>4
  <1>6. \A o \in Orders : execLock[o] \in Actors \ {p} => execLock'[o] = execLock[o]
    BY <1>2, UnlocksOwn DEF Finalize
  <1> QED BY <1>2, <1>5, <1>6, AtRest, RunnerKeeps

-----------------------------------------------------------------------------
(* Editors and crashes *)

\* A step of one editor keeps the invariant if it keeps the editor's own part, and
\* changes only a file whose registry lock it has, one that stays running or not
\* running or that no run has locked.
LEMMA EditorKeeps ==
    ASSUME LockInv, OwnedInv, NEW e \in Editors,
           \A d \in Editors \ {e} : editor'[d] = editor[d],
           UNCHANGED <<run, marker, reports>>,
           \A a \in Actors \ {e} : regLock = a => regLock' = a /\ UNCHANGED file,
           \A o \in Orders : execLock[o] \in Actors \ {e} => execLock'[o] = execLock[o],
           \A o \in Orders :
               \/ file'[o] = file[o]
               \/ Running(file'[o]) <=> Running(file[o])
               \/ execLock[o] = e /\ ~Running(file'[o]),
           EditOK(e)'
    PROVE  OwnedInv'
  <1>1. ASSUME NEW q \in Runners PROVE RunOK(q)'
    <2>1. q \in Actors \ {e} BY ActorsAssumption DEF Actors
    <2>2. run[q].pc \notin {"idle", "planned"} =>
              run[q].order \in Orders /\ execLock[run[q].order] = q
      BY DEF LockInv, Placed, HoldsLock
    <2>3. run[q].pc \notin {"idle", "planned"} =>
              /\ Running(file'[run[q].order]) <=> Running(file[run[q].order])
              /\ regLock = q => file'[run[q].order] = file[run[q].order]
      BY <2>1, <2>2
    <2>4. RunOK(q) /\ run'[q] = run[q] /\ (regLock = q => regLock' = q) BY <2>1 DEF OwnedInv
    <2> QED BY <2>3, <2>4, RunUndisturbed
  <1>2. ASSUME NEW d \in Editors \ {e} PROVE EditOK(d)'
    <2>1. d \in Actors \ {e} BY DEF Actors
    <2> QED BY <2>1, EditUndisturbed DEF OwnedInv
  <1>3. ASSUME NEW o \in Orders PROVE MarkedOK(o)' BY DEF OwnedInv, MarkedOK, Running
  <1> QED BY <1>1, <1>2, <1>3 DEF OwnedInv

LEMMA EditFields ==
    ASSUME LockInv, NEW e \in Editors, NEW l, EditorGoto(e, l)
    PROVE  /\ editor'[e].pc = l /\ editor'[e].order = editor[e].order
           /\ editor'[e].old = editor[e].old /\ editor'[e].new = editor[e].new
           /\ \A d \in Editors \ {e} : editor'[d] = editor[d]
  BY DEF EditorGoto, LockInv, TypeOK, Edit

LEMMA EditorAskOwned ==
    ASSUME LockInv, OwnedInv, NEW e \in Editors, NEW o \in Orders, EditorAsk(e, o)
    PROVE  OwnedInv'
  <1>1. file[o] \in Content BY DEF EditorAsk, LockInv, TypeOK
  <1>2. PICK new : Ask(e, o, new) /\ Change(file[o], new)
    <2>1. CASE AskSave(e, o)
      <3>1. PICK b \in Bodies \ {file[o].body} : Ask(e, o, [file[o] EXCEPT !.body = b])
        BY <2>1 DEF AskSave
      <3>2. Change(file[o], [file[o] EXCEPT !.body = b]) BY <1>1 DEF Change, Content
      <3> QED BY <3>1, <3>2
    <2>2. CASE AskComplete(e, o) BY <2>2 DEF AskComplete, Change
    <2>3. CASE AskRecover(e, o) BY <2>3 DEF AskRecover, Change
    <2>4. CASE AskDelete(e, o) BY <2>4 DEF AskDelete, Change
    <2> QED BY <2>1, <2>2, <2>3, <2>4 DEF EditorAsk
  <1>3. /\ editor'[e] = [pc |-> "ready", order |-> o, old |-> file[o], new |-> new]
        /\ \A d \in Editors \ {e} : editor'[d] = editor[d]
    BY <1>2 DEF Ask, LockInv, TypeOK
  <1>4. EditOK(e)' BY <1>1, <1>2, <1>3 DEF EditOK
  <1> QED BY <1>2, <1>3, <1>4, EditorKeeps DEF Ask

LEMMA EditorLockOwned ==
    ASSUME LockInv, OwnedInv, NEW e \in Editors, EditorLock(e)
    PROVE  OwnedInv'
  <1>1. EditOK(e)' /\ \A d \in Editors \ {e} : editor'[d] = editor[d]
    BY EditFields DEF EditorLock, EditOK, OwnedInv
  <1>2. \A a \in Actors \ {e} : regLock # a BY ActorsAssumption DEF EditorLock
  <1> QED BY <1>1, <1>2, EditorKeeps DEF EditorLock

LEMMA EditorVerifyOwned ==
    ASSUME LockInv, OwnedInv, NEW e \in Editors, EditorVerify(e)
    PROVE  OwnedInv'
  <1> DEFINE op == editor[e]
  <1>1. EditOK(e) /\ regLock = e /\ op.order \in Orders BY DEF EditorVerify, EditOK, OwnedInv
  <1>2. UNCHANGED <<file, marker, reports, run>> /\ op.pc = "verify" BY DEF EditorVerify
  <1>3. CASE (NeedsExecLock(op) => execLock[op.order] = Nobody) /\ StillThere(op)
    <2>1. /\ EditorGoto(e, "replace") /\ UNCHANGED regLock
          /\ execLock' = IF NeedsExecLock(op)
                           THEN [execLock EXCEPT ![op.order] = e] ELSE execLock
      BY <1>3 DEF EditorVerify
    <2>2. /\ editor'[e].pc = "replace" /\ editor'[e].order = op.order
          /\ editor'[e].old = op.old /\ editor'[e].new = op.new
          /\ \A d \in Editors \ {e} : editor'[d] = editor[d]
      BY <2>1, EditFields
    <2>3. NeedsExecLock(op) => execLock'[op.order] = e BY <1>1, <2>1 DEF LockInv, TypeOK
    <2>4. EditOK(e)' BY <1>1, <1>2, <1>3, <2>1, <2>2, <2>3 DEF EditOK, StillThere, NeedsExecLock
    <2>5. \A o \in Orders : execLock[o] \in Actors \ {e} => execLock'[o] = execLock[o]
      BY <1>3, <2>1, ActorsAssumption DEF LockInv, TypeOK
    <2> QED BY <1>1, <1>2, <2>1, <2>2, <2>4, <2>5, EditorKeeps
  <1>4. CASE ~((NeedsExecLock(op) => execLock[op.order] = Nobody) /\ StillThere(op))
    <2>1. editor' = [editor EXCEPT ![e] = NoEdit] /\ UNCHANGED execLock BY <1>4 DEF EditorVerify
    <2>2. editor'[e] = NoEdit /\ \A d \in Editors \ {e} : editor'[d] = editor[d]
      BY <2>1 DEF LockInv, TypeOK
    <2>3. EditOK(e)' BY <2>2 DEF NoEdit, EditOK
    <2> QED BY <1>1, <1>2, <2>1, <2>2, <2>3, EditorKeeps
  <1> QED BY <1>3, <1>4

\* What an editor writes stays running or not running, or it has the execution lock
\* and leaves it not running.
LEMMA EditorWrites ==
    ASSUME LockInv, OwnedInv, NEW e \in Editors, editor[e].pc = "replace"
    PROVE  LET op == editor[e] IN
           /\ op.order \in Orders /\ regLock = e /\ file[op.order] \in Content
           /\ \/ Running(op.new) <=> Running(file[op.order])
              \/ execLock[op.order] = e /\ ~Running(op.new)
           /\ op.new # Absent => file[op.order] = op.old /\ op.new \in Content
  <1> DEFINE op == editor[e]
  <1>1. /\ op.order \in Orders /\ op.old \in Content /\ Change(op.old, op.new)
        /\ regLock = e /\ StillThere(op)
        /\ NeedsExecLock(op) => execLock[op.order] = e
    BY DEF OwnedInv, EditOK
  <1>2. file[op.order] \in Content /\ (op.new # Absent => file[op.order] = op.old)
    BY <1>1, ContentAssumption DEF StillThere, LockInv, TypeOK
  <1>3. op.new # Absent => op.new \in Content BY DEF LockInv, TypeOK, Edit
  <1>4. \/ Running(op.new) <=> Running(file[op.order])
        \/ execLock[op.order] = e /\ ~Running(op.new)
    <2>1. CASE op.new = Absent BY <1>1, <2>1 DEF NeedsExecLock, Running
    <2>2. CASE op.new \in Content /\ op.new.status = op.old.status
      BY <1>2, <2>2, ContentAssumption DEF Running
    <2>3. CASE op.old.status \in {"active", "failed"} /\ op.new = [op.old EXCEPT !.status = "archived"]
      <3>1. op.new.status = "archived" /\ op.new \in Content BY <1>1, <2>3 DEF Content, Statuses
      <3> QED BY <1>2, <2>3, <3>1, ContentAssumption DEF Running
    <2>4. CASE op.old.status = "running" /\ op.new = [op.old EXCEPT !.status = "failed"]
      <3>1. op.new.status = "failed" BY <1>1, <2>4 DEF Content
      <3> QED BY <1>1, <2>4, <3>1 DEF Running, NeedsExecLock
    <2> QED BY <1>1, <2>1, <2>2, <2>3, <2>4 DEF Change
  <1> QED BY <1>1, <1>2, <1>3, <1>4

LEMMA EditorReplaceOwned ==
    ASSUME LockInv, OwnedInv, NEW e \in Editors, EditorReplace(e)
    PROVE  OwnedInv'
  <1> DEFINE op == editor[e]
  <1>1. /\ op.order \in Orders /\ regLock = e
        /\ \/ Running(op.new) <=> Running(file[op.order])
           \/ execLock[op.order] = e /\ ~Running(op.new)
    BY EditorWrites DEF EditorReplace
  <1>2. \/ \A o \in Orders : file'[o] = IF o = op.order THEN op.new ELSE file[o]
        \/ UNCHANGED file
    BY DEF EditorReplace, LockInv, TypeOK
  <1>3. editor'[e] = NoEdit /\ \A d \in Editors \ {e} : editor'[d] = editor[d]
    BY DEF EditorReplace, LockInv, TypeOK
  <1>4. EditOK(e)' BY <1>3 DEF NoEdit, EditOK
  <1>5. \A o \in Orders : execLock[o] \in Actors \ {e} => execLock'[o] = execLock[o]
    BY DEF EditorReplace
  <1>6. UNCHANGED <<run, marker, reports>> BY DEF EditorReplace
  <1>7. \A o \in Orders : \/ file'[o] = file[o]
                          \/ Running(file'[o]) <=> Running(file[o])
                          \/ execLock[o] = e /\ ~Running(file'[o])
    BY <1>1, <1>2
  <1> QED BY <1>1, <1>3, <1>4, <1>5, <1>6, <1>7, EditorKeeps

LEMMA DieOwned ==
    ASSUME LockInv, OwnedInv, NEW ps, ps \subseteq Actors, Die(ps)
    PROVE  OwnedInv'
  <1>1. UNCHANGED <<file, marker, reports>> BY DEF Die
  <1>2. ASSUME NEW q \in Runners PROVE RunOK(q)'
    <2>1. CASE q \in ps
      <3>1. run'[q] = NoRun BY <2>1 DEF Die
      <3> QED
        BY <3>1 DEF NoRun, RunOK, WritesWhatItRead, OpensMarked, WorksOnRunning, EndsSettled,
          AtWork, Owns
    <2>2. CASE q \notin ps
      <3>1. run'[q] = run[q] /\ (regLock = q => regLock' = q) /\ RunOK(q) BY <2>2 DEF Die, OwnedInv
      <3> QED BY <1>1, <3>1, RunUndisturbed
    <2> QED BY <2>1, <2>2
  <1>3. ASSUME NEW e \in Editors PROVE EditOK(e)'
    <2>1. CASE e \in ps
      <3>1. editor'[e] = NoEdit BY <2>1 DEF Die
      <3> QED BY <3>1 DEF NoEdit, EditOK
    <2>2. CASE e \notin ps
      <3>1. editor'[e] = editor[e] /\ (regLock = e => regLock' = e) /\ EditOK(e)
        BY <2>2 DEF Die, OwnedInv
      <3>2. \A o \in Orders : execLock[o] = e => execLock'[o] = e BY <2>2 DEF Die
      <3> QED BY <1>1, <3>1, <3>2, EditUndisturbed
    <2> QED BY <2>1, <2>2
  <1>4. \A o \in Orders : MarkedOK(o)' BY <1>1 DEF OwnedInv, MarkedOK
  <1> QED BY <1>2, <1>3, <1>4 DEF OwnedInv

LEMMA NextOwned == LockInv /\ OwnedInv /\ [WorkduckNext]_vars => OwnedInv'
  <1> SUFFICES ASSUME LockInv, OwnedInv, [WorkduckNext]_vars PROVE OwnedInv' OBVIOUS
  <1>1. ASSUME NEW p \in Runners, RunStep(p) PROVE OwnedInv'
    BY <1>1, TryLockOwned, ReadSnapshotOwned, TruncateMarkerOwned, WriteMarkerOwned,
      LockRegistryOwned, VerifyOwned, RenameOwned, LaunchOwned, AgentsReturnOwned, WriteReportOwned,
      FinalizeOwned DEF RunStep
  <1>2. ASSUME NEW e \in Editors, EditorStep(e) PROVE OwnedInv'
    BY <1>2, EditorLockOwned, EditorVerifyOwned, EditorReplaceOwned DEF EditorStep
  <1>3. ASSUME NEW p \in Cli, CliCrash(p) PROVE OwnedInv'
    <2>1. {p} \subseteq Actors BY DEF Actors, Runners
    <2> QED BY <1>3, <2>1, DieOwned DEF CliCrash
  <1>4. CASE DesktopCrash
    <2>1. Desktop \cup Editors \subseteq Actors BY DEF Actors, Runners
    <2> QED BY <1>4, <2>1, DieOwned DEF DesktopCrash
  <1>5. CASE UNCHANGED vars
    BY <1>5 DEF vars, OwnedInv, RunOK, WritesWhatItRead, OpensMarked, WorksOnRunning, EndsSettled,
      AtWork, Owns, EditOK, StillThere, NeedsExecLock, MarkedOK
  <1> QED BY <1>1, <1>2, <1>3, <1>4, <1>5, PlanOwned, EditorAskOwned DEF WorkduckNext

\* The invariant of both specifications: who holds which lock always, who may rely
\* on what as long as nobody outside writes.
FullInv == LockInv /\ (~ExternalWrites => OwnedInv)

LEMMA InitFullInv == Init => FullInv
  BY InitLockInv, InitOwnedInv DEF FullInv

LEMMA NextFullInv == FullInv /\ [Next]_vars => FullInv'
  <1>1. ~ExternalWrites /\ [Next]_vars => [WorkduckNext]_vars BY DEF Next, External
  <1> QED BY <1>1, NextLockInv, NextOwned DEF FullInv

LEMMA FullInvHolds == Spec => []FullInv
  BY InitFullInv, NextFullInv, PTL DEF Spec

\* "running" in a file always has a live run behind it or a mark for the run that
\* will take it over: the program alone never leaves a work order stranded.
THEOREM RunningAccounted == Spec => []RunningIsAccountedFor
  <1>1. FullInv => RunningIsAccountedFor
    <2> SUFFICES ASSUME LockInv, OwnedInv, ~ExternalWrites
                 PROVE  LiveRunIsRunning /\ RunningIsMarked
      BY DEF FullInv, RunningIsAccountedFor, LiveRunIsRunning, RunningIsMarked
    <2>1. LiveRunIsRunning BY DEF LiveRunIsRunning, OwnedInv, RunOK, WorksOnRunning, AtWork
    <2>2. RunningIsMarked BY DEF RunningIsMarked, OwnedInv, MarkedOK
    <2> QED BY <2>1, <2>2
  <1> QED BY <1>1, FullInvHolds, PTL

-----------------------------------------------------------------------------
(* Edits *)

\* Only two steps of the program write a work order: the commit of a run, which
\* keeps the instructions it finds, and that of an editor, which replaces what it
\* read by what was asked for.
LEMMA OnlyTwoWriters ==
    ASSUME LockInv, OwnedInv, WorkduckNext
    PROVE  \/ UNCHANGED file
           \/ \E p \in Runners : run[p].pc = "rename" /\ Renames(p)
           \/ \E e \in Editors : /\ EditorReplace(e)
                                 /\ file' = [file EXCEPT ![editor[e].order] = editor[e].new]
  <1>1. ASSUME NEW p \in Runners, RunStep(p)
        PROVE  UNCHANGED file \/ (run[p].pc = "rename" /\ Renames(p))
    <2>1. CASE Rename(p) BY <2>1, RenameCases DEF Rename
    <2>2. CASE ~Rename(p)
      BY <1>1, <2>2 DEF RunStep, TryLock, ReadSnapshot, TruncateMarker, WriteMarker, LockRegistry,
        Verify, Launch, AgentsReturn, WriteReport, Finalize
    <2> QED BY <2>1, <2>2
  <1>2. ASSUME NEW e \in Editors, EditorStep(e)
        PROVE  \/ UNCHANGED file
               \/ /\ EditorReplace(e)
                  /\ file' = [file EXCEPT ![editor[e].order] = editor[e].new]
    BY <1>2 DEF EditorStep, EditorLock, EditorVerify, EditorReplace
  <1>3. ASSUME NEW e \in Editors, NEW o \in Orders, EditorAsk(e, o)
        PROVE  UNCHANGED file
    BY <1>3 DEF EditorAsk, AskSave, AskComplete, AskRecover, AskDelete, Ask
  <1>4. ASSUME NEW p \in Runners, NEW o \in Orders, Plan(p, o) PROVE UNCHANGED file BY <1>4 DEF Plan
  <1>5. ASSUME (\E p \in Cli : CliCrash(p)) \/ DesktopCrash PROVE UNCHANGED file
    BY <1>5 DEF CliCrash, DesktopCrash, Die
  <1> QED BY <1>1, <1>2, <1>3, <1>4, <1>5 DEF WorkduckNext

\* No step of a run, of a crash or of another editor changes the instructions of an
\* existing work order.
LEMMA EditsStep ==
    ASSUME LockInv, OwnedInv, WorkduckNext, NEW o \in Orders,
           file[o] # Absent, file'[o] # Absent, file'[o].body # file[o].body
    PROVE  \E e \in Editors : editor[e].new = file'[o] /\ editor[e].old = file[o]
  <1>1. ASSUME NEW p \in Runners, run[p].pc = "rename", Renames(p) PROVE FALSE
    <2>1. /\ run[p].order \in Orders
          /\ \A x \in Orders : file'[x] = IF x = run[p].order THEN Written(p) ELSE file[x]
      BY <1>1, RenamesFields
    <2>2. file[run[p].order] = run[p].seen BY <1>1 DEF OwnedInv, RunOK, WritesWhatItRead
    <2>3. Written(p).body = run[p].seen.body BY <1>1, WrittenType DEF Before
    <2> QED BY <2>1, <2>2, <2>3
  <1>2. ASSUME NEW e \in Editors, EditorReplace(e),
               file' = [file EXCEPT ![editor[e].order] = editor[e].new]
        PROVE  editor[e].new = file'[o] /\ editor[e].old = file[o]
    <2>1. file'[o] = IF o = editor[e].order THEN editor[e].new ELSE file[o]
      BY <1>2 DEF LockInv, TypeOK
    <2>2. editor[e].new # Absent => file[editor[e].order] = editor[e].old
      BY <1>2, EditorWrites DEF EditorReplace
    <2> QED BY <2>1, <2>2
  <1> QED BY <1>1, <1>2, OnlyTwoWriters

\* Instructions saved while a run is under way survive it: whoever changes them is
\* an editor that had read exactly what it replaces.
THEOREM EditsNeverReverted == Spec => EditsAreNeverReverted
  <1> DEFINE Kept == ~ExternalWrites =>
                \A o \in Orders :
                    file[o] # Absent /\ file'[o] # Absent /\ file'[o].body # file[o].body =>
                        \E e \in Editors : editor[e].new = file'[o] /\ editor[e].old = file[o]
  <1>1. FullInv /\ [Next]_vars => [Kept]_vars
    <2> SUFFICES ASSUME LockInv, OwnedInv, Next, ~ExternalWrites
                 PROVE  Kept
      BY DEF FullInv
    <2>1. WorkduckNext BY DEF Next, External
    <2> QED BY <2>1, EditsStep
  <1> QED BY <1>1, FullInvHolds, PTL DEF Spec, EditsAreNeverReverted

-----------------------------------------------------------------------------
(* The refinement: WorkduckSpec implements WorkOrderLifecycle *)

JobOfRun(p) == [by |-> p, body |-> run[p].seen.body]

\* A job stays when the runners at work on its work order stay as they are.
LEMMA SameJob ==
    ASSUME NEW x,
           \A q \in Runners :
               /\ AtWork(q)' /\ run'[q].order = x <=> AtWork(q) /\ run[q].order = x
               /\ AtWork(q) /\ run[q].order = x => run'[q] = run[q]
    PROVE  JobOf(x)' = JobOf(x)
  <1> DEFINE Working(q) == AtWork(q) /\ run[q].order = x
             WorkingNext(q) == AtWork(q)' /\ run'[q].order = x
  <1>1. (CHOOSE q \in Runners : WorkingNext(q)) = (CHOOSE q \in Runners : Working(q)) OBVIOUS
  <1>2. CASE \E q \in Runners : Working(q)
    <2> DEFINE w == CHOOSE q \in Runners : Working(q)
    <2>1. w \in Runners /\ Working(w) BY <1>2
    <2>2. run'[w] = run[w] BY <2>1
    <2>3. JobOf(x) = [by |-> w, body |-> run[w].seen.body] BY <1>2 DEF JobOf
    <2>4. JobOf(x)' = [by |-> w, body |-> run'[w].seen.body] BY <1>1, <1>2 DEF JobOf
    <2> QED BY <2>2, <2>3, <2>4
  <1>3. CASE ~\E q \in Runners : Working(q) BY <1>3 DEF JobOf
  <1> QED BY <1>2, <1>3

\* The job of a work order a runner has locked is that runner's, or there is none.
LEMMA JobBefore ==
    ASSUME LockInv, NEW p \in Runners, NEW o \in Orders,
           run[p].pc \notin {"idle", "planned"}, run[p].order = o
    PROVE  JobOf(o) = IF AtWork(p) THEN JobOfRun(p) ELSE Nobody
  <1> DEFINE Working(q) == AtWork(q) /\ run[q].order = o
  <1>1. \A q \in Runners : Working(q) => q = p BY DEF LockInv, HoldsLock, AtWork, Owns
  <1>2. CASE AtWork(p)
    <2>1. Working(p) BY <1>2
    <2>2. (CHOOSE q \in Runners : Working(q)) = p BY <1>1, <2>1
    <2> QED BY <1>2, <2>1, <2>2 DEF JobOf, JobOfRun
  <1>3. CASE ~AtWork(p) BY <1>1, <1>3 DEF JobOf
  <1> QED BY <1>2, <1>3

\* So it is after a step of that runner, which changes no other job.
LEMMA JobAfter ==
    ASSUME LockInv, NEW p \in Runners, NEW o \in Orders,
           run[p].pc \notin {"idle", "planned"}, run[p].order = o,
           \A q \in Runners \ {p} : run'[q] = run[q],
           run'[p].order = o \/ ~AtWork(p)'
    PROVE  /\ JobOf(o)' = IF AtWork(p)' THEN JobOfRun(p)' ELSE Nobody
           /\ \A x \in Orders \ {o} : JobOf(x)' = JobOf(x)
  <1> DEFINE Working(q, x) == AtWork(q) /\ run[q].order = x
             WorkingNext(q, x) == AtWork(q)' /\ run'[q].order = x
  <1>1. \A q \in Runners : WorkingNext(q, o) => q = p BY DEF LockInv, HoldsLock, AtWork, Owns
  <1>2. JobOf(o)' = IF AtWork(p)' THEN JobOfRun(p)' ELSE Nobody
    <2>1. CASE AtWork(p)'
      <3>1. WorkingNext(p, o) BY <2>1
      <3>2. (CHOOSE q \in Runners : WorkingNext(q, o)) = p BY <1>1, <3>1
      <3> QED BY <2>1, <3>1, <3>2 DEF JobOf, JobOfRun
    <2>2. CASE ~AtWork(p)' BY <1>1, <2>2 DEF JobOf
    <2> QED BY <2>1, <2>2
  <1>3. ASSUME NEW x \in Orders \ {o} PROVE JobOf(x)' = JobOf(x)
    <2>1. \A q \in Runners :
             /\ AtWork(q)' /\ run'[q].order = x <=> AtWork(q) /\ run[q].order = x
             /\ AtWork(q) /\ run[q].order = x => run'[q] = run[q]
      BY <1>3 DEF AtWork, Owns
    <2> QED BY <2>1, SameJob
  <1> QED BY <1>2, <1>3

\* The abstract state does not move.
AbstractStutter == UNCHANGED Lifecycle!vars

\* Such a step, of a runner that keeps its work order, its instructions and its work.
LEMMA RunStutters ==
    ASSUME LockInv, NEW p \in Runners,
           \A q \in Runners \ {p} : run'[q] = run[q],
           UNCHANGED <<file, reports>>,
           \/ ~AtWork(p) /\ ~AtWork(p)'
           \/ /\ AtWork(p) /\ AtWork(p)' /\ run'[p].order = run[p].order
              /\ run'[p].seen = run[p].seen
    PROVE  AbstractStutter
  <1>1. CASE ~AtWork(p) /\ ~AtWork(p)'
    <2>1. ASSUME NEW x \in Orders PROVE JobOf(x)' = JobOf(x)
      <3>1. \A q \in Runners :
               /\ AtWork(q)' /\ run'[q].order = x <=> AtWork(q) /\ run[q].order = x
               /\ AtWork(q) /\ run[q].order = x => run'[q] = run[q]
        BY <1>1 DEF AtWork, Owns
      <3> QED BY <3>1, SameJob
    <2> QED BY <2>1 DEF AbstractStutter, Lifecycle!vars
  <1>2. CASE /\ AtWork(p) /\ AtWork(p)' /\ run'[p].order = run[p].order
             /\ run'[p].seen = run[p].seen
    <2>1. run[p].pc \notin {"idle", "planned"} BY <1>2 DEF AtWork, Owns
    <2>2. PICK o \in Orders : run[p].order = o BY <2>1 DEF LockInv, Placed
    <2>3. /\ JobOf(o)' = JobOfRun(p)' /\ \A x \in Orders \ {o} : JobOf(x)' = JobOf(x)
          /\ JobOf(o) = JobOfRun(p)
      BY <1>2, <2>1, <2>2, JobBefore, JobAfter
    <2>4. JobOfRun(p)' = JobOfRun(p) BY <1>2 DEF JobOfRun
    <2> QED BY <2>3, <2>4 DEF AbstractStutter, Lifecycle!vars
  <1> QED BY <1>1, <1>2

\* The commit of "running" starts the job.
LEMMA OpeningStarts ==
    ASSUME LockInv, OwnedInv, NEW p \in Runners, run[p].pc = "rename",
           run[p].goal = "running", Renames(p)
    PROVE  Lifecycle!Next
  <1>1. PICK o \in Orders : run[p].order = o BY DEF LockInv, Placed
  <1>2. /\ file[o] = run[p].seen /\ run[p].seen \in Content /\ run[p].seen.status # "archived"
        /\ ~AtWork(p)
    BY <1>1 DEF OwnedInv, RunOK, WritesWhatItRead, OpensMarked, LockInv, HasSnapshot, Before,
      AtWork, Owns
  <1>3. /\ run'[p].pc = "started" /\ run'[p].order = o /\ run'[p].seen = Written(p)
        /\ Written(p).body = run[p].seen.body
        /\ \A q \in Runners \ {p} : run'[q] = run[q]
    BY <1>1, RenamesFields, WrittenType DEF Before
  <1>4. AtWork(p)' BY <1>3 DEF AtWork, Owns
  <1>5. /\ JobOf(o) = Nobody /\ JobOf(o)' = [by |-> p, body |-> file[o].body]
        /\ \A x \in Orders \ {o} : JobOf(x)' = JobOf(x)
    BY <1>1, <1>2, <1>3, <1>4, JobBefore, JobAfter DEF JobOfRun
  <1>6. file' = [file EXCEPT ![o] = [status |-> "running", body |-> file[o].body]]
    <2>1. Written(p) = [status |-> "running", body |-> run[p].seen.body]
      BY <1>2 DEF Written, Target, Content
    <2> QED BY <1>1, <1>2, <2>1 DEF Renames
  <1>7. file[o] # Absent /\ file[o].status \in {"active", "failed", "running"}
    BY <1>2, ContentAssumption DEF Content, Statuses
  <1>8. Lifecycle!Start(p, o)
    BY <1>5, <1>6, <1>7 DEF Renames, Lifecycle!Start, Lifecycle!Exists, Lifecycle!Put
  <1> QED BY <1>8 DEF Lifecycle!Next

\* The commit of any other status finishes it.
LEMMA ClosingFinishes ==
    ASSUME LockInv, OwnedInv, NEW p \in Runners, run[p].pc = "rename",
           run[p].goal # "running", Renames(p)
    PROVE  Lifecycle!Next
  <1> DEFINE s == Target(run[p].goal)
  <1>1. PICK o \in Orders : run[p].order = o BY DEF LockInv, Placed
  <1>2. AtWork(p) /\ run[p].goal \in Goals BY DEF AtWork, Owns, LockInv, TypeOK, Run
  <1>3. /\ file[o] = run[p].seen /\ run[p].seen \in Content /\ run[p].seen.status = "running"
        /\ s \in {"archived", "active"} => [order |-> o, body |-> run[p].seen.body] \in reports
    BY <1>1, <1>2 DEF OwnedInv, RunOK, WritesWhatItRead, WorksOnRunning, LockInv, HasSnapshot,
      Before, Target
  <1>4. /\ run'[p].pc = "finalized" /\ run'[p].order = o
        /\ \A q \in Runners \ {p} : run'[q] = run[q]
    BY <1>1, RenamesFields
  <1>5. ~AtWork(p)' BY <1>4 DEF AtWork
  <1>6. /\ JobOf(o) = JobOfRun(p) /\ JobOf(o)' = Nobody
        /\ \A x \in Orders \ {o} : JobOf(x)' = JobOf(x)
    BY <1>1, <1>2, <1>4, <1>5, JobBefore, JobAfter
  <1>7. JobOf(o) # Nobody /\ JobOf(o).body = run[p].seen.body
    BY <1>3, <1>6, JobAssumption DEF JobOfRun, Content
  <1>8. file[o] = [status |-> "running", body |-> JobOf(o).body] BY <1>3, <1>7 DEF Content
  <1>9. file' = [file EXCEPT ![o] = [status |-> s, body |-> file[o].body]]
    <2>1. Written(p) = [status |-> s, body |-> run[p].seen.body] BY <1>3 DEF Written, Content
    <2> QED BY <1>1, <1>3, <2>1 DEF Renames
  <1>10. s \in {"archived", "active", "failed"} BY <1>2 DEF Target
  <1>11. UNCHANGED reports BY DEF Renames
  <1> HIDE DEF s
  <1>12. Lifecycle!Finish(o, s)
    BY <1>3, <1>6, <1>7, <1>8, <1>9, <1>11 DEF Lifecycle!Finish, Lifecycle!Put
  <1> QED BY <1>10, <1>12 DEF Lifecycle!Next

\* A run that leaves abandons its job, if it has one.
LEMMA LeavingAbandons ==
    ASSUME LockInv, NEW p \in Runners, run[p].pc \notin {"idle", "planned"}, Leave(p),
           UNCHANGED <<file, reports>>
    PROVE  Lifecycle!Next \/ AbstractStutter
  <1>1. PICK o \in Orders : run[p].order = o BY DEF LockInv, Placed
  <1>2. ~AtWork(p)' /\ \A q \in Runners \ {p} : run'[q] = run[q] BY AtRest DEF NoRun, AtWork, Owns
  <1>3. CASE ~AtWork(p) BY <1>2, <1>3, RunStutters
  <1>4. CASE AtWork(p)
    <2>1. /\ JobOf(o) = JobOfRun(p) /\ JobOf(o)' = Nobody
          /\ \A x \in Orders \ {o} : JobOf(x)' = JobOf(x)
      BY <1>1, <1>2, <1>4, JobBefore, JobAfter
    <2>2. JobOf(o) # Nobody
      BY <1>4, <2>1, JobAssumption DEF JobOfRun, LockInv, HasSnapshot, Before, AtWork, Owns, Content
    <2>3. Lifecycle!Abandon({o}) BY <2>1, <2>2 DEF Lifecycle!Abandon
    <2>4. {o} \in SUBSET Orders OBVIOUS
    <2> QED BY <2>3, <2>4 DEF Lifecycle!Next
  <1> QED BY <1>3, <1>4

\* A failed commit abandons the job, or goes on with it.
LEMMA CommitFailsMaps ==
    ASSUME LockInv, NEW p \in Runners, run[p].pc \in {"verify", "rename"}, CommitFails(p),
           UNCHANGED <<file, reports>>
    PROVE  Lifecycle!Next \/ AbstractStutter
  <1>1. CASE run[p].goal \in {"running", "dropped"} BY <1>1, LeavingAbandons DEF CommitFails
  <1>2. CASE run[p].goal \notin {"running", "dropped"}
    <2>1. /\ run'[p].pc = "commit" /\ run'[p].order = run[p].order
          /\ run'[p].seen = run[p].seen /\ run'[p].goal = "dropped"
          /\ \A q \in Runners \ {p} : run'[q] = run[q]
      BY <1>2, CommitToFields DEF CommitFails
    <2>2. AtWork(p) /\ AtWork(p)' BY <1>2, <2>1 DEF AtWork, Owns
    <2> QED BY <2>1, <2>2, RunStutters
  <1> QED BY <1>1, <1>2

\* The report is the job's publication, if one is written.
LEMMA ReportMaps ==
    ASSUME LockInv, OwnedInv, NEW p \in Runners, WriteReport(p)
    PROVE  Lifecycle!Next \/ AbstractStutter
  <1>1. PICK o \in Orders : run[p].order = o BY DEF LockInv, Placed, WriteReport
  <1>2. PICK g \in Goals : CommitTo(p, g) BY DEF WriteReport, ReportFailureGoal
  <1>3. /\ run'[p].order = o /\ run'[p].seen = run[p].seen
        /\ \A q \in Runners \ {p} : run'[q] = run[q]
    BY <1>1, <1>2, CommitToFields
  <1>4. AtWork(p) /\ AtWork(p)' /\ run[p].pc = "reporting"
    BY WriteReportOwned DEF WriteReport, AtWork, Owns
  <1>5. CASE UNCHANGED reports BY <1>1, <1>3, <1>4, <1>5, RunStutters DEF WriteReport
  <1>6. CASE reports' = reports \cup {[order |-> run[p].order, body |-> run[p].seen.body]}
    <2>1. /\ JobOf(o) = JobOfRun(p) /\ JobOf(o)' = JobOfRun(p)'
          /\ \A x \in Orders \ {o} : JobOf(x)' = JobOf(x)
      BY <1>1, <1>3, <1>4, JobBefore, JobAfter
    <2>2. JobOfRun(p)' = JobOfRun(p) BY <1>3 DEF JobOfRun
    <2>3. JobOf(o) # Nobody /\ JobOf(o).body = run[p].seen.body
      BY <1>4, <2>1, JobAssumption DEF JobOfRun, LockInv, HasSnapshot, Before, Content
    <2>4. Lifecycle!Publish(o) BY <1>1, <1>6, <2>1, <2>2, <2>3 DEF Lifecycle!Publish, WriteReport
    <2> QED BY <2>4 DEF Lifecycle!Next
  <1> QED BY <1>5, <1>6 DEF WriteReport

LEMMA RunMaps ==
    ASSUME LockInv, OwnedInv, NEW p \in Runners, RunStep(p)
    PROVE  Lifecycle!Next \/ AbstractStutter
  <1>1. CASE TryLock(p)
    <2>1. Goto(p, "locked") \/ Leave(p) BY <1>1 DEF TryLock
    <2>2. ~AtWork(p) /\ ~AtWork(p)' /\ \A q \in Runners \ {p} : run'[q] = run[q]
      BY <1>1, <2>1, GotoFields, AtRest DEF TryLock, AtWork, Owns, NoRun
    <2> QED BY <1>1, <2>2, RunStutters DEF TryLock
  <1>2. CASE ReadSnapshot(p)
    <2>1. CASE Acceptable(p, file[run[p].order])
      <3>1. run' = [run EXCEPT ![p].pc = "accepted", ![p].seen = file[run[p].order]]
        BY <1>2, <2>1 DEF ReadSnapshot
      <3>2. run'[p].pc = "accepted" /\ \A q \in Runners \ {p} : run'[q] = run[q]
        BY <3>1 DEF LockInv, TypeOK, Run
      <3>3. ~AtWork(p) /\ ~AtWork(p)' BY <1>2, <3>2 DEF ReadSnapshot, AtWork, Owns
      <3> QED BY <1>2, <3>2, <3>3, RunStutters DEF ReadSnapshot
    <2>2. CASE ~Acceptable(p, file[run[p].order]) BY <1>2, <2>2, LeavingAbandons DEF ReadSnapshot
    <2> QED BY <2>1, <2>2
  <1>3. CASE TruncateMarker(p)
    <2>1. ~AtWork(p) /\ ~AtWork(p)' /\ \A q \in Runners \ {p} : run'[q] = run[q]
      BY <1>3, GotoFields DEF TruncateMarker, AtWork, Owns
    <2> QED BY <1>3, <2>1, RunStutters DEF TruncateMarker
  <1>4. CASE WriteMarker(p)
    <2>1. CASE Goto(p, "commit")
      <3>1. run[p].goal = "running" /\ run[p].pc = "truncated"
        BY <1>4 DEF OwnedInv, RunOK, OpensMarked, WriteMarker
      <3>2. ~AtWork(p) /\ ~AtWork(p)' /\ \A q \in Runners \ {p} : run'[q] = run[q]
        BY <2>1, <3>1, GotoFields DEF AtWork, Owns
      <3> QED BY <1>4, <3>2, RunStutters DEF WriteMarker
    <2>2. CASE Leave(p) BY <1>4, <2>2, LeavingAbandons DEF WriteMarker
    <2> QED BY <1>4, <2>1, <2>2 DEF WriteMarker
  <1>5. CASE LockRegistry(p)
    <2>1. /\ run'[p].pc = "verify" /\ run'[p].order = run[p].order
          /\ run'[p].seen = run[p].seen /\ run'[p].goal = run[p].goal
          /\ \A q \in Runners \ {p} : run'[q] = run[q]
      BY <1>5, GotoFields DEF LockRegistry
    <2>2. AtWork(p)' <=> AtWork(p) BY <1>5, <2>1 DEF LockRegistry, AtWork, Owns
    <2> QED BY <1>5, <2>1, <2>2, RunStutters DEF LockRegistry
  <1>6. CASE Verify(p)
    <2>1. CASE Unchanged(p)
      <3>1. /\ run'[p].pc = "rename" /\ run'[p].order = run[p].order
            /\ run'[p].seen = run[p].seen /\ run'[p].goal = run[p].goal
            /\ \A q \in Runners \ {p} : run'[q] = run[q]
        BY <1>6, <2>1, GotoFields DEF Verify
      <3>2. AtWork(p)' <=> AtWork(p) BY <1>6, <3>1 DEF Verify, AtWork, Owns
      <3> QED BY <1>6, <3>1, <3>2, RunStutters DEF Verify
    <2>2. CASE ~Unchanged(p) BY <1>6, <2>2, CommitFailsMaps DEF Verify
    <2> QED BY <2>1, <2>2
  <1>7. CASE Rename(p)
    BY <1>7, RenameCases, OpeningStarts, ClosingFinishes, CommitFailsMaps DEF Rename
  <1>8. CASE Launch(p) \/ AgentsReturn(p)
    <2>1. \/ Goto(p, "executing") \/ Goto(p, "reporting")
          \/ \E g \in Goals \ {"running"} : CommitTo(p, g)
      BY <1>8 DEF Launch, AgentsReturn, GiveUp
    <2>2. /\ AtWork(p)' /\ run'[p].order = run[p].order /\ run'[p].seen = run[p].seen
          /\ \A q \in Runners \ {p} : run'[q] = run[q]
      BY <2>1, GotoFields, CommitToFields DEF AtWork, Owns
    <2>3. AtWork(p) BY <1>8 DEF Launch, AgentsReturn, AtWork, Owns
    <2> QED BY <1>8, <2>2, <2>3, RunStutters DEF Launch, AgentsReturn
  <1>9. CASE WriteReport(p) BY <1>9, ReportMaps
  <1>10. CASE Finalize(p) BY <1>10, LeavingAbandons DEF Finalize
  <1> QED BY <1>1, <1>2, <1>3, <1>4, <1>5, <1>6, <1>7, <1>8, <1>9, <1>10 DEF RunStep

\* What leaves the runners, the files and the reports alone is no abstract step.
LEMMA AloneStutters ==
    ASSUME UNCHANGED <<run, file, reports>>
    PROVE  AbstractStutter
  <1>1. \A o \in Orders : JobOf(o)' = JobOf(o) BY SameJob DEF AtWork, Owns
  <1> QED BY <1>1 DEF AbstractStutter, Lifecycle!vars

\* An editor's write revises, settles or removes a work order; the last two find no
\* job there.
LEMMA EditorMaps ==
    ASSUME LockInv, OwnedInv, NEW e \in Editors, EditorReplace(e),
           file' = [file EXCEPT ![editor[e].order] = editor[e].new]
    PROVE  Lifecycle!Next
  <1> DEFINE op == editor[e]
  <1>1. PICK o \in Orders : op.order = o BY EditorWrites DEF EditorReplace
  <1>2. /\ file[o] \in Content /\ op.old \in Content /\ Change(op.old, op.new)
        /\ op.new # Absent => file[o] = op.old /\ op.new \in Content
        /\ NeedsExecLock(op) => execLock[o] = e
    BY <1>1, EditorWrites DEF EditorReplace, OwnedInv, EditOK
  <1>3. \A x \in Orders : JobOf(x)' = JobOf(x) BY SameJob DEF EditorReplace, AtWork, Owns
  <1>4. execLock[o] = e \/ file[o].status # "running" => JobOf(o) = Nobody
    <2> SUFFICES ASSUME NEW q \in Runners, AtWork(q), run[q].order = o
                 PROVE  execLock[o] = q /\ file[o].status = "running"
      BY ActorsAssumption DEF JobOf
    <2>1. execLock[o] = q BY DEF LockInv, HoldsLock, AtWork, Owns
    <2>2. file[o].status = "running" BY DEF OwnedInv, RunOK, WorksOnRunning
    <2> QED BY <2>1, <2>2
  <1>5. file[o] # Absent /\ UNCHANGED reports BY <1>2, ContentAssumption DEF EditorReplace
  <1>6. CASE op.new = Absent
    <2>1. Lifecycle!Remove(o)
      BY <1>1, <1>2, <1>3, <1>4, <1>5, <1>6 DEF NeedsExecLock, Lifecycle!Remove, Lifecycle!Exists
    <2> QED BY <2>1 DEF Lifecycle!Next
  <1>7. CASE op.new \in Content /\ op.new.status = op.old.status
    <2>1. op.new = [status |-> file[o].status, body |-> op.new.body] /\ op.new.body \in Bodies
      BY <1>2, <1>7, ContentAssumption DEF Content
    <2>2. Lifecycle!Revise(o)
      BY <1>1, <1>3, <1>5, <2>1 DEF Lifecycle!Revise, Lifecycle!Exists, Lifecycle!Put
    <2> QED BY <2>2 DEF Lifecycle!Next
  <1>8. CASE /\ op.old.status \in {"active", "failed"}
             /\ op.new = [op.old EXCEPT !.status = "archived"]
    <2>1. op.new = [status |-> "archived", body |-> op.old.body] /\ op.new \in Content
      BY <1>2, <1>8 DEF Content, Statuses
    <2>2. file[o] = op.old BY <1>2, <2>1, ContentAssumption
    <2>3. JobOf(o) = Nobody BY <1>4, <1>8, <2>2
    <2>4. Lifecycle!Settle(o, {"active", "failed"}, "archived")
      BY <1>1, <1>3, <1>5, <1>8, <2>1, <2>2, <2>3
      DEF Lifecycle!Settle, Lifecycle!Exists, Lifecycle!Put
    <2> QED BY <2>4 DEF Lifecycle!Next
  <1>9. CASE op.old.status = "running" /\ op.new = [op.old EXCEPT !.status = "failed"]
    <2>1. op.new = [status |-> "failed", body |-> op.old.body] /\ op.new \in Content
      BY <1>2, <1>9 DEF Content, Statuses
    <2>2. file[o] = op.old BY <1>2, <2>1, ContentAssumption
    <2>3. NeedsExecLock(op) BY <1>9, <2>1 DEF NeedsExecLock
    <2>4. JobOf(o) = Nobody BY <1>2, <1>4, <2>3
    <2>5. Lifecycle!Settle(o, {"running"}, "failed") BY <1>1, <1>3, <1>5, <1>9, <2>1, <2>2, <2>4
      DEF Lifecycle!Settle, Lifecycle!Exists, Lifecycle!Put
    <2> QED BY <2>5 DEF Lifecycle!Next
  <1> QED BY <1>2, <1>6, <1>7, <1>8, <1>9 DEF Change

\* Processes that die abandon the jobs of their runs.
LEMMA DeathAbandons ==
    ASSUME LockInv, NEW ps, Die(ps)
    PROVE  Lifecycle!Next \/ AbstractStutter
  <1> DEFINE Lost(o) == \E p \in Runners : p \in ps /\ AtWork(p) /\ run[p].order = o
             os == {o \in Orders : Lost(o)}
  <1>1. UNCHANGED <<file, reports>> BY DEF Die
  <1>2. ASSUME NEW q \in Runners PROVE IF q \in ps THEN ~AtWork(q)' ELSE run'[q] = run[q]
    BY DEF Die, NoRun, AtWork, Owns
  <1>3. ASSUME NEW o \in Orders, ~Lost(o) PROVE JobOf(o)' = JobOf(o)
    <2>1. \A q \in Runners :
             /\ AtWork(q)' /\ run'[q].order = o <=> AtWork(q) /\ run[q].order = o
             /\ AtWork(q) /\ run[q].order = o => run'[q] = run[q]
      BY <1>2, <1>3 DEF AtWork, Owns
    <2> QED BY <2>1, SameJob
  <1>4. ASSUME NEW o \in Orders, Lost(o) PROVE JobOf(o)' = Nobody /\ JobOf(o) # Nobody
    <2>1. PICK p \in Runners : p \in ps /\ AtWork(p) /\ run[p].order = o BY <1>4
    <2>2. execLock[o] = p /\ run[p].pc \notin {"idle", "planned"} /\ run[p].seen \in Content
      BY <2>1 DEF LockInv, HoldsLock, HasSnapshot, Before, AtWork, Owns
    <2>3. JobOf(o) = JobOfRun(p) BY <2>1, <2>2, JobBefore
    <2>4. JobOf(o) # Nobody BY <2>2, <2>3, JobAssumption DEF JobOfRun, Content
    <2>5. \A q \in Runners : ~(AtWork(q)' /\ run'[q].order = o)
      BY <1>2, <2>1, <2>2 DEF LockInv, HoldsLock, AtWork, Owns
    <2>6. JobOf(o)' = Nobody BY <2>5 DEF JobOf
    <2> QED BY <2>4, <2>6
  <1>5. CASE os = {}
    <2>1. \A o \in Orders : JobOf(o)' = JobOf(o) BY <1>3, <1>5
    <2> QED BY <1>1, <2>1 DEF AbstractStutter, Lifecycle!vars
  <1>6. CASE os # {}
    <2>1. \A o \in Orders : JobOf(o)' = IF o \in os THEN Nobody ELSE JobOf(o) BY <1>3, <1>4
    <2>2. \E o \in os : o \in Orders /\ JobOf(o) # Nobody BY <1>4, <1>6
    <2>3. os \in SUBSET Orders OBVIOUS
    <2> HIDE DEF os
    <2>4. Lifecycle!Abandon(os) BY <1>1, <2>1, <2>2 DEF Lifecycle!Abandon
    <2> QED BY <2>3, <2>4 DEF Lifecycle!Next
  <1> QED BY <1>5, <1>6

LEMMA EveryStepMaps ==
    LockInv /\ OwnedInv /\ [WorkduckNext]_vars => [Lifecycle!Next]_(Lifecycle!vars)
  <1> SUFFICES ASSUME LockInv, OwnedInv, [WorkduckNext]_vars
               PROVE  Lifecycle!Next \/ AbstractStutter
    BY DEF AbstractStutter
  <1>1. ASSUME NEW p \in Runners, RunStep(p) PROVE Lifecycle!Next \/ AbstractStutter
    BY <1>1, RunMaps
  <1>2. ASSUME NEW p \in Runners, NEW o \in Orders, Plan(p, o)
        PROVE  Lifecycle!Next \/ AbstractStutter
    <2>1. run'[p].pc = "planned" /\ \A q \in Runners \ {p} : run'[q] = run[q]
      BY <1>2 DEF Plan, LockInv, TypeOK, NoRun
    <2>2. ~AtWork(p) /\ ~AtWork(p)' BY <1>2, <2>1 DEF Plan, AtWork, Owns
    <2> QED BY <1>2, <2>1, <2>2, RunStutters DEF Plan
  <1>3. ASSUME NEW e \in Editors, EditorStep(e) PROVE Lifecycle!Next \/ AbstractStutter
    <2>1. CASE UNCHANGED file
      BY <1>3, <2>1, AloneStutters DEF EditorStep, EditorLock, EditorVerify, EditorReplace
    <2>2. CASE ~UNCHANGED file
      BY <1>3, <2>2, EditorMaps DEF EditorStep, EditorLock, EditorVerify, EditorReplace
    <2> QED BY <2>1, <2>2
  <1>4. ASSUME NEW e \in Editors, NEW o \in Orders, EditorAsk(e, o)
        PROVE  Lifecycle!Next \/ AbstractStutter
    BY <1>4, AloneStutters DEF EditorAsk, AskSave, AskComplete, AskRecover, AskDelete, Ask
  <1>5. ASSUME (\E p \in Cli : CliCrash(p)) \/ DesktopCrash
        PROVE  Lifecycle!Next \/ AbstractStutter
    BY <1>5, DeathAbandons DEF CliCrash, DesktopCrash
  <1>6. CASE UNCHANGED vars BY <1>6, AloneStutters DEF vars
  <1> QED BY <1>1, <1>2, <1>3, <1>4, <1>5, <1>6 DEF WorkduckNext

LEMMA InitMaps == Init => Lifecycle!Init
  <1> SUFFICES ASSUME Init PROVE Lifecycle!Init OBVIOUS
  <1>1. \A p \in Runners : ~AtWork(p) BY DEF Init, NoRun, AtWork, Owns
  <1>2. \A o \in Orders : JobOf(o) = Nobody BY <1>1 DEF JobOf
  <1> QED BY <1>2 DEF Init, Lifecycle!Init

\* The program with its locks, markers, snapshots and crashes is an implementation of
\* the life cycle of work orders: one job at a time, a completion only with a result
\* for the instructions that ran, and nobody but the job ends "running" while it lives.
THEOREM LifecycleImplemented == WorkduckSpec => ImplementsLifecycle
  <1>1. Init => LockInv /\ OwnedInv BY InitLockInv, InitOwnedInv
  <1>2. LockInv /\ OwnedInv /\ [WorkduckNext]_vars => LockInv' /\ OwnedInv'
    <2>1. [WorkduckNext]_vars => [Next]_vars BY DEF Next
    <2> QED BY <2>1, NextLockInv, NextOwned
  <1> QED BY <1>1, <1>2, InitMaps, EveryStepMaps, PTL
    DEF WorkduckSpec, ImplementsLifecycle, Lifecycle!Spec
=============================================================================
