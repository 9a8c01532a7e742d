------------------------ MODULE ScaffoldApplyProofs ------------------------
(***************************************************************************)
(* Proofs about ScaffoldApply, for any number of instances, files and lock *)
(* files, whatever crashes or fails: its lock excludes, what an apply adds *)
(* is accounted for by a manifest or a journal, and what users decided     *)
(* stays.                                                                  *)
(***************************************************************************)
EXTENDS ScaffoldApply, TLAPS

\* Where an instance has the OS lock of the lock file it created, where it has its own
\* lock file open, where that of another.
AtWork == Planning \cup Writing \cup Undoing
Holding == {"mark", "leave"} \cup AtWork
Owning == {"lock", "own", "remove own"} \cup Holding
Visiting == {"take over", "look", "remove stale"}

LockTypes ==
    /\ lockFile \in Inodes \cup {None}
    /\ text \in [Inodes -> Texts]
    /\ holder \in [Inodes -> Procs \cup {None}]
    /\ pc = [p \in Procs |-> pc[p]]
    /\ node \in [Procs -> Inodes \cup {None}]

\* Everybody that uses a lock file has it open, and no two own the same one.
Opened == \A p \in Procs : pc[p] \in Owning \cup Visiting => node[p] \in Inodes
OwnApart ==
    \A p, q \in Procs : p # q /\ pc[p] \in Owning /\ pc[q] \in Owning => node[p] # node[q]

\* The OS locks, and what the lock files contain.
Held ==
    \A p \in Procs : pc[p] \in Holding \cup {"look", "remove stale"} => holder[node[p]] = p
Marked ==
    \A p \in Procs :
        /\ pc[p] = "remove stale" => text[node[p]] = "workduck"
        /\ pc[p] \in {"lock", "mark"} => text[node[p]] = "empty"

\* The lock file at the path is the one its owner holds or is about to hold.
InPlace ==
    "intruded" \in spoilt \/
    \A p \in Procs : pc[p] \in Holding \cup {"lock"} => lockFile = node[p]

LockInv == LockTypes /\ Opened /\ OwnApart /\ Held /\ Marked /\ InPlace

-----------------------------------------------------------------------------
(* The initial states and the steps that leave the lock alone                *)

\* Nobody is at work, and no OS lock is held.
LEMMA InitLockInv == Init => LockInv
  <1> SUFFICES ASSUME Init PROVE LockInv OBVIOUS
  <1>1. lockFile \in Inodes \cup {None} /\ text \in [Inodes -> Texts]
    <2>1. PICK n \in Inodes :
            \/ lockFile = None /\ text = [i \in Inodes |-> "empty"]
            \/ /\ lockFile = n
               /\ \E left \in {"workduck", "other"} :
                     text = [i \in Inodes |-> IF i = n THEN left ELSE "empty"]
      BY DEF Init
    <2>2. CASE lockFile = None /\ text = [i \in Inodes |-> "empty"] BY <2>2 DEF Texts
    <2>3. ASSUME lockFile = n, NEW left \in {"workduck", "other"},
                 text = [i \in Inodes |-> IF i = n THEN left ELSE "empty"]
          PROVE  lockFile \in Inodes \cup {None} /\ text \in [Inodes -> Texts]
      <3>1. \A i \in Inodes : (IF i = n THEN left ELSE "empty") \in Texts BY DEF Texts
      <3> QED BY <2>3, <3>1
    <2> QED BY <2>1, <2>2, <2>3
  <1>2. pc = [p \in Procs |-> "idle"] /\ node = [p \in Procs |-> None] BY DEF Init
  <1>3. LockTypes
    <2>1. /\ node \in [Procs -> Inodes \cup {None}]
          /\ pc = [p \in Procs |-> pc[p]]
      BY <1>2
    <2> QED BY <1>1, <2>1 DEF Init, LockTypes
  <1>4. "idle" \notin Owning \cup Visiting \cup {"lock", "mark", "look", "remove stale"}
    BY DEF Owning, Holding, AtWork, Planning, Writing, Undoing, Visiting
  <1>5. Opened /\ OwnApart /\ Held /\ Marked /\ InPlace
    BY <1>2, <1>4 DEF Opened, OwnApart, Held, Marked, InPlace, Owning
  <1> QED BY <1>3, <1>5 DEF LockInv

-----------------------------------------------------------------------------
(* One step of one instance                                                  *)

\* What a step of p has to leave the others, and to achieve for p, now at 'at' with n open.
OthersKeep(p, n, at) ==
    \A q \in Procs \ {p} :
        /\ pc[q] \in Holding \cup {"look", "remove stale"} => holder'[node[q]] = q
        /\ pc[q] = "remove stale" => text'[node[q]] = "workduck"
        /\ pc[q] \in {"lock", "mark"} => text'[node[q]] = "empty"
        /\ "intruded" \notin spoilt' /\ pc[q] \in Holding \cup {"lock"} => lockFile' = node[q]
        /\ at \in Owning /\ pc[q] \in Owning => node[q] # n
Arrives(p, n, at) ==
    /\ at \in Owning \cup Visiting => n \in Inodes
    /\ at \in Holding \cup {"look", "remove stale"} => holder'[n] = p
    /\ at = "remove stale" => text'[n] = "workduck"
    /\ at \in {"lock", "mark"} => text'[n] = "empty"
    /\ "intruded" \notin spoilt' /\ at \in Holding \cup {"lock"} => lockFile' = n

\* The invariant survives a step that does.
LEMMA StepKeepsLockInv ==
    ASSUME LockInv, NEW p \in Procs, NEW at, NEW n \in Inodes \cup {None},
           pc' = [pc EXCEPT ![p] = at], node' = [node EXCEPT ![p] = n],
           lockFile' \in Inodes \cup {None}, text' \in [Inodes -> Texts],
           holder' \in [Inodes -> Procs \cup {None}],
           OthersKeep(p, n, at), Arrives(p, n, at)
    PROVE  LockInv'
  <1>1. /\ \A q \in Procs \ {p} : pc'[q] = pc[q] /\ node'[q] = node[q]
        /\ pc'[p] = at /\ node'[p] = n
    BY DEF LockInv, LockTypes
  <1>2. LockTypes' BY DEF LockInv, LockTypes
  <1>3. Opened' BY <1>1 DEF LockInv, Opened, Arrives
  <1>4. OwnApart'
    <2> SUFFICES ASSUME NEW q \in Procs, NEW r \in Procs, q # r,
                        pc'[q] \in Owning, pc'[r] \in Owning
                 PROVE  node'[q] # node'[r]
      BY DEF OwnApart
    <2>1. CASE q = p
      <3>1. r \in Procs \ {p} BY <2>1
      <3>2. node'[r] = node[r] /\ pc'[r] = pc[r] BY <1>1, <3>1
      <3>3. at \in Owning /\ pc[r] \in Owning BY <1>1, <2>1, <3>2
      <3>4. node[r] # n BY <3>1, <3>3 DEF OthersKeep
      <3> QED BY <1>1, <2>1, <3>2, <3>4
    <2>2. CASE r = p
      <3>1. q \in Procs \ {p} BY <2>2
      <3>2. node'[q] = node[q] /\ pc'[q] = pc[q] BY <1>1, <3>1
      <3>3. at \in Owning /\ pc[q] \in Owning BY <1>1, <2>2, <3>2
      <3>4. node[q] # n BY <3>1, <3>3 DEF OthersKeep
      <3> QED BY <1>1, <2>2, <3>2, <3>4
    <2>3. CASE q # p /\ r # p BY <1>1, <2>3 DEF LockInv, OwnApart
    <2> QED BY <2>1, <2>2, <2>3
  <1>5. ASSUME NEW q \in Procs
        PROVE  /\ pc'[q] \in Holding \cup {"look", "remove stale"} => holder'[node'[q]] = q
               /\ pc'[q] = "remove stale" => text'[node'[q]] = "workduck"
               /\ pc'[q] \in {"lock", "mark"} => text'[node'[q]] = "empty"
               /\ "intruded" \notin spoilt' /\ pc'[q] \in Holding \cup {"lock"} => lockFile' = node'[q]
    <2>1. CASE q = p BY <1>1, <2>1 DEF Arrives
    <2>2. CASE q # p
      <3>1. q \in Procs \ {p} /\ pc'[q] = pc[q] /\ node'[q] = node[q] BY <1>1, <2>2
      <3> QED BY <3>1 DEF OthersKeep
    <2> QED BY <2>1, <2>2
  <1>6. Held' /\ Marked' /\ InPlace' BY <1>5 DEF Held, Marked, InPlace
  <1> QED BY <1>2, <1>3, <1>4, <1>6 DEF LockInv

\* A step that changes neither the lock files nor the one p has open leaves the others
\* what they have.
LEMMA QuietKeepsOthers ==
    ASSUME LockInv, NEW p \in Procs, NEW n, NEW at,
           UNCHANGED <<lockFile, text, holder>>, spoilt \subseteq spoilt',
           at \in Owning => pc[p] \in Owning /\ n = node[p]
    PROVE  OthersKeep(p, n, at)
  <1> SUFFICES ASSUME NEW q \in Procs \ {p}
               PROVE  /\ pc[q] \in Holding \cup {"look", "remove stale"} => holder[node[q]] = q
                      /\ pc[q] = "remove stale" => text[node[q]] = "workduck"
                      /\ pc[q] \in {"lock", "mark"} => text[node[q]] = "empty"
                      /\ "intruded" \notin spoilt /\ pc[q] \in Holding \cup {"lock"} => lockFile = node[q]
                      /\ at \in Owning /\ pc[q] \in Owning => node[q] # n
    BY DEF OthersKeep
  <1> QED BY ZenonT(60) DEF LockInv, Held, Marked, InPlace, OwnApart

\* An instance that arrives where nothing is asked of it.
LEMMA NowhereArrives ==
    ASSUME NEW p, NEW n, NEW at \in {"idle", "create", "open"}
    PROVE  at \notin Owning /\ Arrives(p, n, at)
  <1>1. at \notin Owning \cup Visiting \cup Holding \cup {"lock", "mark", "look", "remove stale"}
    BY DEF Owning, Holding, AtWork, Planning, Writing, Undoing, Visiting
  <1> QED BY <1>1 DEF Arrives

\* Freeing what p holds frees nobody else's.
LEMMA ReleaseFreesOwn ==
    ASSUME LockInv, NEW p \in Procs
    PROVE  /\ Released(p) \in [Inodes -> Procs \cup {None}]
           /\ \A q \in Procs \ {p} : pc[q] \in Holding \cup {"look", "remove stale"} =>
                 Released(p)[node[q]] = q
  <1>1. Released(p) \in [Inodes -> Procs \cup {None}] BY DEF Released, LockInv, LockTypes
  <1>2. ASSUME NEW q \in Procs \ {p}, pc[q] \in Holding \cup {"look", "remove stale"}
        PROVE  Released(p)[node[q]] = q
    <2>1. node[q] \in Inodes /\ holder[node[q]] = q
      BY <1>2 DEF LockInv, Opened, Held, Owning, Visiting
    <2> QED BY <2>1 DEF Released
  <1> QED BY <1>1, <1>2

-----------------------------------------------------------------------------
(* Users and applies                                                         *)

\* Work on the repository: the instance keeps the lock, until it leaves.
LEMMA WorkKeepsLockInv ==
    ASSUME LockInv, NEW p \in Procs, pc[p] \in AtWork, NEW at \in AtWork \cup {"leave"},
           pc' = [pc EXCEPT ![p] = at], UNCHANGED <<lock, node>>, spoilt \subseteq spoilt'
    PROVE  LockInv'
  <1>1. at \in Holding /\ at \in Owning /\ pc[p] \in Holding /\ pc[p] \in Owning
    BY DEF Owning, Holding
  <1>2. at \notin {"lock", "mark", "look", "remove stale"} BY DEF AtWork, Planning, Writing, Undoing
  <1>3. UNCHANGED <<lockFile, text, holder, node>> BY DEF lock
  <1>4. /\ node[p] \in Inodes /\ holder[node[p]] = p
        /\ "intruded" \notin spoilt => lockFile = node[p]
    BY <1>1 DEF LockInv, Opened, Held, InPlace
  <1>5. Arrives(p, node[p], at) BY <1>2, <1>3, <1>4 DEF Arrives
  <1>6. OthersKeep(p, node[p], at) BY <1>1, <1>3, QuietKeepsOthers
  <1>7. node' = [node EXCEPT ![p] = node[p]] /\ LockTypes BY <1>3 DEF LockInv, LockTypes
  <1>8. /\ lockFile' \in Inodes \cup {None} /\ text' \in [Inodes -> Texts]
        /\ holder' \in [Inodes -> Procs \cup {None}]
    BY <1>3, <1>7 DEF LockTypes
  <1> QED BY <1>1, <1>4, <1>5, <1>6, <1>7, <1>8, StepKeepsLockInv

\* Users leave the lock alone.
LEMMA UserKeepsLockInv == LockInv /\ User => LockInv'
  <1> SUFFICES ASSUME LockInv, User PROVE LockInv' OBVIOUS
  <1>1. UNCHANGED <<lockFile, text, holder, pc, node>> /\ spoilt \subseteq spoilt'
    BY DEF User, EditFile, EditManifest, lock, Befalls
  <1> QED BY <1>1 DEF LockInv, LockTypes, Opened, OwnApart, Held, Marked, InPlace

\* Every step of an apply is such work.
LEMMA ApplyKeepsLockInv == ASSUME LockInv, NEW p \in Procs, Applying(p) PROVE LockInv'
  <1>1. /\ pc[p] \in AtWork /\ UNCHANGED <<lock, node>> /\ spoilt \subseteq spoilt'
        /\ \E at \in AtWork \cup {"leave"} : pc' = [pc EXCEPT ![p] = at]
    <2> USE DEF AtWork, Planning, Writing, Undoing, Goto, repository
    <2> pc = [pc EXCEPT ![p] = pc[p]] BY DEF LockInv, LockTypes
    <2>1. CASE ReadManifest(p) BY <2>1 DEF ReadManifest
    <2>2. CASE ReadJournal(p) BY <2>2 DEF ReadJournal, Befalls
    <2>3. CASE CheckUndo(p)
      <3>1. UNCHANGED <<lock, node>> /\ spoilt \subseteq spoilt' /\ pc[p] = "undo"
        BY <2>3 DEF CheckUndo, Befalls
      <3>2. UNCHANGED pc \/ pc' = [pc EXCEPT ![p] = "unlink"] BY <2>3 DEF CheckUndo
      <3> QED BY <3>1, <3>2
    <2>4. CASE UndoEnds(p) BY <2>4 DEF UndoEnds
    <2>5. CASE Unlink(p) BY <2>5 DEF Unlink
    <2>6. CASE UnlinkFails(p) BY <2>6 DEF UnlinkFails
    <2>7. CASE ForgetJournal(p) BY <2>7 DEF ForgetJournal
    <2>8. CASE Inspect(p) BY <2>8 DEF Inspect
    <2>9. CASE Stage(p) BY <2>9 DEF Stage
    <2>10. CASE WriteJournal(p) BY <2>10 DEF WriteJournal
    <2>11. CASE PlanFails(p) BY <2>11 DEF PlanFails
    <2>12. CASE WriteFile(p)
      <3>1. UNCHANGED <<lock, node, pc, spoilt>> /\ pc[p] = "write files" BY <2>12 DEF WriteFile
      <3> QED BY <3>1
    <2>13. CASE WriteFileFails(p) BY <2>13 DEF WriteFileFails, RollBack
    <2>14. CASE FilesWritten(p) BY <2>14 DEF FilesWritten
    <2>15. CASE CompareManifest(p) BY <2>15 DEF CompareManifest, RollBack
    <2>16. CASE Publish(p) BY <2>16 DEF Publish
    <2>17. CASE PublishFails(p) BY <2>17 DEF PublishFails, RollBack
    <2>18. CASE Finish(p) BY <2>18 DEF Finish
    <2> QED BY <2>1, <2>2, <2>3, <2>4, <2>5, <2>6, <2>7, <2>8, <2>9, <2>10, <2>11, <2>12, <2>13,
         <2>14, <2>15, <2>16, <2>17, <2>18 DEF Applying
  <1> QED BY <1>1, WorkKeepsLockInv

-----------------------------------------------------------------------------
(* Acquiring and giving back                                                 *)

\* A step of p that changes neither lock files nor OS locks.
LEMMA MoveKeepsLockInv ==
    ASSUME LockInv, NEW p \in Procs, NEW at, NEW n \in Inodes \cup {None},
           pc' = [pc EXCEPT ![p] = at], node' = [node EXCEPT ![p] = n],
           UNCHANGED <<lockFile, text, holder>>, spoilt \subseteq spoilt',
           at \in Owning => pc[p] \in Owning /\ n = node[p],
           Arrives(p, n, at)
    PROVE  LockInv'
  <1>1. OthersKeep(p, n, at) BY QuietKeepsOthers
  <1>2. /\ lockFile' \in Inodes \cup {None} /\ text' \in [Inodes -> Texts]
        /\ holder' \in [Inodes -> Procs \cup {None}]
    BY DEF LockInv, LockTypes
  <1> QED BY <1>1, <1>2, StepKeepsLockInv

\* The ends of a command, without and with an OS lock to free.
LEMMA OverKeepsLockInv ==
    ASSUME LockInv, NEW p \in Procs, Over(p), UNCHANGED <<lockFile, text, spoilt>>,
           UNCHANGED holder \/ holder' = Released(p)
    PROVE  LockInv'
  <1>1. pc' = [pc EXCEPT ![p] = "idle"] /\ node' = [node EXCEPT ![p] = None] BY DEF Over, Goto
  <1>2. Arrives(p, None, "idle") /\ "idle" \notin Owning BY NowhereArrives
  <1>3. CASE UNCHANGED holder BY <1>1, <1>2, <1>3, MoveKeepsLockInv
  <1>4. CASE holder' = Released(p)
    <2>1. /\ lockFile' \in Inodes \cup {None} /\ text' \in [Inodes -> Texts]
          /\ holder' \in [Inodes -> Procs \cup {None}]
      BY <1>4, ReleaseFreesOwn DEF LockInv, LockTypes
    <2>2. OthersKeep(p, None, "idle")
      BY <1>2, <1>4, ReleaseFreesOwn DEF OthersKeep, LockInv, Marked, InPlace
    <2> QED BY <1>1, <1>2, <2>1, <2>2, StepKeepsLockInv
  <1> QED BY <1>3, <1>4

\* Looking for the lock file: nothing changes but what p has open.
LEMMA SearchKeepsLockInv ==
    ASSUME LockInv, NEW p \in Procs,
           \/ \E apply \in BOOLEAN : Start(p, apply)
           \/ FindLockFile(p) \/ GiveUp(p) \/ OpenLockFile(p) \/ SeeOwn(p)
    PROVE  LockInv'
  <1> USE DEF lock
  <1>0. node[p] \in Inodes \cup {None} /\ node = [node EXCEPT ![p] = node[p]]
    BY DEF LockInv, LockTypes
  <1>1. CASE \E apply \in BOOLEAN : Start(p, apply)
    <2>1. pc' = [pc EXCEPT ![p] = "create"] /\ UNCHANGED <<lockFile, text, holder, node, spoilt>>
      BY <1>1 DEF Start, Goto
    <2> QED BY <1>0, <2>1, NowhereArrives, MoveKeepsLockInv
  <1>2. CASE FindLockFile(p)
    <2>1. pc' = [pc EXCEPT ![p] = "open"] /\ UNCHANGED <<lockFile, text, holder, node, spoilt>>
      BY <1>2 DEF FindLockFile, Goto
    <2> QED BY <1>0, <2>1, NowhereArrives, MoveKeepsLockInv
  <1>3. CASE GiveUp(p) BY <1>3, OverKeepsLockInv DEF GiveUp
  <1>4. CASE OpenLockFile(p) /\ lockFile = None
    <2>1. pc' = [pc EXCEPT ![p] = "create"] /\ UNCHANGED <<lockFile, text, holder, node, spoilt>>
      BY <1>4 DEF OpenLockFile, Goto
    <2> QED BY <1>0, <2>1, NowhereArrives, MoveKeepsLockInv
  <1>5. CASE OpenLockFile(p) /\ lockFile # None
    <2>1. /\ pc' = [pc EXCEPT ![p] = "take over"] /\ node' = [node EXCEPT ![p] = lockFile]
          /\ UNCHANGED <<lockFile, text, holder, spoilt>>
      BY <1>5 DEF OpenLockFile, Goto
    <2>2. lockFile \in Inodes BY <1>5 DEF LockInv, LockTypes
    <2>3. "take over" \notin Owning \cup Holding \cup {"lock", "mark", "look", "remove stale"}
      BY DEF Owning, Holding, AtWork, Planning, Writing, Undoing
    <2>4. Arrives(p, lockFile, "take over") BY <2>2, <2>3 DEF Arrives
    <2> QED BY <2>1, <2>2, <2>3, <2>4, MoveKeepsLockInv
  <1>6. CASE SeeOwn(p)
    <2>1. CASE Over(p) BY <1>6, <2>1, OverKeepsLockInv DEF SeeOwn
    <2>2. CASE Goto(p, "remove own") /\ UNCHANGED node
      <3>1. pc[p] = "own" /\ "own" \in Owning /\ "remove own" \in Owning BY <1>6 DEF SeeOwn, Owning
      <3>2. node[p] \in Inodes BY <3>1 DEF LockInv, Opened
      <3>3. Arrives(p, node[p], "remove own")
        BY <3>2 DEF Arrives, Holding, AtWork, Planning, Writing, Undoing
      <3>4. UNCHANGED <<lockFile, text, holder, spoilt>> BY <1>6 DEF SeeOwn
      <3> QED BY <1>0, <2>2, <3>1, <3>3, <3>4, MoveKeepsLockInv DEF Goto
    <2> QED BY <1>6, <2>1, <2>2 DEF SeeOwn
  <1> QED BY <1>1, <1>2, <1>3, <1>4, <1>5, <1>6

\* A new lock file is one that nobody has open.
LEMMA CreateKeepsLockInv ==
    ASSUME ScaffoldConstants, LockInv, NEW p \in Procs, CreateLockFile(p)
    PROVE  LockInv'
  <1>1. PICK n \in Inodes :
          /\ \A q \in Procs : node[q] # n
          /\ lockFile' = n
          /\ text' = [text EXCEPT ![n] = "empty"]
          /\ node' = [node EXCEPT ![p] = n]
    BY DEF CreateLockFile
  <1>2. lockFile = None /\ pc' = [pc EXCEPT ![p] = "lock"] /\ UNCHANGED <<holder, spoilt>>
    BY DEF CreateLockFile, Goto
  <1>3. /\ text' \in [Inodes -> Texts] /\ text'[n] = "empty"
        /\ \A i \in Inodes \ {n} : text'[i] = text[i]
        /\ holder' \in [Inodes -> Procs \cup {None}]
    BY <1>1, <1>2 DEF LockInv, LockTypes, Texts
  <1>4. "lock" \notin Holding /\ "lock" \notin {"look", "remove stale"}
    BY DEF Holding, AtWork, Planning, Writing, Undoing
  <1>5. Arrives(p, n, "lock") BY <1>1, <1>3, <1>4 DEF Arrives
  <1>6. OthersKeep(p, n, "lock")
    <2> SUFFICES ASSUME NEW q \in Procs \ {p}
                 PROVE  /\ pc[q] \in Holding \cup {"look", "remove stale"} => holder'[node[q]] = q
                        /\ pc[q] = "remove stale" => text'[node[q]] = "workduck"
                        /\ pc[q] \in {"lock", "mark"} => text'[node[q]] = "empty"
                        /\ "intruded" \notin spoilt' /\ pc[q] \in Holding \cup {"lock"} =>
                              lockFile' = node[q]
                        /\ node[q] # n
      BY DEF OthersKeep
    <2>1. pc[q] \in Owning \cup Visiting => node[q] \in Inodes \ {n} BY <1>1 DEF LockInv, Opened
    <2>2. /\ Holding \cup {"lock", "mark"} \subseteq Owning
          /\ {"look", "remove stale"} \subseteq Visiting
      BY DEF Owning, Holding, Visiting
    <2>3. pc[q] \in Holding \cup {"look", "remove stale"} => holder'[node[q]] = q
      BY <1>2 DEF LockInv, Held
    <2>4. /\ pc[q] = "remove stale" => text'[node[q]] = "workduck"
          /\ pc[q] \in {"lock", "mark"} => text'[node[q]] = "empty"
      BY <1>3, <2>1, <2>2 DEF LockInv, Marked
    <2>5. pc[q] \in Holding \cup {"lock"} => node[q] # None BY <2>1, <2>2 DEF ScaffoldConstants
    <2>6. "intruded" \notin spoilt' => pc[q] \notin Holding \cup {"lock"}
      BY <1>2, <2>5 DEF LockInv, InPlace
    <2> QED BY <1>1, <2>3, <2>4, <2>6
  <1> QED BY <1>1, <1>2, <1>3, <1>5, <1>6, StepKeepsLockInv

\* Only a free OS lock is taken.
LEMMA TakeKeepsLockInv ==
    ASSUME ScaffoldConstants, LockInv, NEW p \in Procs, TakeOver(p) \/ LockFileLocked(p)
    PROVE  LockInv'
  <1>1. CASE holder[node[p]] # None
    <2>1. Over(p) /\ UNCHANGED <<lockFile, text, holder, spoilt>>
      BY <1>1 DEF TakeOver, LockFileLocked
    <2> QED BY <2>1, OverKeepsLockInv
  <1>2. CASE holder[node[p]] = None
    <2>1. PICK at \in {"look", "mark"} :
            /\ pc[p] = IF at = "look" THEN "take over" ELSE "lock"
            /\ pc' = [pc EXCEPT ![p] = at] /\ holder' = [holder EXCEPT ![node[p]] = p]
            /\ UNCHANGED <<lockFile, text, node, spoilt>>
      BY <1>2 DEF TakeOver, LockFileLocked, Goto
    <2>2. /\ node[p] \in Inodes
          /\ at = "mark" => /\ pc[p] \in Owning /\ text[node[p]] = "empty"
                            /\ "intruded" \notin spoilt => lockFile = node[p]
      BY <2>1 DEF LockInv, Opened, Marked, InPlace, Owning, Visiting
    <2>3. /\ holder' \in [Inodes -> Procs \cup {None}] /\ holder'[node[p]] = p
          /\ \A i \in Inodes \ {node[p]} : holder'[i] = holder[i]
      BY <2>1, <2>2 DEF LockInv, LockTypes
    <2>4. "look" \notin Owning /\ "look" \notin Holding
      BY DEF Owning, Holding, AtWork, Planning, Writing, Undoing
    <2>5. Arrives(p, node[p], at) BY <2>1, <2>2, <2>3, <2>4 DEF Arrives
    <2>6. OthersKeep(p, node[p], at)
      <3> SUFFICES ASSUME NEW q \in Procs \ {p}
                   PROVE  /\ pc[q] \in Holding \cup {"look", "remove stale"} => holder'[node[q]] = q
                          /\ pc[q] = "remove stale" => text[node[q]] = "workduck"
                          /\ pc[q] \in {"lock", "mark"} => text[node[q]] = "empty"
                          /\ "intruded" \notin spoilt /\ pc[q] \in Holding \cup {"lock"} =>
                                lockFile = node[q]
                          /\ at \in Owning /\ pc[q] \in Owning => node[q] # node[p]
        BY <2>1 DEF OthersKeep
      <3>1. pc[q] \in Holding \cup {"look", "remove stale"} =>
               node[q] \in Inodes /\ holder[node[q]] = q
        BY DEF LockInv, Opened, Held, Owning, Visiting
      <3>2. pc[q] \in Holding \cup {"look", "remove stale"} => holder'[node[q]] = q
        BY <1>2, <2>3, <3>1 DEF ScaffoldConstants
      <3>3. at \in Owning /\ pc[q] \in Owning => node[q] # node[p]
        BY <2>1, <2>2, <2>4 DEF LockInv, OwnApart
      <3> QED BY <3>2, <3>3 DEF LockInv, Marked, InPlace
    <2>7. node' = [node EXCEPT ![p] = node[p]] BY <2>1 DEF LockInv, LockTypes
    <2>8. lockFile' \in Inodes \cup {None} /\ text' \in [Inodes -> Texts]
      BY <2>1 DEF LockInv, LockTypes
    <2> QED BY <2>1, <2>2, <2>3, <2>5, <2>6, <2>7, <2>8, StepKeepsLockInv
  <1> QED BY <1>1, <1>2

\* A lock file is looked into under its OS lock,
LEMMA LookKeepsLockInv ==
    ASSUME LockInv, NEW p \in Procs, LookInto(p)
    PROVE  LockInv'
  <1>1. CASE text[node[p]] # "workduck" BY <1>1, OverKeepsLockInv DEF LookInto
  <1>2. CASE text[node[p]] = "workduck"
    <2>1. /\ pc[p] = "look" /\ pc' = [pc EXCEPT ![p] = "remove stale"]
          /\ UNCHANGED <<lockFile, text, holder, node, spoilt>>
      BY <1>2 DEF LookInto, Goto
    <2>2. node[p] \in Inodes /\ holder[node[p]] = p BY <2>1 DEF LockInv, Opened, Held, Visiting
    <2>3. "remove stale" \notin Owning /\ "remove stale" \notin Holding
      BY DEF Owning, Holding, AtWork, Planning, Writing, Undoing
    <2>4. Arrives(p, node[p], "remove stale") BY <1>2, <2>1, <2>2, <2>3 DEF Arrives
    <2>5. node' = [node EXCEPT ![p] = node[p]] BY <2>1 DEF LockInv, LockTypes
    <2> QED BY <2>1, <2>2, <2>3, <2>4, <2>5, MoveKeepsLockInv
  <1> QED BY <1>1, <1>2

\* and removed under it, unless another one is at the path: whoever holds the OS lock of
\* the one at the path, or has just made it, is not the one who removes it.
LEMMA RemoveKeepsLockInv ==
    ASSUME LockInv, NEW p \in Procs, RemoveStale(p) \/ RemoveOwn(p)
    PROVE  LockInv'
  <1>1. CASE lockFile = None
    <2>1. /\ Over(p) /\ UNCHANGED <<lockFile, text, spoilt>>
          /\ UNCHANGED holder \/ holder' = Released(p)
      BY <1>1 DEF RemoveStale, RemoveOwn
    <2> QED BY <2>1, OverKeepsLockInv
  <1>2. CASE lockFile # None
    <2>1. /\ pc[p] \in {"remove stale", "remove own"}
          /\ lockFile' = None /\ UNCHANGED text
          /\ IF lockFile = node[p] THEN UNCHANGED spoilt ELSE Befalls("intruded")
          /\ UNCHANGED holder \/ holder' = Released(p)
      BY <1>2 DEF RemoveStale, RemoveOwn, RemoveLockFile
    <2>2. PICK at \in {"idle", "create"} : pc' = [pc EXCEPT ![p] = at]
      BY <1>2 DEF RemoveStale, RemoveOwn, Over, Goto
    <2>3. node' = [node EXCEPT ![p] = None] BY <1>2 DEF RemoveStale, RemoveOwn, Over
    <2>4. at \notin Owning /\ Arrives(p, None, at) BY NowhereArrives
    <2>5. /\ lockFile' \in Inodes \cup {None} /\ text' \in [Inodes -> Texts]
          /\ holder' \in [Inodes -> Procs \cup {None}]
      BY <2>1, ReleaseFreesOwn DEF LockInv, LockTypes
    <2>6. OthersKeep(p, None, at)
      <3> SUFFICES ASSUME NEW q \in Procs \ {p}
                   PROVE  /\ pc[q] \in Holding \cup {"look", "remove stale"} => holder'[node[q]] = q
                          /\ pc[q] = "remove stale" => text[node[q]] = "workduck"
                          /\ pc[q] \in {"lock", "mark"} => text[node[q]] = "empty"
                          /\ "intruded" \notin spoilt' => pc[q] \notin Holding \cup {"lock"}
        BY <2>1, <2>4 DEF OthersKeep
      <3>1. pc[q] \in Holding \cup {"look", "remove stale"} => holder'[node[q]] = q
        BY <2>1, ReleaseFreesOwn DEF LockInv, Held
      <3>2. ASSUME "intruded" \notin spoilt', pc[q] \in Holding \cup {"lock"}
            PROVE  FALSE
        <4>1. "intruded" \notin spoilt /\ lockFile = node[p] BY <2>1, <3>2 DEF Befalls
        <4>2. node[q] = node[p] BY <3>2, <4>1 DEF LockInv, InPlace
        <4>3. CASE pc[p] = "remove own" BY <3>2, <4>2, <4>3 DEF LockInv, OwnApart, Owning
        <4>4. CASE pc[p] = "remove stale"
          <5>1. holder[node[p]] = p /\ text[node[p]] = "workduck" BY <4>4 DEF LockInv, Held, Marked
          <5>2. pc[q] \in Holding => holder[node[q]] = q BY DEF LockInv, Held
          <5>3. pc[q] = "lock" => text[node[q]] = "empty" BY DEF LockInv, Marked
          <5> QED BY <3>2, <4>2, <5>1, <5>2, <5>3
        <4> QED BY <2>1, <4>3, <4>4
      <3> QED BY <3>1, <3>2 DEF LockInv, Marked
    <2> QED BY <2>2, <2>3, <2>4, <2>5, <2>6, StepKeepsLockInv
  <1> QED BY <1>1, <1>2

\* Who marks a lock file made it, and nobody else looks into it yet.
LEMMA MarkKeepsLockInv ==
    ASSUME LockInv, NEW p \in Procs, MarkLockFile(p) \/ MarkFails(p)
    PROVE  LockInv'
  <1>1. PICK at \in {"read", "remove own"}, written \in {"empty", "workduck"} :
          /\ pc' = [pc EXCEPT ![p] = at]
          /\ text' = [text EXCEPT ![node[p]] = written]
          /\ IF at = "read" THEN UNCHANGED holder ELSE holder' = Released(p)
    BY DEF MarkLockFile, MarkFails, Goto
  <1>2. pc[p] = "mark" /\ UNCHANGED <<lockFile, node, spoilt>> BY DEF MarkLockFile, MarkFails
  <1>3. /\ "mark" \in Holding /\ "mark" \in Owning
        /\ at \in Owning /\ at \notin {"lock", "mark", "look", "remove stale"}
        /\ "remove own" \notin Holding
    BY DEF Owning, Holding, AtWork, Planning, Writing, Undoing
  <1>4. /\ node[p] \in Inodes /\ holder[node[p]] = p
        /\ "intruded" \notin spoilt => lockFile = node[p]
    BY <1>2, <1>3 DEF LockInv, Opened, Held, InPlace
  <1>5. /\ text' \in [Inodes -> Texts]
        /\ \A i \in Inodes \ {node[p]} : text'[i] = text[i]
    BY <1>1, <1>4 DEF LockInv, LockTypes, Texts
  <1>6. lockFile' \in Inodes \cup {None} /\ holder' \in [Inodes -> Procs \cup {None}]
    <2>1. holder' = holder \/ holder' = Released(p) BY <1>1
    <2>2. Released(p) \in [Inodes -> Procs \cup {None}] BY ReleaseFreesOwn
    <2> QED BY <1>2, <2>1, <2>2 DEF LockInv, LockTypes
  <1>7. node' = [node EXCEPT ![p] = node[p]] BY <1>2 DEF LockInv, LockTypes
  <1>8. Arrives(p, node[p], at) BY <1>1, <1>2, <1>3, <1>4 DEF Arrives
  <1>9. OthersKeep(p, node[p], at)
    <2> SUFFICES ASSUME NEW q \in Procs \ {p}
                 PROVE  /\ pc[q] \in Holding \cup {"look", "remove stale"} => holder'[node[q]] = q
                        /\ pc[q] = "remove stale" => text'[node[q]] = "workduck"
                        /\ pc[q] \in {"lock", "mark"} => text'[node[q]] = "empty"
                        /\ "intruded" \notin spoilt /\ pc[q] \in Holding \cup {"lock"} =>
                              lockFile = node[q]
                        /\ pc[q] \in Owning => node[q] # node[p]
      BY <1>2 DEF OthersKeep
    <2>1. pc[q] \in Owning => node[q] # node[p] BY <1>2, <1>3 DEF LockInv, OwnApart
    <2>2. pc[q] \in Holding \cup {"look", "remove stale"} => holder'[node[q]] = q
      BY <1>1, ReleaseFreesOwn DEF LockInv, Held
    <2>3. pc[q] \in {"lock", "mark"} => text'[node[q]] = "empty"
      <3>1. pc[q] \in {"lock", "mark"} => node[q] \in Inodes /\ text[node[q]] = "empty"
        BY DEF LockInv, Opened, Marked, Owning, Holding
      <3> QED BY <1>5, <2>1, <3>1 DEF Owning, Holding
    <2>4. pc[q] = "remove stale" => text'[node[q]] = "workduck"
      <3>1. pc[q] = "remove stale" =>
               node[q] \in Inodes /\ text[node[q]] = "workduck" /\ holder[node[q]] = q
        BY DEF LockInv, Opened, Held, Marked, Visiting
      <3> QED BY <1>4, <1>5, <3>1
    <2> QED BY <2>1, <2>2, <2>3, <2>4 DEF LockInv, InPlace
  <1> QED BY <1>1, <1>3, <1>4, <1>5, <1>6, <1>7, <1>8, <1>9, StepKeepsLockInv

\* Giving back frees the OS lock first; the lock file is then one's own to remove.
LEMMA LeaveKeepsLockInv ==
    ASSUME LockInv, NEW p \in Procs, Leave(p)
    PROVE  LockInv'
  <1>1. /\ pc[p] = "leave" /\ pc' = [pc EXCEPT ![p] = "own"] /\ holder' = Released(p)
        /\ UNCHANGED <<lockFile, text, node, spoilt>>
    BY DEF Leave, Goto
  <1>2. /\ "leave" \in Owning /\ "own" \in Owning /\ "own" \notin Holding
    BY DEF Owning, Holding, AtWork, Planning, Writing, Undoing
  <1>3. node[p] \in Inodes /\ node' = [node EXCEPT ![p] = node[p]]
    BY <1>1, <1>2 DEF LockInv, LockTypes, Opened
  <1>4. /\ lockFile' \in Inodes \cup {None} /\ text' \in [Inodes -> Texts]
        /\ holder' \in [Inodes -> Procs \cup {None}]
    BY <1>1, ReleaseFreesOwn DEF LockInv, LockTypes
  <1>5. Arrives(p, node[p], "own") BY <1>2, <1>3 DEF Arrives
  <1>6. OthersKeep(p, node[p], "own")
    <2> SUFFICES ASSUME NEW q \in Procs \ {p}
                 PROVE  /\ pc[q] \in Holding \cup {"look", "remove stale"} => holder'[node[q]] = q
                        /\ pc[q] = "remove stale" => text[node[q]] = "workduck"
                        /\ pc[q] \in {"lock", "mark"} => text[node[q]] = "empty"
                        /\ "intruded" \notin spoilt /\ pc[q] \in Holding \cup {"lock"} =>
                              lockFile = node[q]
                        /\ pc[q] \in Owning => node[q] # node[p]
      BY <1>1 DEF OthersKeep
    <2>1. pc[q] \in Holding \cup {"look", "remove stale"} => holder'[node[q]] = q
      BY <1>1, ReleaseFreesOwn
    <2>2. pc[q] \in Owning => node[q] # node[p] BY <1>1, <1>2 DEF LockInv, OwnApart
    <2> QED BY <2>1, <2>2 DEF LockInv, Marked, InPlace
  <1> QED BY <1>1, <1>3, <1>4, <1>5, <1>6, StepKeepsLockInv

-----------------------------------------------------------------------------
(* The theorem                                                               *)

\* The invariant is inductive.
LEMMA NextLockInv == ScaffoldConstants /\ LockInv /\ [Next]_vars => LockInv'
  <1> SUFFICES ASSUME ScaffoldConstants, LockInv, [Next]_vars PROVE LockInv' OBVIOUS
  <1>1. ASSUME NEW p \in Procs, Locking(p) \/ \E apply \in BOOLEAN : Start(p, apply)
        PROVE  LockInv'
    BY <1>1, SearchKeepsLockInv, CreateKeepsLockInv, TakeKeepsLockInv, LookKeepsLockInv,
      RemoveKeepsLockInv, MarkKeepsLockInv, LeaveKeepsLockInv DEF Locking
  <1>2. ASSUME NEW p \in Procs, Applying(p) PROVE LockInv' BY <1>2, ApplyKeepsLockInv
  <1>3. ASSUME NEW p \in Procs, Crash(p) PROVE LockInv' BY <1>3, OverKeepsLockInv DEF Crash
  <1>4. CASE User BY <1>4, UserKeepsLockInv
  <1>5. CASE UNCHANGED vars
    BY <1>5 DEF vars, lock, LockInv, LockTypes, Opened, OwnApart, Held, Marked, InPlace
  <1> QED BY <1>1, <1>2, <1>3, <1>4, <1>5 DEF Next

\* Who works holds the OS lock of the lock file at the path, and one lock has one holder.
LEMMA LockInvExcludes == LockInv => ExclusiveOwnership
  <1>0. LockInv => DOMAIN pc = Procs BY DEF LockInv, LockTypes
  <1> SUFFICES ASSUME LockInv, "intruded" \notin spoilt, NEW p \in Procs, Working(p)
               PROVE  /\ lockFile = node[p] /\ holder[node[p]] = p
                      /\ \A q \in Procs \ {p} : ~Working(q)
    BY <1>0 DEF ExclusiveOwnership
  <1>1. ASSUME NEW q \in Procs, Working(q) PROVE lockFile = node[q] /\ holder[node[q]] = q
    BY <1>1 DEF Working, LockInv, InPlace, Held, Holding, AtWork
  <1> QED BY <1>1

\* Whatever crashes, fails or is edited, an instance that works on a repository owns the
\* lock file at its path and works alone, as long as no lock file goes in place of another
\* (acquire_ssealed_scaffold_lock and the release in project_folder_scaffold.rs).
THEOREM ScaffoldLockExcludes ==
    ASSUME ScaffoldConstants PROVE Spec => []ExclusiveOwnership
  <1>1. Init => LockInv BY InitLockInv
  <1>2. LockInv /\ [Next]_vars => LockInv' BY NextLockInv
  <1>3. LockInv => ExclusiveOwnership BY LockInvExcludes
  <1> QED BY <1>1, <1>2, <1>3, PTL DEF Spec

-----------------------------------------------------------------------------
(* What an apply adds and removes                                            *)

\* Facts that hold whatever happens: only applies get beyond the inspection, a lock
\* file is opened while tries are left, a kept file is a matter of a rollback, and what
\* counts as ours is as generated.
Sound(p) ==
    /\ pc[p] \in {"recover", "forget", "stage", "write journal"} \cup Writing \cup Undoing =>
           op[p].apply
    /\ pc[p] \in {"open", "take over", "look", "remove stale"} => op[p].tries > 0
    /\ op[p].kept => pc[p] \in Undoing \cup Leaving
    /\ pc[p] \in Undoing /\ ~op[p].back => ~op[p].kept
    /\ pc[p] = "write journal" => op[p].next \in Manifests
OursGenerated == \A f \in ours : disk[f] = "generated"

\* None of the accidents that let a command mistake what it finds.
Clean == {"intruded", "astray", "unread"} \cap spoilt = {}

\* The manifest a journal leads to lists its files; until it is published, the manifest
\* lists none of them.
JournalOK ==
    journal # None =>
        /\ journal.files \subseteq journal.leads.files
        /\ manifest = journal.leads \/ Listed(manifest) \cap journal.files = {}
Accounted == ours \subseteq Listed(manifest) \cup Recorded(journal)

\* While it plans, an apply knows what the manifest lists, and forgets a journal only
\* when nothing of it is left to undo.
PlanOK(p) ==
    /\ pc[p] \in {"recover", "forget", "inspect", "stage", "write journal"} /\ op[p].apply =>
           op[p].managed = Listed(manifest)
    /\ pc[p] \in {"inspect", "stage", "write journal"} /\ op[p].apply => journal = None
    /\ pc[p] = "forget" /\ journal # None => ours \cap journal.files \subseteq Listed(manifest)
    /\ pc[p] \in {"stage", "write journal"} => op[p].missing \cap op[p].managed = {}
    /\ pc[p] = "write journal" =>
           Listed(op[p].expected) \cup op[p].missing \subseteq op[p].next.files

\* While it writes, its journal is the one on disk, and the manifest is the one before
\* or the one it leads to.
WriteOK(p) ==
    pc[p] \in Writing =>
        /\ op[p].next \in Manifests
        /\ Listed(op[p].expected) \cup op[p].missing \subseteq op[p].next.files
        /\ journal = [leads |-> op[p].next, files |-> op[p].missing]
        /\ op[p].left \subseteq op[p].missing
        /\ pc[p] = "write files" => op[p].left \cap ours = {}
        /\ pc[p] # "finish" => op[p].missing \cap Listed(manifest) = {}
        /\ pc[p] = "publish" => manifest = op[p].expected
        /\ pc[p] = "finish" => manifest = op[p].next

\* While it undoes, what is ours and of the journal is still to be undone, unless a file
\* was kept, and nothing to be undone is listed.
UndoOK(p) ==
    /\ pc[p] \in Undoing =>
           /\ journal # None
           /\ ~op[p].kept => ours \cap Recorded(journal) \subseteq op[p].left
           /\ op[p].left \cap Listed(manifest) = {}
           /\ ~op[p].back => op[p].managed = Listed(manifest)
    /\ pc[p] = "undone" => op[p].left = {}
    /\ pc[p] = "unlink" => "raced" \in spoilt \/ \A f \in Last(op[p].left) : disk[f] = "generated"

WorkOK(p) == PlanOK(p) /\ WriteOK(p) /\ UndoOK(p)

AddedInv ==
    /\ TypeOK /\ OursGenerated /\ \A p \in Procs : Sound(p)
    /\ Clean => JournalOK /\ Accounted /\ \A p \in Procs : WorkOK(p)

-----------------------------------------------------------------------------
(* What one step has to achieve                                              *)

RepositoryTypes ==
    /\ disk \in [Files -> Contents]
    /\ manifest \in Manifests \cup {None}
    /\ journal \in Journals \cup {None}
    /\ ours \subseteq Files /\ spoilt \subseteq Accidents
    /\ inputs \in 0..MaxInputs /\ faults \in 0..MaxFaults

\* An instance goes to a next place with next local values, and the accidents stay.
Moves(p) ==
    /\ \E at \in Steps, o \in Ops : pc' = [pc EXCEPT ![p] = at] /\ op' = [op EXCEPT ![p] = o]
    /\ spoilt \subseteq spoilt'
Achieves(p) ==
    /\ RepositoryTypes' /\ OursGenerated' /\ Sound(p)'
    /\ Clean' => JournalOK' /\ Accounted' /\ WorkOK(p)'

\* The others are as they were, and none of them works while p does.
LEMMA StepKeepsAddedInv ==
    ASSUME ScaffoldConstants, LockInv, LockInv', AddedInv, NEW p \in Procs, Moves(p),
           Achieves(p), Working(p) \/ UNCHANGED <<disk, manifest, journal, ours>>
    PROVE  AddedInv'
  <1>1. /\ \A q \in Procs \ {p} : pc'[q] = pc[q] /\ op'[q] = op[q]
        /\ pc' \in [Procs -> Steps] /\ op' \in [Procs -> Ops]
    BY DEF Moves, AddedInv, TypeOK
  <1>2. TypeOK' BY <1>1 DEF Achieves, RepositoryTypes, TypeOK, LockInv, LockTypes
  <1>3. ASSUME NEW q \in Procs PROVE Sound(q)'
    <2>1. CASE q = p BY <2>1 DEF Achieves
    <2>2. CASE q # p
      <3>1. pc'[q] = pc[q] /\ op'[q] = op[q] /\ Sound(q) BY <1>1, <2>2 DEF AddedInv
      <3> QED BY <3>1 DEF Sound
    <2> QED BY <2>1, <2>2
  <1>4. ASSUME Clean', NEW q \in Procs PROVE WorkOK(q)'
    <2>1. CASE q = p BY <1>4, <2>1 DEF Achieves
    <2>2. CASE q # p
      <3>1. pc'[q] = pc[q] /\ op'[q] = op[q] BY <1>1, <2>2
      <3>2. Clean /\ WorkOK(q) /\ "intruded" \notin spoilt BY <1>4 DEF AddedInv, Clean, Moves
      <3>3. CASE Working(p)
        <4>0. DOMAIN pc = Procs BY DEF LockInv, LockTypes
        <4>1. ~Working(q) BY <2>2, <3>2, <3>3, <4>0, LockInvExcludes DEF ExclusiveOwnership
        <4> QED BY <3>1, <4>1 DEF Working, WorkOK, PlanOK, WriteOK, UndoOK, Planning, Writing, Undoing
      <3>4. CASE UNCHANGED <<disk, manifest, journal, ours>>
        <4>1. PlanOK(q)' BY <3>1, <3>2, <3>4 DEF WorkOK, PlanOK, Listed
        <4>2. WriteOK(q)' BY <3>1, <3>2, <3>4 DEF WorkOK, WriteOK, Listed
        <4>3. UndoOK(q)' BY <3>1, <3>2, <3>4 DEF WorkOK, UndoOK, Listed, Recorded, Moves, Last
        <4> QED BY <4>1, <4>2, <4>3 DEF WorkOK
      <3> QED BY <3>3, <3>4
    <2> QED BY <2>1, <2>2
  <1> QED BY <1>2, <1>3, <1>4 DEF Achieves, AddedInv

\* What p finds: its local values, and, unless there was an accident, all that holds.
LEMMA Found ==
    ASSUME AddedInv, NEW p \in Procs
    PROVE  /\ op[p] \in Ops /\ pc[p] \in Steps /\ Sound(p) /\ OursGenerated /\ RepositoryTypes
           /\ op = [op EXCEPT ![p] = op[p]] /\ pc = [pc EXCEPT ![p] = pc[p]]
           /\ spoilt \subseteq spoilt' /\ Clean' =>
                  Clean /\ JournalOK /\ Accounted /\ PlanOK(p) /\ WriteOK(p) /\ UndoOK(p)
  BY DEF AddedInv, TypeOK, RepositoryTypes, Clean, WorkOK

\* The steps that leave the repository alone and lead to no place of work but the first.
LEMMA AsideKeepsAddedInv ==
    ASSUME ScaffoldConstants, LockInv, LockInv', AddedInv, NEW p \in Procs,
           NEW at \in {"idle", "read"} \cup Seeking \cup Making \cup Leaving,
           NEW o \in Ops, pc' = [pc EXCEPT ![p] = at], op' = [op EXCEPT ![p] = o],
           spoilt \subseteq spoilt', UNCHANGED repository, UNCHANGED ours, RepositoryTypes',
           at \in {"open", "take over", "look", "remove stale"} => o.tries > 0,
           o.kept => at \in Leaving
    PROVE  AddedInv'
  <1>1. pc'[p] = at /\ op'[p] = o /\ Moves(p) BY DEF AddedInv, TypeOK, Moves, Steps, Planning
  <1>2. at \notin {"recover", "forget", "inspect", "stage", "write journal"} \cup Writing \cup Undoing
    BY DEF Seeking, Making, Leaving, Writing, Undoing
  <1>3. Sound(p)' BY <1>1, <1>2 DEF Sound, Undoing
  <1>4. WorkOK(p)' BY <1>1, <1>2 DEF WorkOK, PlanOK, WriteOK, UndoOK, Writing, Undoing
  <1>5. OursGenerated' /\ (Clean' => JournalOK' /\ Accounted')
    BY DEF AddedInv, OursGenerated, Clean, JournalOK, Accounted, repository, Listed, Recorded
  <1> QED BY <1>1, <1>3, <1>4, <1>5, StepKeepsAddedInv DEF Achieves, repository

\* The end of a command, wherever it was.
LEMMA NoOpIsOp == ASSUME ScaffoldConstants PROVE NoOp \in Ops /\ ~NoOp.kept
  BY DEF ScaffoldConstants, NoOp, Ops

LEMMA OverKeepsAddedInv ==
    ASSUME ScaffoldConstants, LockInv, LockInv', AddedInv, NEW p \in Procs, Over(p),
           UNCHANGED <<repository, ours>>, spoilt \subseteq spoilt', RepositoryTypes'
    PROVE  AddedInv'
  <1>1. PICK o \in Ops : o = NoOp /\ ~o.kept BY NoOpIsOp
  <1>2. pc' = [pc EXCEPT ![p] = "idle"] /\ op' = [op EXCEPT ![p] = o] BY <1>1 DEF Over, Goto
  <1> QED BY <1>1, <1>2, AsideKeepsAddedInv

-----------------------------------------------------------------------------
(* Commands, the lock, crashes and users                                     *)

\* A command starts with nothing kept, and takes no more inputs than there are.
LEMMA StartKeepsAddedInv ==
    ASSUME ScaffoldConstants, LockInv, LockInv', AddedInv, NEW p \in Procs,
           NEW apply \in BOOLEAN, Start(p, apply)
    PROVE  AddedInv'
  <1>1. op[p] \in Ops /\ pc[p] = "idle" /\ ~op[p].kept /\ RepositoryTypes
    BY Found DEF Start, Sound, Undoing, Leaving
  <1>2. inputs + 1 \in 0..MaxInputs BY <1>1 DEF Start, Input, RepositoryTypes, ScaffoldConstants
  <1>3. PICK o \in Ops : o = [op[p] EXCEPT !.apply = apply, !.tries = 2, !.stamp = inputs + 1]
    <2>1. PICK a \in Ops : a = [op[p] EXCEPT !.apply = apply] BY <1>1 DEF Ops
    <2>2. PICK b \in Ops : b = [a EXCEPT !.tries = 2]
      <3>1. 2 \in 0..2 OBVIOUS
      <3>2. [a EXCEPT !.tries = 2] \in Ops BY <3>1 DEF Ops
      <3> QED BY <3>2
    <2>3. [b EXCEPT !.stamp = inputs + 1] \in Ops BY <1>2 DEF Ops
    <2>4. [b EXCEPT !.stamp = inputs + 1] = [op[p] EXCEPT !.apply = apply, !.tries = 2, !.stamp = inputs + 1]
      BY <1>1, <2>1, <2>2 DEF Ops
    <2> QED BY <2>3, <2>4
  <1>4. op' = [op EXCEPT ![p] = o] /\ pc' = [pc EXCEPT ![p] = "create"] /\ ~o.kept
    BY <1>1, <1>3 DEF Start, Goto, AddedInv, TypeOK, Ops
  <1>5. RepositoryTypes' /\ UNCHANGED <<repository, ours, spoilt>>
    BY <1>1, <1>2 DEF Start, Input, RepositoryTypes, repository
  <1> QED BY <1>3, <1>4, <1>5, AsideKeepsAddedInv DEF Seeking

\* The steps that take, mark and give back the lock change no file and forget nothing.
LEMMA LockingKeepsAddedInv ==
    ASSUME ScaffoldConstants, LockInv, LockInv', AddedInv, NEW p \in Procs, Locking(p)
    PROVE  AddedInv'
  <1>1. /\ op[p] \in Ops /\ RepositoryTypes /\ Sound(p)
        /\ op = [op EXCEPT ![p] = op[p]] /\ pc \in [Procs -> Steps] /\ op \in [Procs -> Ops]
    BY Found DEF AddedInv, TypeOK
  <1>2. UNCHANGED <<repository, ours, inputs>> /\ spoilt \subseteq spoilt' /\ RepositoryTypes'
    <2>1. /\ UNCHANGED <<repository, ours, inputs>> /\ faults' \in 0..MaxFaults
          /\ spoilt' = spoilt \/ spoilt' = spoilt \cup {"intruded"}
      <3> USE <1>1 DEF RepositoryTypes, Befalls, bounds, RemoveLockFile
      <3>1. CASE CreateLockFile(p) \/ FindLockFile(p) \/ GiveUp(p) \/ OpenLockFile(p) \/ TakeOver(p)
        BY <3>1 DEF CreateLockFile, FindLockFile, GiveUp, OpenLockFile, TakeOver
      <3>2. CASE LookInto(p) \/ RemoveStale(p) \/ LockFileLocked(p) \/ MarkLockFile(p)
        BY <3>2 DEF LookInto, RemoveStale, LockFileLocked, MarkLockFile
      <3>3. CASE MarkFails(p)
        <4>1. /\ UNCHANGED <<repository, ours, spoilt, inputs>>
              /\ faults < MaxFaults /\ faults' = faults + 1
          BY <3>3 DEF MarkFails, Fault
        <4>2. faults \in 0..MaxFaults /\ MaxFaults \in Nat BY DEF ScaffoldConstants
        <4>3. faults' \in 0..MaxFaults BY <4>1, <4>2
        <4> QED BY <4>1, <4>3
      <3>4. CASE Leave(p) \/ SeeOwn(p) \/ RemoveOwn(p) BY <3>4 DEF Leave, SeeOwn, RemoveOwn
      <3> QED BY <3>1, <3>2, <3>3, <3>4 DEF Locking
    <2> QED BY <1>1, <2>1 DEF RepositoryTypes, repository, Accidents
  <1>3. \/ Over(p)
        \/ /\ op[p].tries > 0
           /\ pc' = [pc EXCEPT ![p] = "create"] /\ op' = [op EXCEPT ![p].tries = @ - 1]
           /\ pc[p] \in Seeking
        \/ /\ UNCHANGED op
           /\ \E at \in Steps :
                 /\ pc' = [pc EXCEPT ![p] = at]
                 /\ at \in {"open", "take over", "look", "remove stale"} => op[p].tries > 0
                 /\ \/ pc[p] \in Seeking \cup Making /\ at \in {"read", "remove own"} \cup Seeking \cup Making
                    \/ at \in Leaving
    <2> USE DEF Goto, Seeking, Making, Leaving, Steps, Planning, Sound
    <2>1. CASE CreateLockFile(p) \/ FindLockFile(p) \/ GiveUp(p) \/ OpenLockFile(p)
      BY <1>1, <2>1 DEF CreateLockFile, FindLockFile, GiveUp, OpenLockFile
    <2>2. CASE TakeOver(p) \/ LookInto(p) \/ LockFileLocked(p)
      BY <1>1, <2>2 DEF TakeOver, LookInto, LockFileLocked
    <2>3. CASE RemoveStale(p) \/ RemoveOwn(p) \/ SeeOwn(p)
      BY <1>1, <2>3 DEF RemoveStale, RemoveOwn, SeeOwn
    <2>4. CASE MarkLockFile(p) \/ MarkFails(p) \/ Leave(p)
      BY <1>1, <2>4 DEF MarkLockFile, MarkFails, Leave
    <2> QED BY <2>1, <2>2, <2>3, <2>4 DEF Locking
  <1>4. CASE Over(p) BY <1>2, <1>4, OverKeepsAddedInv
  <1>5. CASE /\ op[p].tries > 0
             /\ pc' = [pc EXCEPT ![p] = "create"] /\ op' = [op EXCEPT ![p].tries = @ - 1]
             /\ pc[p] \in Seeking
    <2>1. ~op[p].kept BY <1>1, <1>5 DEF Sound, Seeking, Undoing, Leaving
    <2>2. PICK o \in Ops : o = [op[p] EXCEPT !.tries = @ - 1]
      <3>1. op[p].tries - 1 \in 0..2 BY <1>1, <1>5 DEF Ops
      <3>2. [op[p] EXCEPT !.tries = @ - 1] \in Ops BY <1>1, <3>1 DEF Ops
      <3> QED BY <3>2
    <2>3. op' = [op EXCEPT ![p] = o] /\ ~o.kept BY <1>1, <1>5, <2>1, <2>2 DEF Ops
    <2> QED BY <1>2, <1>5, <2>2, <2>3, AsideKeepsAddedInv DEF Seeking
  <1>6. ASSUME UNCHANGED op, NEW at \in Steps, pc' = [pc EXCEPT ![p] = at],
               at \in {"open", "take over", "look", "remove stale"} => op[p].tries > 0,
               \/ pc[p] \in Seeking \cup Making /\ at \in {"read", "remove own"} \cup Seeking \cup Making
               \/ at \in Leaving
        PROVE  AddedInv'
    <2>1. op[p].kept => at \in Leaving BY <1>1, <1>6 DEF Sound, Seeking, Making, Undoing, Leaving
    <2>2. PICK o \in Ops : o = op[p] BY <1>1
    <2>3. at \in {"idle", "read"} \cup Seeking \cup Making \cup Leaving BY <1>6 DEF Leaving
    <2>4. op' = [op EXCEPT ![p] = o] BY <1>1, <1>6, <2>2
    <2>5. /\ at \in {"open", "take over", "look", "remove stale"} => o.tries > 0
          /\ o.kept => at \in Leaving
      BY <1>6, <2>1, <2>2
    <2> QED BY <1>2, <1>6, <2>3, <2>4, <2>5, AsideKeepsAddedInv
  <1> QED BY <1>3, <1>4, <1>5, <1>6

\* A crash ends the command where it is.
LEMMA CrashKeepsAddedInv ==
    ASSUME ScaffoldConstants, LockInv, LockInv', AddedInv, NEW p \in Procs, Crash(p)
    PROVE  AddedInv'
  <1>1. RepositoryTypes BY Found
  <1>2. /\ Over(p) /\ UNCHANGED <<repository, ours, spoilt>>
        /\ RepositoryTypes'
    BY <1>1 DEF Crash, Fault, RepositoryTypes, repository, ScaffoldConstants
  <1> QED BY <1>2, OverKeepsAddedInv

\* Whose file a user edits, and when: what is ours shrinks, and a file about to be removed
\* was raced for.
LEMMA EditFileKeepsAddedInv ==
    ASSUME ScaffoldConstants, LockInv', AddedInv, NEW f \in Files, NEW content \in Contents,
           EditFile(f, content)
    PROVE  AddedInv'
  <1>1. /\ UNCHANGED <<manifest, journal, pc, op>> /\ ours' = ours \ {f}
        /\ disk' = [disk EXCEPT ![f] = content] /\ spoilt \subseteq spoilt'
        /\ spoilt' = spoilt \/ spoilt' = spoilt \cup {"raced"}
        /\ Input
    BY DEF EditFile, Befalls
  <1>2. /\ spoilt' \subseteq Accidents /\ inputs' \in 0..MaxInputs /\ UNCHANGED faults
    BY <1>1 DEF AddedInv, TypeOK, Input, Accidents, ScaffoldConstants
  <1>a. TypeOK' BY <1>1, <1>2 DEF AddedInv, TypeOK, LockInv, LockTypes
  <1>3. OursGenerated' /\ \A p \in Procs : Sound(p)'
    BY <1>1 DEF AddedInv, TypeOK, OursGenerated, Sound
  <1>4. ASSUME Clean'
        PROVE  JournalOK' /\ Accounted' /\ \A p \in Procs : WorkOK(p)'
    <2>1. Clean /\ JournalOK /\ Accounted /\ \A p \in Procs : WorkOK(p)
      BY <1>1, <1>4 DEF AddedInv, Clean
    <2>2. JournalOK' /\ Accounted' BY <1>1, <2>1 DEF JournalOK, Accounted, Listed, Recorded
    <2>3. ASSUME NEW p \in Procs PROVE WorkOK(p)'
      <3>1. PlanOK(p)' BY <1>1, <2>1 DEF WorkOK, PlanOK, Listed
      <3>2. WriteOK(p)' BY <1>1, <2>1 DEF WorkOK, WriteOK, Listed
      <3>3. ASSUME pc[p] = "unlink", "raced" \notin spoilt', NEW g \in Last(op[p].left)
            PROVE  disk'[g] = "generated"
        <4>1. g # f BY <3>3 DEF EditFile, Befalls
        <4>2. g \in Files BY <3>3 DEF AddedInv, TypeOK, Ops, Last
        <4>3. disk[g] = "generated" BY <1>1, <2>1, <3>3 DEF WorkOK, UndoOK
        <4> QED BY <1>1, <4>1, <4>2, <4>3 DEF AddedInv, TypeOK
      <3>4. UndoOK(p)'
        <4>1. pc'[p] = pc[p] /\ op'[p] = op[p] BY <1>1
        <4>2. pc[p] = "unlink" => "raced" \in spoilt' \/ \A g \in Last(op[p].left) : disk'[g] = "generated"
          BY <3>3
        <4> QED BY <1>1, <2>1, <4>1, <4>2 DEF WorkOK, UndoOK, Listed, Recorded, Last
      <3> QED BY <3>1, <3>2, <3>4 DEF WorkOK
    <2> QED BY <2>2, <2>3
  <1> QED BY <1>a, <1>3, <1>4 DEF AddedInv

\* A manifest is edited beside no journal and no apply, or it went astray.
LEMMA EditManifestKeepsAddedInv ==
    ASSUME ScaffoldConstants, LockInv', AddedInv, NEW files \in (SUBSET Files) \cup {None},
           EditManifest(files)
    PROVE  AddedInv'
  <1>1. /\ UNCHANGED <<disk, journal, pc, op, faults>> /\ spoilt \subseteq spoilt'
        /\ ours' = ours \ (Listed(manifest) \ Listed(manifest'))
        /\ spoilt' \subseteq Accidents
    BY DEF EditManifest, Input, AddedInv, TypeOK, Befalls, Accidents
  <1>2. inputs + 1 \in 0..MaxInputs /\ inputs' = inputs + 1
    BY DEF EditManifest, Input, AddedInv, TypeOK, ScaffoldConstants
  <1>3. manifest' \in Manifests \cup {None} BY <1>2 DEF EditManifest, Manifests
  <1>4. TypeOK' BY <1>1, <1>2, <1>3 DEF AddedInv, TypeOK, LockInv, LockTypes
  <1>5. OursGenerated' /\ \A p \in Procs : Sound(p)' BY <1>1 DEF AddedInv, OursGenerated, Sound
  <1>6. ASSUME Clean'
        PROVE  JournalOK' /\ Accounted' /\ \A p \in Procs : WorkOK(p)'
    <2>1. Clean /\ Accounted BY <1>1, <1>6 DEF AddedInv, Clean
    <2>2. journal = None /\ \A p \in Procs : Working(p) => ~op[p].apply
      BY <1>6 DEF EditManifest, Befalls, Clean
    <2>3. JournalOK' /\ Accounted' BY <1>1, <2>1, <2>2 DEF JournalOK, Accounted, Recorded
    <2>4. ASSUME NEW p \in Procs PROVE WorkOK(p)'
      <3>1. /\ pc[p] \notin {"recover", "forget", "stage", "write journal"} \cup Writing \cup Undoing
            /\ pc[p] = "inspect" => ~op[p].apply
        BY <2>2 DEF AddedInv, Sound, Working, Planning
      <3> QED BY <1>1, <3>1 DEF WorkOK, PlanOK, WriteOK, UndoOK, Writing, Undoing
    <2> QED BY <2>3, <2>4
  <1> QED BY <1>4, <1>5, <1>6 DEF AddedInv

-----------------------------------------------------------------------------
(* Planning                                                                  *)

\* Where p is after a step, and with what.
LEMMA Arrived ==
    ASSUME AddedInv, NEW p \in Procs, NEW at \in Steps, NEW o \in Ops,
           pc' = [pc EXCEPT ![p] = at], op' = [op EXCEPT ![p] = o], spoilt \subseteq spoilt'
    PROVE  pc'[p] = at /\ op'[p] = o /\ Moves(p)
  BY DEF AddedInv, TypeOK, Moves

\* A step of a plan that leaves the repository and the accidents alone.
LEMMA PlanStep ==
    ASSUME ScaffoldConstants, LockInv, LockInv', AddedInv, NEW p \in Procs,
           pc[p] \in Planning,
           NEW at \in Planning \cup {"leave"}, NEW o \in Ops, pc' = [pc EXCEPT ![p] = at],
           op' = [op EXCEPT ![p] = o], UNCHANGED <<repository, ours>>, spoilt \subseteq spoilt',
           RepositoryTypes', o.kept = op[p].kept, o.apply = op[p].apply,
           at \in {"recover", "forget", "stage", "write journal"} => o.apply,
           at = "write journal" => o.next \in Manifests,
           Clean /\ JournalOK /\ PlanOK(p) => PlanOK(p)'
    PROVE  AddedInv'
  <1>1. at \in Steps /\ at \notin Writing \cup Undoing
    BY DEF Steps, Planning, Writing, Undoing, Leaving
  <1>2. pc'[p] = at /\ op'[p] = o /\ Moves(p) BY <1>1, Arrived
  <1>3. Sound(p) /\ OursGenerated /\ (Clean' => Clean /\ JournalOK /\ Accounted /\ PlanOK(p))
    BY Found
  <1>4. ~o.kept BY <1>3 DEF Sound, Planning, Undoing, Leaving
  <1>5. Sound(p)' BY <1>1, <1>2, <1>4 DEF Sound, Planning
  <1>6. OursGenerated' /\ (Clean' => JournalOK' /\ Accounted')
    BY <1>3 DEF OursGenerated, JournalOK, Accounted, repository, Listed, Recorded
  <1>7. Clean' => WorkOK(p)' BY <1>1, <1>2, <1>3 DEF WorkOK, WriteOK, UndoOK, Writing, Undoing
  <1> QED BY <1>2, <1>5, <1>6, <1>7, StepKeepsAddedInv DEF Achieves, Working, repository

\* What a plan reads it knows, as nobody else works and no manifest goes astray.
LEMMA ReadKeepsAddedInv ==
    ASSUME ScaffoldConstants, LockInv, LockInv', AddedInv, NEW p \in Procs, ReadManifest(p)
    PROVE  AddedInv'
  <1>1. op[p] \in Ops /\ pc[p] = "read" /\ RepositoryTypes BY Found DEF ReadManifest
  <1>2. Listed(manifest) \subseteq Files BY <1>1 DEF RepositoryTypes, Listed, Manifests
  <1>3. PICK o \in Ops : o = [op[p] EXCEPT !.managed = Listed(manifest)] BY <1>1, <1>2 DEF Ops
  <1>4. /\ o.managed = Listed(manifest) /\ o.apply = op[p].apply /\ o.kept = op[p].kept
        /\ o.missing = op[p].missing /\ o.next = op[p].next /\ o.expected = op[p].expected
    BY <1>1, <1>3 DEF Ops
  <1>5. PICK at \in {"recover", "inspect"} : at = IF op[p].apply THEN "recover" ELSE "inspect"
    OBVIOUS
  <1>6. /\ pc' = [pc EXCEPT ![p] = at] /\ op' = [op EXCEPT ![p] = o]
        /\ UNCHANGED <<repository, ours, spoilt>> /\ RepositoryTypes'
    BY <1>1, <1>3, <1>5 DEF ReadManifest, Goto, RepositoryTypes, repository, bounds
  <1>7. pc'[p] = at /\ op'[p] = o BY <1>5, <1>6, Arrived DEF Steps, Planning
  <1>8. PlanOK(p)' BY <1>4, <1>5, <1>6, <1>7 DEF PlanOK, repository, Listed
  <1> QED BY <1>1, <1>4, <1>5, <1>6, <1>8, PlanStep DEF Planning

\* A journal is of a manifest that lists its files, or of one that was never published.
LEMMA RecoverKeepsAddedInv ==
    ASSUME ScaffoldConstants, LockInv, LockInv', AddedInv, NEW p \in Procs, ReadJournal(p)
    PROVE  AddedInv'
  <1>1. /\ op[p] \in Ops /\ pc[p] = "recover" /\ RepositoryTypes /\ Sound(p) /\ OursGenerated
        /\ op = [op EXCEPT ![p] = op[p]]
        /\ spoilt \subseteq spoilt' /\ Clean' => Clean /\ JournalOK /\ Accounted /\ PlanOK(p)
    BY Found DEF ReadJournal
  <1>2. UNCHANGED <<repository, ours>> BY DEF ReadJournal
  <1>3. op[p].apply /\ ~op[p].kept BY <1>1 DEF Sound, Undoing, Leaving
  <1>4. CASE /\ journal # None => journal.leads = manifest
             /\ Goto(p, IF journal = None THEN "inspect" ELSE "forget")
             /\ UNCHANGED <<op, spoilt, bounds>>
    <2>1. PICK at \in {"inspect", "forget"} : at = IF journal = None THEN "inspect" ELSE "forget"
      OBVIOUS
    <2>2. PICK o \in Ops : o = op[p] BY <1>1
    <2>3. pc' = [pc EXCEPT ![p] = at] /\ op' = [op EXCEPT ![p] = o]
      BY <1>1, <1>4, <2>1, <2>2 DEF Goto
    <2>4. RepositoryTypes' /\ spoilt \subseteq spoilt'
      BY <1>1, <1>2, <1>4 DEF RepositoryTypes, repository, bounds
    <2>5. pc'[p] = at /\ op'[p] = op[p] BY <2>1, <2>2, <2>3, <2>4, Arrived DEF Steps, Planning
    <2>6. ASSUME JournalOK, PlanOK(p) PROVE PlanOK(p)'
      <3>1. op[p].managed = Listed(manifest) BY <1>1, <1>3, <2>6 DEF PlanOK
      <3>2. journal # None => journal.files \subseteq Listed(manifest)
        <4>1. journal # None => journal.leads \in Manifests /\ journal.leads # None
          BY <1>1 DEF RepositoryTypes, Journals, ScaffoldConstants
        <4> QED BY <1>4, <2>6, <4>1 DEF JournalOK, Listed
      <3> QED BY <1>2, <2>1, <2>5, <3>1, <3>2 DEF PlanOK, repository, Listed
    <2> QED BY <1>1, <1>2, <1>3, <2>1, <2>2, <2>3, <2>4, <2>6, PlanStep DEF Planning
  <1>5. CASE /\ journal # None
             /\ IF journal.leads # manifest THEN UNCHANGED <<spoilt, bounds>>
                ELSE Fault /\ Befalls("unread")
             /\ Goto(p, "undo")
             /\ op' = [op EXCEPT ![p].left = journal.files]
    <2>1. journal.files \subseteq Files BY <1>1, <1>5 DEF RepositoryTypes, Journals
    <2>2. PICK o \in Ops : o = [op[p] EXCEPT !.left = journal.files] BY <1>1, <2>1 DEF Ops
    <2>3. /\ o.left = journal.files /\ o.apply = op[p].apply /\ o.kept = op[p].kept
          /\ o.managed = op[p].managed
      BY <1>1, <2>2 DEF Ops
    <2>4. pc' = [pc EXCEPT ![p] = "undo"] /\ op' = [op EXCEPT ![p] = o] BY <1>1, <1>5, <2>2 DEF Goto
    <2>5. spoilt \subseteq spoilt' /\ RepositoryTypes'
      <3>1. spoilt' \subseteq Accidents /\ spoilt \subseteq spoilt' /\ UNCHANGED inputs
        BY <1>1, <1>5 DEF RepositoryTypes, Befalls, Accidents, Fault, bounds
      <3>2. faults' \in 0..MaxFaults
        BY <1>1, <1>5 DEF RepositoryTypes, Fault, bounds, ScaffoldConstants
      <3> QED BY <1>1, <1>2, <3>1, <3>2 DEF RepositoryTypes, repository
    <2>6. pc'[p] = "undo" /\ op'[p] = o /\ Moves(p) BY <2>4, <2>5, Arrived DEF Steps, Undoing
    <2>7. OursGenerated' /\ Sound(p)'
      BY <1>1, <1>2, <1>3, <2>3, <2>6 DEF OursGenerated, Sound, repository
    <2>8. ASSUME Clean' PROVE JournalOK' /\ Accounted' /\ WorkOK(p)'
      <3>1. Clean /\ JournalOK /\ Accounted /\ PlanOK(p) BY <1>1, <2>5, <2>8
      <3>2. journal.leads # manifest BY <1>5, <2>8 DEF Clean, Befalls
      <3>3. Listed(manifest) \cap journal.files = {} /\ op[p].managed = Listed(manifest)
        BY <1>1, <1>3, <1>5, <3>1, <3>2 DEF JournalOK, PlanOK
      <3>4. JournalOK' /\ Accounted'
        BY <1>2, <3>1 DEF JournalOK, Accounted, repository, Listed, Recorded
      <3>5. PlanOK(p)' /\ WriteOK(p)' BY <2>6 DEF PlanOK, WriteOK, Writing
      <3>6. UndoOK(p)' BY <1>2, <1>5, <2>3, <2>6, <3>3 DEF UndoOK, repository, Listed, Recorded
      <3> QED BY <3>4, <3>5, <3>6 DEF WorkOK
    <2>9. Working(p) BY <1>1 DEF Working, Planning
    <2> QED BY <2>5, <2>6, <2>7, <2>8, <2>9, StepKeepsAddedInv DEF Achieves
  <1> QED BY <1>4, <1>5 DEF ReadJournal

\* A journal is forgotten when nothing of it is ours, or the manifest lists it.
LEMMA ForgetKeepsAddedInv ==
    ASSUME ScaffoldConstants, LockInv, LockInv', AddedInv, NEW p \in Procs, ForgetJournal(p)
    PROVE  AddedInv'
  <1>1. /\ op[p] \in Ops /\ pc[p] = "forget" /\ RepositoryTypes /\ Sound(p) /\ OursGenerated
        /\ op = [op EXCEPT ![p] = op[p]]
        /\ UNCHANGED <<disk, manifest, ours, spoilt, op>> /\ journal' = None
        /\ spoilt \subseteq spoilt' /\ Clean' => Clean /\ JournalOK /\ Accounted /\ PlanOK(p)
    BY Found DEF ForgetJournal
  <1>2. PICK o \in Ops : o = op[p] BY <1>1
  <1>3. pc'[p] = "inspect" /\ op'[p] = op[p] /\ Moves(p)
    <2>1. pc' = [pc EXCEPT ![p] = "inspect"] /\ op' = [op EXCEPT ![p] = o]
      BY <1>1, <1>2 DEF ForgetJournal, Goto
    <2> QED BY <1>1, <1>2, <2>1, Arrived DEF Steps, Planning
  <1>4. RepositoryTypes' /\ OursGenerated'
    BY <1>1 DEF ForgetJournal, RepositoryTypes, OursGenerated, bounds
  <1>5. Sound(p)' BY <1>1, <1>3 DEF Sound, Writing, Undoing, Leaving
  <1>6. ASSUME Clean' PROVE JournalOK' /\ Accounted' /\ WorkOK(p)'
    <2>1. Accounted /\ PlanOK(p) BY <1>1, <1>6
    <2>2. ours \cap journal.files \subseteq Listed(manifest) BY <1>1, <2>1 DEF PlanOK, ForgetJournal
    <2>3. JournalOK' /\ Accounted' BY <1>1, <2>1, <2>2 DEF JournalOK, Accounted, Listed, Recorded
    <2>4. PlanOK(p)' BY <1>1, <1>3, <2>1 DEF PlanOK, Listed
    <2>5. WriteOK(p)' /\ UndoOK(p)' BY <1>3 DEF WriteOK, UndoOK, Writing, Undoing
    <2> QED BY <2>3, <2>4, <2>5 DEF WorkOK
  <1>7. Working(p) BY <1>1 DEF Working, Planning
  <1> QED BY <1>3, <1>4, <1>5, <1>6, <1>7, StepKeepsAddedInv DEF Achieves

\* The files that are missing are absent, and the manifest lists none of them.
LEMMA InspectKeepsAddedInv ==
    ASSUME ScaffoldConstants, LockInv, LockInv', AddedInv, NEW p \in Procs, Inspect(p)
    PROVE  AddedInv'
  <1>1. op[p] \in Ops /\ pc[p] = "inspect" /\ RepositoryTypes BY Found DEF Inspect
  <1>2. PICK missing \in SUBSET Files : missing = {f \in Files : disk[f] = "absent"} \ op[p].managed
    OBVIOUS
  <1>3. PICK same \in SUBSET Files : same = {f \in Files : disk[f] = "generated"} OBVIOUS
  <1>4. PICK o \in Ops : o = [op[p] EXCEPT !.missing = missing, !.same = same] BY <1>1 DEF Ops
  <1>5. /\ o.managed = op[p].managed /\ o.apply = op[p].apply /\ o.kept = op[p].kept
        /\ o.missing = missing
    BY <1>1, <1>4 DEF Ops
  <1>6. PICK at \in {"stage", "leave"} : at = IF op[p].apply THEN "stage" ELSE "leave" OBVIOUS
  <1>7. /\ pc' = [pc EXCEPT ![p] = at] /\ op' = [op EXCEPT ![p] = o]
        /\ UNCHANGED <<repository, ours, spoilt>> /\ RepositoryTypes'
    BY <1>1, <1>2, <1>3, <1>4, <1>6 DEF Inspect, Goto, RepositoryTypes, repository, bounds
  <1>8. pc'[p] = at /\ op'[p] = o BY <1>6, <1>7, Arrived DEF Steps, Planning, Leaving
  <1>9. ASSUME PlanOK(p) PROVE PlanOK(p)'
    BY <1>1, <1>2, <1>5, <1>6, <1>7, <1>8, <1>9 DEF PlanOK, repository, Listed
  <1> QED BY <1>1, <1>5, <1>6, <1>7, <1>9, PlanStep DEF Planning

\* The next manifest lists what the last one listed, and what is missing.
LEMMA StageKeepsAddedInv ==
    ASSUME ScaffoldConstants, LockInv, LockInv', AddedInv, NEW p \in Procs, Stage(p)
    PROVE  AddedInv'
  <1>1. op[p] \in Ops /\ pc[p] = "stage" /\ RepositoryTypes /\ Sound(p) BY Found DEF Stage
  <1>2. op[p].missing \subseteq Files /\ op[p].same \subseteq Files /\ op[p].stamp \in 0..MaxInputs
    BY <1>1 DEF Ops
  <1>3. PICK next : next = IF manifest = None
                           THEN [files |-> op[p].missing \cup op[p].same, stamp |-> op[p].stamp]
                           ELSE [manifest EXCEPT !.files = @ \cup op[p].missing]
    OBVIOUS
  <1>4. next \in Manifests /\ Listed(manifest) \cup op[p].missing \subseteq next.files
    <2>1. CASE manifest = None BY <1>2, <1>3, <2>1 DEF Manifests, Listed
    <2>2. CASE manifest # None BY <1>1, <1>2, <1>3, <2>2 DEF RepositoryTypes, Manifests, Listed
    <2> QED BY <2>1, <2>2
  <1>5. PICK o \in Ops : o = [op[p] EXCEPT !.expected = manifest, !.next = next]
    BY <1>1, <1>4 DEF Ops, RepositoryTypes
  <1>6. /\ o.managed = op[p].managed /\ o.apply = op[p].apply /\ o.kept = op[p].kept
        /\ o.missing = op[p].missing /\ o.expected = manifest /\ o.next = next
    BY <1>1, <1>5 DEF Ops
  <1>7. /\ pc' = [pc EXCEPT ![p] = "write journal"] /\ op' = [op EXCEPT ![p] = o]
        /\ UNCHANGED <<repository, ours, spoilt>> /\ RepositoryTypes'
    BY <1>1, <1>3, <1>5 DEF Stage, Goto, RepositoryTypes, repository, bounds
  <1>8. pc'[p] = "write journal" /\ op'[p] = o BY <1>7, Arrived DEF Steps, Planning
  <1>9. ASSUME PlanOK(p) PROVE PlanOK(p)'
    BY <1>1, <1>4, <1>6, <1>7, <1>8, <1>9 DEF PlanOK, repository, Listed
  <1>10. o.apply /\ o.next \in Manifests BY <1>1, <1>4, <1>6 DEF Sound
  <1> QED BY <1>1, <1>6, <1>7, <1>9, <1>10, PlanStep DEF Planning

\* The journal records the missing files before the first is written: they are absent, so
\* none of them is ours.
LEMMA JournalKeepsAddedInv ==
    ASSUME ScaffoldConstants, LockInv, LockInv', AddedInv, NEW p \in Procs, WriteJournal(p)
    PROVE  AddedInv'
  <1>1. /\ op[p] \in Ops /\ pc[p] = "write journal" /\ RepositoryTypes /\ Sound(p) /\ OursGenerated
        /\ op = [op EXCEPT ![p] = op[p]]
        /\ UNCHANGED <<disk, manifest, ours, spoilt, bounds>>
        /\ spoilt \subseteq spoilt' /\ Clean' => Clean /\ JournalOK /\ Accounted /\ PlanOK(p)
    BY Found DEF WriteJournal
  <1>2. op[p].apply /\ ~op[p].kept BY <1>1 DEF Sound, Undoing, Leaving
  <1>3. CASE \A f \in op[p].missing : disk[f] = "absent"
    <2>1. PICK o \in Ops : o = [op[p] EXCEPT !.left = op[p].missing] BY <1>1 DEF Ops
    <2>2. /\ o.left = op[p].missing /\ o.missing = op[p].missing /\ o.kept = op[p].kept
          /\ o.apply = op[p].apply /\ o.next = op[p].next /\ o.expected = op[p].expected
      BY <1>1, <2>1 DEF Ops
    <2>3. /\ pc' = [pc EXCEPT ![p] = "write files"] /\ op' = [op EXCEPT ![p] = o]
          /\ journal' = [leads |-> op[p].next, files |-> op[p].missing]
      BY <1>3, <2>1 DEF WriteJournal, Goto
    <2>4. pc'[p] = "write files" /\ op'[p] = o /\ Moves(p) BY <1>1, <2>3, Arrived DEF Steps, Writing
    <2>5. OursGenerated' /\ Sound(p)' BY <1>1, <1>2, <2>2, <2>4 DEF OursGenerated, Sound, Undoing
    <2>6. op[p].next \in Manifests /\ journal' \in Journals /\ journal' # None
      <3>1. op[p].next \in Manifests /\ op[p].missing \subseteq Files BY <1>1 DEF Sound, Ops
      <3>2. journal' \in Journals BY <2>3, <3>1 DEF Journals
      <3> QED BY <3>1, <3>2 DEF ScaffoldConstants
    <2>7. RepositoryTypes' BY <1>1, <2>6 DEF RepositoryTypes, bounds
    <2>8. ASSUME Clean' PROVE JournalOK' /\ Accounted' /\ WorkOK(p)'
      <3>1. Accounted /\ PlanOK(p) BY <1>1, <2>8
      <3>2. /\ journal = None /\ op[p].managed = Listed(manifest)
            /\ op[p].missing \cap op[p].managed = {}
            /\ Listed(op[p].expected) \cup op[p].missing \subseteq op[p].next.files
        BY <1>1, <1>2, <3>1 DEF PlanOK
      <3>3. journal'.leads = op[p].next /\ journal'.files = op[p].missing BY <2>3
      <3>4. JournalOK' BY <1>1, <2>6, <3>2, <3>3 DEF JournalOK, Listed
      <3>5. Accounted' BY <1>1, <3>1, <3>2 DEF Accounted, Listed, Recorded
      <3>6. op[p].missing \cap ours = {} BY <1>1, <1>3 DEF OursGenerated
      <3>7. WriteOK(p)' BY <1>1, <2>2, <2>3, <2>4, <2>6, <3>2, <3>6 DEF WriteOK, Listed
      <3>8. PlanOK(p)' /\ UndoOK(p)' BY <2>4 DEF PlanOK, UndoOK, Undoing
      <3> QED BY <3>4, <3>5, <3>7, <3>8 DEF WorkOK
    <2>9. Working(p) BY <1>1 DEF Working, Planning
    <2> QED BY <2>4, <2>5, <2>7, <2>8, <2>9, StepKeepsAddedInv DEF Achieves
  <1>4. CASE ~ \A f \in op[p].missing : disk[f] = "absent"
    <2>1. PICK o \in Ops : o = op[p] BY <1>1
    <2>2. /\ pc' = [pc EXCEPT ![p] = "leave"] /\ op' = [op EXCEPT ![p] = o]
          /\ UNCHANGED <<repository, ours, spoilt>> /\ RepositoryTypes'
      BY <1>1, <1>4, <2>1 DEF WriteJournal, Goto, RepositoryTypes, repository, bounds
    <2>3. pc'[p] = "leave" BY <2>2, Arrived DEF Steps, Leaving
    <2>4. PlanOK(p)' BY <2>3 DEF PlanOK
    <2> QED BY <1>1, <1>2, <2>1, <2>2, <2>4, PlanStep DEF Planning
  <1> QED BY <1>3, <1>4

\* A plan that fails leaves everything as it is.
LEMMA FailedPlanKeepsAddedInv ==
    ASSUME ScaffoldConstants, LockInv, LockInv', AddedInv, NEW p \in Procs, PlanFails(p)
    PROVE  AddedInv'
  <1>1. /\ op[p] \in Ops /\ pc[p] \in Planning /\ RepositoryTypes
        /\ op = [op EXCEPT ![p] = op[p]]
    BY Found DEF PlanFails
  <1>2. PICK o \in Ops : o = op[p] BY <1>1
  <1>3. /\ pc' = [pc EXCEPT ![p] = "leave"] /\ op' = [op EXCEPT ![p] = o]
        /\ UNCHANGED <<repository, ours, spoilt>>
    BY <1>1, <1>2 DEF PlanFails, Goto
  <1>4. RepositoryTypes'
    <2>1. inputs' = inputs /\ faults' \in 0..MaxFaults
      BY <1>1 DEF PlanFails, Fault, RepositoryTypes, bounds, ScaffoldConstants
    <2> QED BY <1>1, <1>3, <2>1 DEF RepositoryTypes, repository
  <1>5. pc'[p] = "leave" BY <1>3, Arrived DEF Steps, Leaving
  <1>6. PlanOK(p)' BY <1>5 DEF PlanOK
  <1> QED BY <1>1, <1>2, <1>3, <1>4, <1>6, PlanStep DEF Planning

-----------------------------------------------------------------------------
(* Writing                                                                   *)

\* What is under the writing instance's feet: its journal, and no file of it listed yet.
LEMMA Written ==
    ASSUME ScaffoldConstants, AddedInv, NEW p \in Procs, pc[p] \in Writing
    PROVE  /\ op[p] \in Ops /\ RepositoryTypes /\ OursGenerated /\ Working(p)
           /\ op[p].apply /\ ~op[p].kept
           /\ spoilt \subseteq spoilt' /\ Clean' =>
                  /\ Clean /\ JournalOK /\ Accounted /\ WriteOK(p)
                  /\ journal # None /\ Recorded(journal) = op[p].missing
                  /\ journal.files = op[p].missing /\ journal.leads = op[p].next
  <1>1. op[p] \in Ops /\ Sound(p) /\ OursGenerated /\ RepositoryTypes BY Found
  <1>2. op[p].apply /\ ~op[p].kept BY <1>1 DEF Sound, Writing, Undoing, Leaving
  <1>3. ASSUME spoilt \subseteq spoilt', Clean'
        PROVE  /\ Clean /\ JournalOK /\ Accounted /\ WriteOK(p)
               /\ journal # None /\ Recorded(journal) = op[p].missing
               /\ journal.files = op[p].missing /\ journal.leads = op[p].next
    <2>1. Clean /\ JournalOK /\ Accounted /\ WriteOK(p) BY <1>3, Found
    <2>2. journal = [leads |-> op[p].next, files |-> op[p].missing] /\ op[p].next \in Manifests
      BY <2>1 DEF WriteOK
    <2>3. journal \in Journals BY <1>1, <2>2 DEF Journals, Ops
    <2> QED BY <2>1, <2>2, <2>3 DEF Recorded, ScaffoldConstants
  <1> QED BY <1>1, <1>2, <1>3 DEF Working

\* An error sends back whatever of the missing files is not still to be written.
LEMMA RollBackKeepsAddedInv ==
    ASSUME ScaffoldConstants, LockInv, LockInv', AddedInv, NEW p \in Procs, RollBack(p),
           pc[p] \in Writing \ {"finish"}, UNCHANGED <<repository, ours, spoilt, inputs>>,
           faults' \in 0..MaxFaults
    PROVE  AddedInv'
  <1>1. /\ op[p] \in Ops /\ RepositoryTypes /\ OursGenerated /\ Working(p)
        /\ op[p].apply /\ ~op[p].kept
        /\ Clean' => /\ Clean /\ JournalOK /\ Accounted /\ WriteOK(p)
                     /\ journal # None /\ Recorded(journal) = op[p].missing
    BY Written
  <1>2. PICK L \in SUBSET Files :
          L = op[p].missing \ (IF pc[p] = "write files" THEN op[p].left ELSE {})
    BY <1>1 DEF Ops
  <1>3. PICK o \in Ops : o = [op[p] EXCEPT !.left = L, !.back = TRUE] BY <1>1 DEF Ops
  <1>4. o.left = L /\ o.back /\ o.kept = op[p].kept /\ o.apply = op[p].apply BY <1>1, <1>3 DEF Ops
  <1>5. pc' = [pc EXCEPT ![p] = "undo"] /\ op' = [op EXCEPT ![p] = o]
    BY <1>2, <1>3 DEF RollBack, Goto
  <1>6. pc'[p] = "undo" /\ op'[p] = o /\ Moves(p) BY <1>5, Arrived DEF Steps, Undoing
  <1>7. RepositoryTypes' /\ OursGenerated' /\ Sound(p)'
    BY <1>1, <1>4, <1>6 DEF RepositoryTypes, repository, OursGenerated, Sound
  <1>8. ASSUME Clean' PROVE JournalOK' /\ Accounted' /\ WorkOK(p)'
    <2>1. /\ JournalOK /\ Accounted /\ WriteOK(p) /\ journal # None
          /\ Recorded(journal) = op[p].missing
      BY <1>1, <1>8
    <2>2. JournalOK' /\ Accounted' BY <2>1 DEF JournalOK, Accounted, repository, Listed, Recorded
    <2>3. /\ op[p].missing \cap Listed(manifest) = {}
          /\ pc[p] = "write files" => op[p].left \cap ours = {}
      BY <2>1 DEF WriteOK
    <2>4. ours \cap Recorded(journal) \subseteq o.left /\ o.left \cap Listed(manifest) = {}
      BY <1>2, <1>4, <2>1, <2>3
    <2>5. UndoOK(p)' BY <1>4, <1>6, <2>1, <2>4 DEF UndoOK, repository, Listed, Recorded
    <2>6. PlanOK(p)' /\ WriteOK(p)' BY <1>6 DEF PlanOK, WriteOK, Writing
    <2> QED BY <2>2, <2>5, <2>6 DEF WorkOK
  <1> QED BY <1>1, <1>6, <1>7, <1>8, StepKeepsAddedInv DEF Achieves

\* A step of the writing that moves on and leaves repository and local values alone.
LEMMA WritingGoesOn ==
    ASSUME ScaffoldConstants, LockInv, LockInv', AddedInv, NEW p \in Procs, pc[p] \in Writing,
           NEW at \in Writing, pc' = [pc EXCEPT ![p] = at],
           UNCHANGED <<repository, op, ours, spoilt, bounds>>,
           WriteOK(p) => WriteOK(p)'
    PROVE  AddedInv'
  <1>1. /\ op[p] \in Ops /\ RepositoryTypes /\ OursGenerated /\ Working(p)
        /\ op[p].apply /\ ~op[p].kept
        /\ Clean' => Clean /\ JournalOK /\ Accounted /\ WriteOK(p)
    BY Written
  <1>2. PICK o \in Ops : o = op[p] BY <1>1
  <1>3. op' = [op EXCEPT ![p] = o] BY <1>2, Found
  <1>4. pc'[p] = at /\ op'[p] = op[p] /\ Moves(p) BY <1>2, <1>3, Arrived DEF Steps
  <1>5. RepositoryTypes' /\ OursGenerated' /\ Sound(p)'
    BY <1>1, <1>4 DEF RepositoryTypes, repository, bounds, OursGenerated, Sound, Writing, Undoing
  <1>6. ASSUME Clean' PROVE JournalOK' /\ Accounted' /\ WorkOK(p)'
    <2>1. JournalOK' /\ Accounted'
      BY <1>1, <1>6 DEF JournalOK, Accounted, repository, Listed, Recorded
    <2>2. PlanOK(p)' /\ UndoOK(p)' BY <1>4 DEF PlanOK, UndoOK, Writing, Undoing
    <2> QED BY <1>1, <1>6, <2>1, <2>2 DEF WorkOK
  <1> QED BY <1>1, <1>4, <1>5, <1>6, StepKeepsAddedInv DEF Achieves

\* A file that is written is of the journal on disk.
LEMMA WriteFileKeepsAddedInv ==
    ASSUME ScaffoldConstants, LockInv, LockInv', AddedInv, NEW p \in Procs, WriteFile(p)
    PROVE  AddedInv'
  <1>1. pc[p] = "write files" /\ pc[p] \in Writing BY DEF WriteFile, Writing
  <1>2. UNCHANGED <<manifest, journal, pc, spoilt, bounds>> /\ spoilt \subseteq spoilt'
    BY DEF WriteFile
  <1>3. /\ op[p] \in Ops /\ RepositoryTypes /\ OursGenerated /\ Working(p)
        /\ op[p].apply /\ ~op[p].kept
        /\ Clean' => /\ Clean /\ JournalOK /\ Accounted /\ WriteOK(p)
                     /\ journal # None /\ Recorded(journal) = op[p].missing
    BY <1>1, <1>2, Written
  <1>4. PICK f \in First(op[p].left) :
          /\ disk' = [disk EXCEPT ![f] = "generated"] /\ ours' = ours \cup {f}
          /\ op' = [op EXCEPT ![p].left = @ \ {f}]
    BY DEF WriteFile
  <1>5. f \in op[p].left /\ f \in Files /\ op[p].left \ {f} \subseteq Files BY <1>3 DEF First, Ops
  <1>6. PICK o \in Ops : o = [op[p] EXCEPT !.left = @ \ {f}] BY <1>3, <1>5 DEF Ops
  <1>7. /\ o.left = op[p].left \ {f} /\ o.missing = op[p].missing /\ o.kept = op[p].kept
        /\ o.apply = op[p].apply /\ o.next = op[p].next /\ o.expected = op[p].expected
    BY <1>3, <1>6 DEF Ops
  <1>8. pc' = [pc EXCEPT ![p] = "write files"] /\ op' = [op EXCEPT ![p] = o]
    BY <1>1, <1>2, <1>4, <1>6, Found
  <1>9. pc'[p] = "write files" /\ op'[p] = o /\ Moves(p) BY <1>2, <1>8, Arrived DEF Steps, Writing
  <1>10. RepositoryTypes' /\ OursGenerated'
    BY <1>2, <1>3, <1>4, <1>5 DEF RepositoryTypes, OursGenerated, bounds, Contents
  <1>11. Sound(p)' BY <1>3, <1>7, <1>9 DEF Sound, Undoing
  <1>12. ASSUME Clean' PROVE JournalOK' /\ Accounted' /\ WorkOK(p)'
    <2>1. /\ JournalOK /\ Accounted /\ WriteOK(p) /\ Recorded(journal) = op[p].missing
      BY <1>3, <1>12
    <2>2. op[p].left \subseteq op[p].missing BY <1>1, <2>1 DEF WriteOK
    <2>3. JournalOK' /\ Accounted'
      BY <1>2, <1>4, <1>5, <2>1, <2>2 DEF JournalOK, Accounted, Listed, Recorded
    <2>4. WriteOK(p)' BY <1>1, <1>2, <1>4, <1>7, <1>9, <2>1 DEF WriteOK, Listed
    <2>5. PlanOK(p)' /\ UndoOK(p)' BY <1>9 DEF PlanOK, UndoOK, Undoing
    <2> QED BY <2>3, <2>4, <2>5 DEF WorkOK
  <1> QED BY <1>3, <1>9, <1>10, <1>11, <1>12, StepKeepsAddedInv DEF Achieves

\* The manifest that is published lists what was listed and what was written.
LEMMA PublishKeepsAddedInv ==
    ASSUME ScaffoldConstants, LockInv, LockInv', AddedInv, NEW p \in Procs, Publish(p)
    PROVE  AddedInv'
  <1>1. pc[p] = "publish" /\ pc[p] \in Writing BY DEF Publish, Writing
  <1>2. /\ UNCHANGED <<disk, journal, op, ours, spoilt, bounds>> /\ spoilt \subseteq spoilt'
        /\ manifest' = op[p].next /\ pc' = [pc EXCEPT ![p] = "finish"]
    BY DEF Publish, Goto
  <1>3. /\ op[p] \in Ops /\ RepositoryTypes /\ OursGenerated /\ Working(p)
        /\ op[p].apply /\ ~op[p].kept
        /\ Clean' => /\ Clean /\ JournalOK /\ Accounted /\ WriteOK(p)
                     /\ journal # None /\ Recorded(journal) = op[p].missing
                     /\ journal.files = op[p].missing /\ journal.leads = op[p].next
    BY <1>1, <1>2, Written
  <1>4. PICK o \in Ops : o = op[p] BY <1>3
  <1>5. op' = [op EXCEPT ![p] = o] BY <1>2, <1>4, Found
  <1>6. pc'[p] = "finish" /\ op'[p] = op[p] /\ Moves(p)
    BY <1>2, <1>4, <1>5, Arrived DEF Steps, Writing
  <1>7. RepositoryTypes' /\ OursGenerated' /\ Sound(p)'
    BY <1>2, <1>3, <1>6 DEF RepositoryTypes, bounds, OursGenerated, Sound, Writing, Undoing, Ops
  <1>8. ASSUME Clean' PROVE JournalOK' /\ Accounted' /\ WorkOK(p)'
    <2>1. /\ JournalOK /\ Accounted /\ WriteOK(p) /\ Recorded(journal) = op[p].missing
          /\ journal.files = op[p].missing /\ journal.leads = op[p].next
      BY <1>3, <1>8
    <2>2. /\ op[p].next \in Manifests /\ manifest = op[p].expected
          /\ Listed(op[p].expected) \cup op[p].missing \subseteq op[p].next.files
      BY <1>1, <2>1 DEF WriteOK
    <2>3. Listed(manifest)' = op[p].next.files BY <1>2, <2>2 DEF Listed, ScaffoldConstants
    <2>4. JournalOK' BY <1>2, <2>1, <2>2 DEF JournalOK
    <2>5. Accounted' BY <1>2, <2>1, <2>2, <2>3 DEF Accounted, Recorded
    <2>6. WriteOK(p)' BY <1>1, <1>2, <1>6, <2>1 DEF WriteOK, Listed
    <2>7. PlanOK(p)' /\ UndoOK(p)' BY <1>6 DEF PlanOK, UndoOK, Undoing
    <2> QED BY <2>4, <2>5, <2>6, <2>7 DEF WorkOK
  <1> QED BY <1>3, <1>6, <1>7, <1>8, StepKeepsAddedInv DEF Achieves

\* The rest of the writing: on to the manifest, or back.
LEMMA WritingKeepsAddedInv ==
    ASSUME ScaffoldConstants, LockInv, LockInv', AddedInv, NEW p \in Procs,
           FilesWritten(p) \/ CompareManifest(p) \/ WriteFileFails(p) \/ PublishFails(p)
    PROVE  AddedInv'
  <1>1. /\ op[p] \in Ops /\ RepositoryTypes /\ op = [op EXCEPT ![p] = op[p]]
        /\ pc \in [Procs -> Steps]
    BY Found DEF AddedInv, TypeOK
  <1>2. CASE FilesWritten(p)
    <2>1. /\ pc[p] = "write files" /\ pc' = [pc EXCEPT ![p] = "compare"]
          /\ UNCHANGED <<repository, op, ours, spoilt, bounds>>
      BY <1>2 DEF FilesWritten, Goto
    <2>2. pc'[p] = "compare" BY <1>1, <2>1
    <2>3. WriteOK(p) => WriteOK(p)' BY <2>1, <2>2 DEF WriteOK, Writing, repository, Listed
    <2> QED BY <2>1, <2>3, WritingGoesOn DEF Writing
  <1>3. CASE CompareManifest(p) /\ manifest = op[p].expected
    <2>1. PICK at \in {"finish", "publish"} :
            at = IF op[p].next = op[p].expected THEN "finish" ELSE "publish"
      OBVIOUS
    <2>2. /\ pc[p] = "compare" /\ pc' = [pc EXCEPT ![p] = at]
          /\ UNCHANGED <<repository, op, ours, spoilt, bounds>>
      BY <1>3, <2>1 DEF CompareManifest, Goto
    <2>3. pc'[p] = at BY <1>1, <2>2
    <2>4. WriteOK(p) => WriteOK(p)'
      BY <1>3, <2>1, <2>2, <2>3 DEF WriteOK, Writing, repository, Listed
    <2> QED BY <2>1, <2>2, <2>4, WritingGoesOn DEF Writing
  <1>4. CASE CompareManifest(p) /\ manifest # op[p].expected
    <2>1. /\ RollBack(p) /\ UNCHANGED <<repository, ours, spoilt, bounds>> /\ pc[p] = "compare"
      BY <1>4 DEF CompareManifest
    <2> QED BY <1>1, <2>1, RollBackKeepsAddedInv DEF Writing, bounds, RepositoryTypes
  <1>5. CASE WriteFileFails(p) \/ PublishFails(p)
    <2>1. /\ RollBack(p) /\ UNCHANGED <<repository, ours, spoilt>>
          /\ pc[p] \in {"write files", "publish"}
      BY <1>5 DEF WriteFileFails, PublishFails
    <2>2. UNCHANGED inputs /\ faults' \in 0..MaxFaults
      <3>1. MaxFaults \in Nat /\ faults \in 0..MaxFaults
        BY <1>1 DEF RepositoryTypes, ScaffoldConstants
      <3>2. UNCHANGED bounds \/ Fault BY <1>5 DEF WriteFileFails, PublishFails
      <3>3. CASE UNCHANGED bounds BY <3>1, <3>3 DEF bounds
      <3>4. CASE Fault BY <3>1, <3>4 DEF Fault
      <3> QED BY <3>2, <3>3, <3>4
    <2> QED BY <2>1, <2>2, RollBackKeepsAddedInv DEF Writing
  <1> QED BY <1>2, <1>3, <1>4, <1>5

-----------------------------------------------------------------------------
(* Undoing                                                                   *)

\* Files are numbers: no two of them are the last.
LEMMA OneLast ==
    ASSUME ScaffoldConstants, NEW S \in SUBSET Files, NEW f \in Last(S), NEW g \in Last(S)
    PROVE  f = g
  <1>1. f \in 1..Cardinality(Files) /\ g \in 1..Cardinality(Files) /\ f <= g /\ g <= f
    BY DEF Last, ScaffoldConstants
  <1>2. \A c, i : i \in 1..c => i \in Int OBVIOUS
  <1> QED BY <1>1, <1>2

\* What is under the undoing instance's feet.
LEMMA Undone ==
    ASSUME ScaffoldConstants, AddedInv, NEW p \in Procs, pc[p] \in Undoing
    PROVE  /\ op[p] \in Ops /\ RepositoryTypes /\ OursGenerated /\ Working(p) /\ op[p].apply
           /\ ~op[p].back => ~op[p].kept
           /\ op = [op EXCEPT ![p] = op[p]] /\ pc = [pc EXCEPT ![p] = pc[p]]
           /\ spoilt \subseteq spoilt' /\ Clean' =>
                  Clean /\ JournalOK /\ Accounted /\ UndoOK(p)
  BY Found DEF Sound, Working

\* A step of the undoing that leaves the repository alone.
LEMMA UndoingGoesOn ==
    ASSUME ScaffoldConstants, LockInv, LockInv', AddedInv, NEW p \in Procs, pc[p] \in Undoing,
           NEW at \in Undoing \cup {"forget", "leave"}, NEW o \in Ops,
           pc' = [pc EXCEPT ![p] = at], op' = [op EXCEPT ![p] = o],
           UNCHANGED <<repository, ours>>, spoilt \subseteq spoilt', RepositoryTypes',
           o.apply = op[p].apply,
           o.kept => at # "forget" /\ (o.back \/ at = "leave"),
           Clean' /\ UndoOK(p) => PlanOK(p)' /\ UndoOK(p)'
    PROVE  AddedInv'
  <1>1. /\ OursGenerated /\ Working(p) /\ op[p].apply
        /\ Clean' => Clean /\ JournalOK /\ Accounted /\ UndoOK(p)
    BY Undone
  <1>2. pc'[p] = at /\ op'[p] = o /\ Moves(p) BY Arrived DEF Steps, Planning, Leaving
  <1>3. Sound(p)' BY <1>1, <1>2 DEF Sound, Undoing, Leaving
  <1>4. OursGenerated' /\ (Clean' => JournalOK' /\ Accounted')
    BY <1>1 DEF OursGenerated, JournalOK, Accounted, repository, Listed, Recorded
  <1>5. WriteOK(p)' BY <1>2 DEF WriteOK, Writing, Undoing
  <1>6. Clean' => WorkOK(p)' BY <1>1, <1>5 DEF WorkOK
  <1> QED BY <1>1, <1>2, <1>3, <1>4, <1>6, StepKeepsAddedInv DEF Achieves

\* A file that is not as generated is not ours, and stays.
LEMMA CheckKeepsAddedInv ==
    ASSUME ScaffoldConstants, LockInv, LockInv', AddedInv, NEW p \in Procs, CheckUndo(p)
    PROVE  AddedInv'
  <1>1. pc[p] = "undo" /\ pc[p] \in Undoing /\ UNCHANGED <<repository, ours>>
    BY DEF CheckUndo, Undoing
  <1>2. /\ op[p] \in Ops /\ RepositoryTypes /\ OursGenerated /\ op[p].apply
        /\ ~op[p].back => ~op[p].kept
        /\ op = [op EXCEPT ![p] = op[p]] /\ pc = [pc EXCEPT ![p] = pc[p]]
    BY <1>1, Undone
  <1>3. PICK f \in Last(op[p].left) :
          \/ disk[f] = "generated" /\ Goto(p, "unlink") /\ UNCHANGED <<op, spoilt, bounds>>
          \/ /\ IF disk[f] # "generated" THEN UNCHANGED <<spoilt, bounds>>
                ELSE Fault /\ Befalls("unread")
             /\ op' = [op EXCEPT ![p].left = @ \ {f}]
             /\ UNCHANGED pc
    BY DEF CheckUndo
  <1>4. CASE disk[f] = "generated" /\ Goto(p, "unlink") /\ UNCHANGED <<op, spoilt, bounds>>
    <2>1. PICK o \in Ops : o = op[p] BY <1>2
    <2>2. pc' = [pc EXCEPT ![p] = "unlink"] /\ op' = [op EXCEPT ![p] = o]
      BY <1>2, <1>4, <2>1 DEF Goto
    <2>3. RepositoryTypes' /\ spoilt \subseteq spoilt'
      BY <1>1, <1>2, <1>4 DEF RepositoryTypes, repository, bounds
    <2>4. pc'[p] = "unlink" /\ op'[p] = op[p] BY <2>1, <2>2, <2>3, Arrived DEF Steps, Undoing
    <2>5. \A g \in Last(op[p].left) : disk[g] = "generated" BY <1>2, <1>3, <1>4, OneLast DEF Ops
    <2>6. UndoOK(p) => PlanOK(p)' /\ UndoOK(p)'
      <3>1. PlanOK(p)' BY <2>4 DEF PlanOK
      <3> QED BY <1>1, <2>4, <2>5, <3>1 DEF UndoOK, repository, Listed, Recorded
    <2> QED BY <1>1, <1>2, <2>1, <2>2, <2>3, <2>6, UndoingGoesOn DEF Undoing
  <1>5. CASE /\ IF disk[f] # "generated" THEN UNCHANGED <<spoilt, bounds>>
                ELSE Fault /\ Befalls("unread")
             /\ op' = [op EXCEPT ![p].left = @ \ {f}]
             /\ UNCHANGED pc
    <2>1. PICK o \in Ops : o = [op[p] EXCEPT !.left = @ \ {f}] BY <1>2 DEF Ops
    <2>2. /\ o.left = op[p].left \ {f} /\ o.kept = op[p].kept /\ o.apply = op[p].apply
          /\ o.back = op[p].back /\ o.managed = op[p].managed
      BY <1>2, <2>1 DEF Ops
    <2>3. pc' = [pc EXCEPT ![p] = "undo"] /\ op' = [op EXCEPT ![p] = o] BY <1>1, <1>2, <1>5, <2>1
    <2>4. RepositoryTypes' /\ spoilt \subseteq spoilt'
      <3>1. spoilt' \subseteq Accidents /\ spoilt \subseteq spoilt' /\ UNCHANGED inputs
        BY <1>2, <1>5 DEF RepositoryTypes, Befalls, Accidents, Fault, bounds
      <3>2. faults' \in 0..MaxFaults
        BY <1>2, <1>5 DEF RepositoryTypes, Fault, bounds, ScaffoldConstants
      <3> QED BY <1>1, <1>2, <3>1, <3>2 DEF RepositoryTypes, repository
    <2>5. pc'[p] = "undo" /\ op'[p] = o BY <2>3, <2>4, Arrived DEF Steps, Undoing
    <2>6. ASSUME Clean', UndoOK(p) PROVE PlanOK(p)' /\ UndoOK(p)'
      <3>1. disk[f] # "generated" BY <1>5, <2>6 DEF Clean, Befalls
      <3>2. f \notin ours BY <1>2, <3>1 DEF OursGenerated
      <3>3. PlanOK(p)' BY <2>5 DEF PlanOK
      <3> QED BY <1>1, <2>2, <2>5, <2>6, <3>2, <3>3 DEF UndoOK, repository, Listed, Recorded
    <2> QED BY <1>1, <1>2, <2>2, <2>3, <2>4, <2>6, UndoingGoesOn DEF Undoing
  <1> QED BY <1>3, <1>4, <1>5

\* A file that is removed is not ours any more, nor to be undone.
LEMMA UnlinkKeepsAddedInv ==
    ASSUME ScaffoldConstants, LockInv, LockInv', AddedInv, NEW p \in Procs, Unlink(p)
    PROVE  AddedInv'
  <1>1. pc[p] = "unlink" /\ pc[p] \in Undoing BY DEF Unlink, Undoing
  <1>2. UNCHANGED <<manifest, journal, spoilt, bounds>> /\ spoilt \subseteq spoilt' BY DEF Unlink
  <1>3. /\ op[p] \in Ops /\ RepositoryTypes /\ OursGenerated /\ Working(p) /\ op[p].apply
        /\ ~op[p].back => ~op[p].kept
        /\ Clean' => Clean /\ JournalOK /\ Accounted /\ UndoOK(p)
    BY <1>1, <1>2, Undone
  <1>4. PICK f \in Last(op[p].left) :
          /\ disk' = [disk EXCEPT ![f] = "absent"] /\ ours' = ours \ {f}
          /\ op' = [op EXCEPT ![p].left = @ \ {f}]
    BY DEF Unlink
  <1>5. PICK o \in Ops : o = [op[p] EXCEPT !.left = @ \ {f}] BY <1>3 DEF Ops
  <1>6. /\ o.left = op[p].left \ {f} /\ o.kept = op[p].kept /\ o.apply = op[p].apply
        /\ o.back = op[p].back /\ o.managed = op[p].managed
    BY <1>3, <1>5 DEF Ops
  <1>7. pc' = [pc EXCEPT ![p] = "undo"] /\ op' = [op EXCEPT ![p] = o]
    BY <1>3, <1>4, <1>5, Found DEF Unlink, Goto
  <1>8. pc'[p] = "undo" /\ op'[p] = o /\ Moves(p) BY <1>2, <1>7, Arrived DEF Steps, Undoing
  <1>9. RepositoryTypes' /\ OursGenerated'
    BY <1>2, <1>3, <1>4 DEF RepositoryTypes, OursGenerated, bounds, Contents
  <1>10. Sound(p)' BY <1>3, <1>6, <1>8 DEF Sound, Undoing
  <1>11. ASSUME Clean' PROVE JournalOK' /\ Accounted' /\ WorkOK(p)'
    <2>1. JournalOK /\ Accounted /\ UndoOK(p) BY <1>3, <1>11
    <2>2. JournalOK' /\ Accounted' BY <1>2, <1>4, <2>1 DEF JournalOK, Accounted, Listed, Recorded
    <2>3. UndoOK(p)' BY <1>1, <1>2, <1>4, <1>6, <1>8, <2>1 DEF UndoOK, Listed, Recorded
    <2>4. PlanOK(p)' /\ WriteOK(p)' BY <1>8 DEF PlanOK, WriteOK, Writing
    <2> QED BY <2>2, <2>3, <2>4 DEF WorkOK
  <1> QED BY <1>3, <1>8, <1>9, <1>10, <1>11, StepKeepsAddedInv DEF Achieves

\* A file that could not be removed is kept, and so is the journal.
LEMMA KeptKeepsAddedInv ==
    ASSUME ScaffoldConstants, LockInv, LockInv', AddedInv, NEW p \in Procs, UnlinkFails(p)
    PROVE  AddedInv'
  <1>1. pc[p] = "unlink" /\ pc[p] \in Undoing /\ UNCHANGED <<repository, ours, spoilt>>
    BY DEF UnlinkFails, Undoing
  <1>2. op[p] \in Ops /\ RepositoryTypes BY <1>1, Undone
  <1>3. PICK f \in Last(op[p].left) :
          /\ UNCHANGED bounds \/ Fault
          /\ op' = [op EXCEPT ![p].left = @ \ {f}, ![p].kept = TRUE]
    BY DEF UnlinkFails
  <1>4. PICK L \in SUBSET Files : L = op[p].left \ {f} BY <1>2 DEF Ops
  <1>5. PICK o \in Ops : o = [op[p] EXCEPT !.left = L, !.kept = TRUE] BY <1>2 DEF Ops
  <1>6. /\ o.left = L /\ o.kept /\ o.apply = op[p].apply
        /\ o.back = op[p].back /\ o.managed = op[p].managed
    BY <1>2, <1>5 DEF Ops
  <1>7. PICK at \in {"undo", "leave"} : at = IF op[p].back THEN "undo" ELSE "leave" OBVIOUS
  <1>8. op' = [op EXCEPT ![p] = o]
    <2>1. op \in [Procs -> Ops] BY DEF AddedInv, TypeOK
    <2> QED BY <1>3, <1>4, <1>5, <2>1 DEF Ops
  <1>9. pc' = [pc EXCEPT ![p] = at] BY <1>7 DEF UnlinkFails, Goto
  <1>10. RepositoryTypes'
    <2>1. MaxFaults \in Nat /\ faults \in 0..MaxFaults
      BY <1>2 DEF RepositoryTypes, ScaffoldConstants
    <2>2. UNCHANGED inputs /\ faults' \in 0..MaxFaults BY <1>3, <2>1 DEF bounds, Fault
    <2> QED BY <1>1, <1>2, <2>2 DEF RepositoryTypes, repository
  <1>11. pc'[p] = at /\ op'[p] = o BY <1>1, <1>7, <1>8, <1>9, Arrived DEF Steps, Undoing, Leaving
  <1>12. UndoOK(p) => PlanOK(p)' /\ UndoOK(p)'
    <2>1. PlanOK(p)' BY <1>7, <1>11 DEF PlanOK
    <2> QED BY <1>1, <1>4, <1>6, <1>7, <1>11, <2>1 DEF UndoOK, Undoing, repository, Listed, Recorded
  <1>13. o.kept => at # "forget" /\ (o.back \/ at = "leave") BY <1>6, <1>7
  <1> QED BY <1>1, <1>6, <1>7, <1>8, <1>9, <1>10, <1>12, <1>13, UndoingGoesOn DEF Undoing

\* When nothing is left to undo, nothing of the journal is ours.
LEMMA UndoneKeepsAddedInv ==
    ASSUME ScaffoldConstants, LockInv, LockInv', AddedInv, NEW p \in Procs, UndoEnds(p)
    PROVE  AddedInv'
  <1>1. /\ pc[p] = "undo" /\ pc[p] \in Undoing /\ op[p].left = {}
        /\ UNCHANGED <<repository, op, ours, spoilt, bounds>>
    BY DEF UndoEnds, Undoing
  <1>2. op[p] \in Ops /\ RepositoryTypes /\ (~op[p].back => ~op[p].kept) BY <1>1, Undone
  <1>3. PICK at \in {"undone", "forget"} : at = IF op[p].back THEN "undone" ELSE "forget" OBVIOUS
  <1>4. PICK o \in Ops : o = op[p] BY <1>2
  <1>5. pc' = [pc EXCEPT ![p] = at] /\ op' = [op EXCEPT ![p] = o]
    BY <1>1, <1>3, <1>4, Found DEF UndoEnds, Goto
  <1>6. RepositoryTypes' BY <1>1, <1>2 DEF RepositoryTypes, repository, bounds
  <1>7. pc'[p] = at /\ op'[p] = op[p]
    BY <1>1, <1>3, <1>4, <1>5, Arrived DEF Steps, Undoing, Planning
  <1>8. ASSUME UndoOK(p) PROVE PlanOK(p)' /\ UndoOK(p)'
    <2>1. /\ ~op[p].kept => ours \cap Recorded(journal) = {}
          /\ journal # None /\ op[p].left \cap Listed(manifest) = {}
          /\ ~op[p].back => op[p].managed = Listed(manifest)
      BY <1>1, <1>8 DEF UndoOK
    <2>2. at = "forget" => ours \cap journal.files = {} /\ op[p].managed = Listed(manifest)
      BY <1>2, <1>3, <2>1 DEF Recorded
    <2>3. PlanOK(p)' BY <1>1, <1>3, <1>7, <2>2 DEF PlanOK, repository, Listed
    <2>4. UndoOK(p)' BY <1>1, <1>3, <1>7, <2>1 DEF UndoOK, Undoing, repository, Listed, Recorded
    <2> QED BY <2>3, <2>4
  <1>9. o.kept => at # "forget" /\ (o.back \/ at = "leave") BY <1>2, <1>3, <1>4
  <1>10. spoilt \subseteq spoilt' /\ o.apply = op[p].apply /\ at \in Undoing \cup {"forget"}
    BY <1>1, <1>3, <1>4 DEF Undoing
  <1> QED BY <1>1, <1>5, <1>6, <1>8, <1>9, <1>10, UndoingGoesOn

\* The journal goes when the manifest lists its files, or nothing of it is ours.
LEMMA FinishKeepsAddedInv ==
    ASSUME ScaffoldConstants, LockInv, LockInv', AddedInv, NEW p \in Procs, Finish(p)
    PROVE  AddedInv'
  <1>1. /\ pc[p] \in {"finish", "undone"} /\ pc' = [pc EXCEPT ![p] = "leave"]
        /\ UNCHANGED <<disk, manifest, op, ours, spoilt>> /\ spoilt \subseteq spoilt'
        /\ \/ journal' = None /\ ~op[p].kept /\ UNCHANGED bounds
           \/ UNCHANGED journal /\ (UNCHANGED bounds \/ Fault)
    BY DEF Finish, Goto
  <1>2. /\ op[p] \in Ops /\ RepositoryTypes /\ OursGenerated /\ Sound(p)
        /\ Clean' => Clean /\ JournalOK /\ Accounted /\ WriteOK(p) /\ UndoOK(p)
    BY <1>1, Found
  <1>3. PICK o \in Ops : o = op[p] BY <1>2
  <1>4. op' = [op EXCEPT ![p] = o] BY <1>1, <1>3, Found
  <1>5. pc'[p] = "leave" /\ op'[p] = op[p] /\ Moves(p)
    BY <1>1, <1>3, <1>4, Arrived DEF Steps, Leaving
  <1>6. RepositoryTypes' /\ OursGenerated'
    <2>1. MaxFaults \in Nat /\ faults \in 0..MaxFaults
      BY <1>2 DEF RepositoryTypes, ScaffoldConstants
    <2>2. UNCHANGED inputs /\ faults' \in 0..MaxFaults BY <1>1, <2>1 DEF bounds, Fault
    <2>3. journal' \in Journals \cup {None} BY <1>1, <1>2 DEF RepositoryTypes
    <2> QED BY <1>1, <1>2, <2>2, <2>3 DEF RepositoryTypes, OursGenerated
  <1>7. Sound(p)' BY <1>5 DEF Sound, Writing, Undoing, Leaving
  <1>8. ASSUME Clean' PROVE JournalOK' /\ Accounted' /\ WorkOK(p)'
    <2>1. JournalOK /\ Accounted /\ WriteOK(p) /\ UndoOK(p) BY <1>2, <1>8
    <2>2. ASSUME journal' = None, ~op[p].kept PROVE ours \cap Recorded(journal) \subseteq Listed(manifest)
      <3>1. CASE pc[p] = "finish"
        <4>1. /\ op[p].next \in Manifests /\ op[p].missing \subseteq op[p].next.files
              /\ journal = [leads |-> op[p].next, files |-> op[p].missing]
              /\ manifest = op[p].next
          BY <2>1, <3>1 DEF WriteOK, Writing
        <4>2. Listed(manifest) = op[p].next.files /\ Recorded(journal) \subseteq op[p].missing
          BY <4>1 DEF Listed, Recorded, ScaffoldConstants
        <4> QED BY <4>1, <4>2
      <3>2. CASE pc[p] = "undone" BY <2>1, <2>2, <3>2 DEF UndoOK, Undoing
      <3> QED BY <1>1, <3>1, <3>2
    <2>3. JournalOK' /\ Accounted'
      <3>1. CASE UNCHANGED journal BY <1>1, <2>1, <3>1 DEF JournalOK, Accounted, Listed, Recorded
      <3>2. CASE journal' = None /\ ~op[p].kept
        BY <1>1, <2>1, <2>2, <3>2 DEF JournalOK, Accounted, Listed, Recorded
      <3> QED BY <1>1, <3>1, <3>2
    <2>4. WorkOK(p)' BY <1>5 DEF WorkOK, PlanOK, WriteOK, UndoOK, Writing, Undoing
    <2> QED BY <2>3, <2>4
  <1>9. Working(p) BY <1>1 DEF Working, Writing, Undoing
  <1> QED BY <1>5, <1>6, <1>7, <1>8, <1>9, StepKeepsAddedInv DEF Achieves

-----------------------------------------------------------------------------
(* The theorems                                                              *)

LEMMA InitAddedInv == ScaffoldConstants /\ Init => AddedInv
  <1> SUFFICES ASSUME ScaffoldConstants, Init PROVE AddedInv OBVIOUS
  <1>1. /\ pc = [p \in Procs |-> "idle"] /\ node = [p \in Procs |-> None]
        /\ op = [p \in Procs |-> NoOp] /\ ours = {} /\ spoilt = {} /\ journal = None
        /\ inputs = 0 /\ faults = 0 /\ disk \in [Files -> Contents]
        /\ manifest \in [files : SUBSET Files, stamp : {0}] \cup {None}
    BY DEF Init
  <1>2. LockInv BY InitLockInv
  <1>3. NoOp \in Ops /\ ~NoOp.kept BY NoOpIsOp
  <1>4. TypeOK
    <2>1. MaxInputs \in Nat /\ MaxFaults \in Nat BY DEF ScaffoldConstants
    <2>2. manifest \in Manifests \cup {None} BY <1>1, <2>1 DEF Manifests
    <2>3. pc \in [Procs -> Steps] /\ op \in [Procs -> Ops] BY <1>1, <1>3 DEF Steps
    <2> QED BY <1>1, <1>2, <2>1, <2>2, <2>3 DEF TypeOK, LockInv, LockTypes
  <1>5. OursGenerated /\ JournalOK /\ Accounted BY <1>1 DEF OursGenerated, JournalOK, Accounted
  <1>6. ASSUME NEW p \in Procs PROVE Sound(p) /\ WorkOK(p)
    <2>1. pc[p] = "idle" /\ ~op[p].kept BY <1>1, <1>3
    <2> QED BY <2>1 DEF Sound, WorkOK, PlanOK, WriteOK, UndoOK, Writing, Undoing
  <1> QED BY <1>4, <1>5, <1>6 DEF AddedInv

LEMMA NextAddedInv ==
    ScaffoldConstants /\ LockInv /\ LockInv' /\ AddedInv /\ [Next]_vars => AddedInv'
  <1> SUFFICES ASSUME ScaffoldConstants, LockInv, LockInv', AddedInv, [Next]_vars
               PROVE  AddedInv'
    OBVIOUS
  <1>1. ASSUME NEW p \in Procs, \E apply \in BOOLEAN : Start(p, apply) PROVE AddedInv'
    BY <1>1, StartKeepsAddedInv
  <1>2. ASSUME NEW p \in Procs, Locking(p) PROVE AddedInv' BY <1>2, LockingKeepsAddedInv
  <1>3. ASSUME NEW p \in Procs, Applying(p) PROVE AddedInv'
    BY <1>3, ReadKeepsAddedInv, RecoverKeepsAddedInv, ForgetKeepsAddedInv, InspectKeepsAddedInv,
      StageKeepsAddedInv, JournalKeepsAddedInv, FailedPlanKeepsAddedInv, WriteFileKeepsAddedInv,
      PublishKeepsAddedInv, WritingKeepsAddedInv, CheckKeepsAddedInv, UnlinkKeepsAddedInv,
      KeptKeepsAddedInv, UndoneKeepsAddedInv, FinishKeepsAddedInv DEF Applying
  <1>4. ASSUME NEW p \in Procs, Crash(p) PROVE AddedInv' BY <1>4, CrashKeepsAddedInv
  <1>5. CASE User BY <1>5, EditFileKeepsAddedInv, EditManifestKeepsAddedInv DEF User
  <1>6. CASE UNCHANGED vars
    <2>1. UNCHANGED <<disk, manifest, journal, pc, op, ours, spoilt, inputs, faults>>
      BY <1>6 DEF vars, repository, bounds
    <2>2. TypeOK' BY <2>1 DEF AddedInv, TypeOK, LockInv, LockTypes
    <2>3. OursGenerated' /\ (\A p \in Procs : Sound(p)') /\ (Clean' => JournalOK' /\ Accounted')
      BY <2>1 DEF AddedInv, OursGenerated, Sound, Clean, JournalOK, Accounted, Listed, Recorded
    <2>4. ASSUME Clean', NEW p \in Procs PROVE WorkOK(p)'
      <3>1. WorkOK(p) BY <2>1, <2>4 DEF AddedInv, Clean
      <3>2. PlanOK(p)' BY <2>1, <3>1 DEF WorkOK, PlanOK, Listed
      <3>3. WriteOK(p)' BY <2>1, <3>1 DEF WorkOK, WriteOK, Listed
      <3>4. UndoOK(p)' BY <2>1, <3>1 DEF WorkOK, UndoOK, Listed, Recorded, Last
      <3> QED BY <3>2, <3>3, <3>4 DEF WorkOK
    <2> QED BY <2>2, <2>3, <2>4 DEF AddedInv
  <1> QED BY <1>1, <1>2, <1>3, <1>4, <1>5, <1>6 DEF Next

LEMMA AddedInvAlways == ASSUME ScaffoldConstants PROVE Spec => [](LockInv /\ AddedInv)
  <1>1. Init => LockInv /\ AddedInv BY InitLockInv, InitAddedInv
  <1>2. LockInv /\ AddedInv /\ [Next]_vars => LockInv' /\ AddedInv' BY NextLockInv, NextAddedInv
  <1> QED BY <1>1, <1>2, PTL DEF Spec

\* The variables of the model keep their types: what is planned, journalled and published
\* is a manifest of files of the scaffold, whatever is edited, fails or crashes.
THEOREM ScaffoldTypeCorrect == ASSUME ScaffoldConstants PROVE Spec => []TypeOK
  BY AddedInvAlways, PTL DEF AddedInv

\* What an apply wrote and nobody touched is listed by the manifest, or by a journal from
\* which the next apply undoes it (apply, recovery and rollback of a repository's plan).
THEOREM AddedAccountedFor == ASSUME ScaffoldConstants PROVE Spec => []AddedIsAccountedFor
  <1>1. AddedInv => AddedIsAccountedFor BY DEF AddedInv, Clean, Accounted, AddedIsAccountedFor
  <1> QED BY <1>1, AddedInvAlways, PTL

\* What a user deleted stays deleted, and only files that are as generated and not listed
\* go: what the steps of an apply change, the plan, the journal and the check before a
\* removal allow (plan, apply, recover, remove_unmodified).
THEOREM UsersHaveDecided == ASSUME ScaffoldConstants PROVE Spec => UsersDecide
  <1>1. ASSUME AddedInv, [Next]_vars, inputs' = inputs, spoilt = {},
               NEW f \in DOMAIN disk, disk'[f] # disk[f]
        PROVE  /\ f \notin Listed(manifest)
               /\ \/ disk[f] = "absent" /\ disk'[f] = "generated"
                  \/ disk[f] = "generated" /\ disk'[f] = "absent"
    <2>1. /\ DOMAIN disk = Files /\ inputs \in Nat /\ disk \in [Files -> Contents]
          /\ \A p \in Procs : WriteOK(p) /\ UndoOK(p) /\ op[p] \in Ops
      BY <1>1 DEF AddedInv, TypeOK, Clean, WorkOK, ScaffoldConstants
    <2>2. ~Input BY <1>1, <2>1 DEF Input
    <2>3. PICK p \in Procs : WriteFile(p) \/ Unlink(p)
      <3>1. ASSUME NEW p \in Procs, Locking(p) PROVE FALSE
        BY <1>1, <3>1 DEF Locking, CreateLockFile, FindLockFile, GiveUp, OpenLockFile, TakeOver,
          LookInto, RemoveStale, LockFileLocked, MarkLockFile, MarkFails, Leave, SeeOwn, RemoveOwn,
          repository
      <3>2. ASSUME NEW p \in Procs, Applying(p) PROVE WriteFile(p) \/ Unlink(p)
        BY <1>1, <3>2 DEF Applying, ReadManifest, ReadJournal, CheckUndo, UndoEnds, UnlinkFails,
          ForgetJournal, Inspect, Stage, WriteJournal, PlanFails, WriteFileFails, FilesWritten,
          CompareManifest, Publish, PublishFails, Finish, repository
      <3>3. ASSUME NEW p \in Procs, Crash(p) PROVE FALSE BY <1>1, <3>3 DEF Crash, repository
      <3>4. ASSUME NEW p \in Procs, NEW apply \in BOOLEAN, Start(p, apply) PROVE FALSE
        BY <2>2, <3>4 DEF Start
      <3>5. ~User BY <2>2 DEF User, EditFile, EditManifest
      <3>6. disk' # disk BY <1>1
      <3> QED BY <1>1, <3>1, <3>2, <3>3, <3>4, <3>5, <3>6 DEF Next, vars, repository
    <2>4. CASE WriteFile(p)
      <3>1. PICK g \in First(op[p].left) :
              disk[g] = "absent" /\ disk' = [disk EXCEPT ![g] = "generated"]
        BY <2>4 DEF WriteFile
      <3>2. f = g BY <1>1, <2>1, <3>1
      <3>3. f \in op[p].missing /\ op[p].missing \cap Listed(manifest) = {}
        BY <2>1, <2>4, <3>1, <3>2 DEF WriteOK, WriteFile, Writing, First
      <3> QED BY <1>1, <2>1, <3>1, <3>2, <3>3
    <2>5. CASE Unlink(p)
      <3>1. PICK g \in Last(op[p].left) : disk' = [disk EXCEPT ![g] = "absent"] BY <2>5 DEF Unlink
      <3>2. f = g BY <1>1, <2>1, <3>1
      <3>3. disk[f] = "generated" /\ f \in op[p].left /\ op[p].left \cap Listed(manifest) = {}
        BY <1>1, <2>1, <2>5, <3>1, <3>2 DEF UndoOK, Unlink, Undoing, Last
      <3> QED BY <1>1, <2>1, <3>1, <3>2, <3>3
    <2> QED BY <2>3, <2>4, <2>5
  <1>2. AddedInv /\ [Next]_vars =>
          [inputs' = inputs => \A f \in DOMAIN disk : disk'[f] # disk[f] =>
             \/ spoilt # {}
             \/ /\ f \notin Listed(manifest)
                /\ \/ disk[f] = "absent" /\ disk'[f] = "generated"
                   \/ disk[f] = "generated" /\ disk'[f] = "absent"]_disk
    BY <1>1
  <1> QED BY <1>2, AddedInvAlways, PTL DEF Spec, UsersDecide

=============================================================================
