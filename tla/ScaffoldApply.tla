--------------------------- MODULE ScaffoldApply ---------------------------
(***************************************************************************)
(* Filling an existing repository with the missing files of a scaffold.    *)
(* Instances of the desktop application, which nothing keeps to one, each  *)
(* run one command at a time; a lock file in the repository, whose owner   *)
(* also holds an OS lock on it, keeps their commands apart.  An apply      *)
(* writes a journal, then the missing files, then the manifest that lists  *)
(* them, and removes the journal; what a crash left behind is undone, or   *)
(* recognised as committed, by the next apply.  Users change the files and *)
(* the manifest whenever they like, and take no lock.                      *)
(*                                                                         *)
(* A read of several files is one step, a check and what follows it are    *)
(* two.  Links, directories and manifests of another scaffold are left out.*)
(***************************************************************************)
EXTENDS ScaffoldRepository, Integers, FiniteSets

CONSTANTS
    Procs,          \* instances of the application
    Files,          \* the files of the scaffold, in its order
    Inodes,         \* lock files that exist at once, on disk or open in an instance
    MaxInputs,      \* bound: commands and edits
    MaxFaults       \* bound: failing calls and crashes

repository == <<disk, manifest, journal>>
lock == <<lockFile, text, holder>>
bounds == <<inputs, faults>>
vars == <<repository, lock, pc, node, op, ours, spoilt, bounds>>

Contents == {"absent", "generated", "own"}
Texts == {"empty", "workduck", "other"}

\* Two texts of a manifest are equal when they list the same and have one stamp.
Manifests == [files : SUBSET Files, stamp : 0..MaxInputs]
Journals == [leads : Manifests, files : SUBSET Files]

ScaffoldConstants ==
    /\ IsFiniteSet(Procs) /\ None \notin Procs \cup Inodes \cup Manifests \cup Journals
    /\ Files = 1..Cardinality(Files) /\ IsFiniteSet(Files)
    /\ IsFiniteSet(Inodes) /\ Cardinality(Inodes) > Cardinality(Procs)
    /\ MaxInputs \in Nat /\ MaxFaults \in Nat

\* intruded: a lock file went that was not the one looked at; astray: the manifest was
\* edited amid an apply or beside a journal; raced: a file was edited between the check
\* and its removal; unread: a file to undo, or the manifest, could not be read.
Accidents == {"intruded", "astray", "raced", "unread"}

\* left are the files still to write or to undo, back says that a rollback undoes them.
NoOp == [apply |-> FALSE, tries |-> 0, stamp |-> 0, managed |-> {}, missing |-> {}, same |-> {},
         expected |-> None, next |-> None, left |-> {}, back |-> FALSE, kept |-> FALSE]

Ops == [apply : BOOLEAN, tries : 0..2, stamp : 0..MaxInputs, managed : SUBSET Files,
        missing : SUBSET Files, same : SUBSET Files, expected : Manifests \cup {None},
        next : Manifests \cup {None}, left : SUBSET Files, back : BOOLEAN, kept : BOOLEAN]

Seeking == {"create", "open", "take over", "look", "remove stale"}
Making == {"lock", "mark"}
Leaving == {"leave", "own", "remove own"}

First(S) == {f \in S : \A g \in S : f <= g}
Last(S) == {f \in S : \A g \in S : g <= f}

-----------------------------------------------------------------------------
Goto(p, at) == pc' = [pc EXCEPT ![p] = at]
Input == inputs < MaxInputs /\ inputs' = inputs + 1 /\ UNCHANGED faults
Fault == faults < MaxFaults /\ faults' = faults + 1 /\ UNCHANGED inputs
Befalls(accident) == spoilt' = spoilt \cup {accident}

\* The command has ended, its lock file is closed.
Over(p) ==
    /\ Goto(p, "idle")
    /\ node' = [node EXCEPT ![p] = None]
    /\ op' = [op EXCEPT ![p] = NoOp]

Released(p) == [n \in Inodes |-> IF holder[n] = p THEN None ELSE holder[n]]

\* Removing the lock file removes whatever is at its path.
RemoveLockFile(p) ==
    /\ lockFile' = None
    /\ IF lockFile = node[p] THEN UNCHANGED spoilt ELSE Befalls("intruded")

-----------------------------------------------------------------------------
(* The lock: acquire_ssealed_scaffold_lock and its release                   *)

\* preview_ssealed_scaffold_for_repository and apply_ssealed_scaffold_to_repository.
Start(p, apply) ==
    /\ pc[p] = "idle" /\ Input
    /\ Goto(p, "create")
    /\ op' = [op EXCEPT ![p].apply = apply, ![p].tries = 2, ![p].stamp = inputs + 1]
    /\ UNCHANGED <<repository, lock, node, ours, spoilt>>

\* create_new makes the lock file, still empty, or finds one.
CreateLockFile(p) ==
    /\ pc[p] = "create" /\ op[p].tries > 0 /\ lockFile = None
    /\ \E n \in Inodes :
        /\ \A q \in Procs : node[q] # n
        /\ \A m \in Inodes : (\A q \in Procs : node[q] # m) => n <= m
        /\ lockFile' = n
        /\ text' = [text EXCEPT ![n] = "empty"]
        /\ node' = [node EXCEPT ![p] = n]
    /\ Goto(p, "lock")
    /\ UNCHANGED <<repository, holder, op, ours, spoilt, bounds>>

FindLockFile(p) ==
    /\ pc[p] = "create" /\ op[p].tries > 0 /\ lockFile # None
    /\ Goto(p, "open")
    /\ UNCHANGED <<repository, lock, node, op, ours, spoilt, bounds>>

\* The second lock file in the way is not looked at: the repository counts as locked.
GiveUp(p) ==
    /\ pc[p] = "create" /\ op[p].tries = 0
    /\ Over(p)
    /\ UNCHANGED <<repository, lock, ours, spoilt, bounds>>

\* recover_abandoned_workduck_scaffold_lock: a lock file that went meanwhile is no obstacle.
OpenLockFile(p) ==
    /\ pc[p] = "open"
    /\ IF lockFile = None
       THEN /\ Goto(p, "create") /\ UNCHANGED node
            /\ op' = [op EXCEPT ![p].tries = @ - 1]
       ELSE /\ Goto(p, "take over") /\ UNCHANGED op
            /\ node' = [node EXCEPT ![p] = lockFile]
    /\ UNCHANGED <<repository, lock, ours, spoilt, bounds>>

\* Mutant: the lock file alone decides, its OS lock is not tried.
TakeOver_Unlocked(p) ==
    /\ pc[p] = "take over"
    /\ holder' = [holder EXCEPT ![node[p]] = p]
    /\ Goto(p, "look")
    /\ UNCHANGED <<repository, lockFile, text, node, op, ours, spoilt, bounds>>

\* An OS lock held by another means locked,
TakeOver(p) ==
    /\ pc[p] = "take over"
    /\ IF holder[node[p]] = None
       THEN /\ holder' = [holder EXCEPT ![node[p]] = p]
            /\ Goto(p, "look") /\ UNCHANGED <<node, op>>
       ELSE Over(p) /\ UNCHANGED holder
    /\ UNCHANGED <<repository, lockFile, text, ours, spoilt, bounds>>

\* and so does a content that is not Workduck's.
LookInto(p) ==
    /\ pc[p] = "look"
    /\ IF text[node[p]] = "workduck"
       THEN Goto(p, "remove stale") /\ UNCHANGED <<holder, node, op>>
       ELSE Over(p) /\ holder' = Released(p)
    /\ UNCHANGED <<repository, lockFile, text, ours, spoilt, bounds>>

\* The path may lead to another lock file by now. Closing the old one frees it.
RemoveStale(p) ==
    /\ pc[p] = "remove stale"
    /\ holder' = Released(p)
    /\ IF lockFile = None
       THEN Over(p) /\ UNCHANGED <<lockFile, spoilt>>
       ELSE /\ RemoveLockFile(p)
            /\ Goto(p, "create")
            /\ node' = [node EXCEPT ![p] = None]
            /\ op' = [op EXCEPT ![p].tries = @ - 1]
    /\ UNCHANGED <<repository, text, ours, bounds>>

\* Another instance may hold the new file's OS lock to look into it: the command fails
\* and the empty lock file stays.
LockFileLocked(p) ==
    /\ pc[p] = "lock"
    /\ IF holder[node[p]] = None
       THEN /\ holder' = [holder EXCEPT ![node[p]] = p]
            /\ Goto(p, "mark") /\ UNCHANGED <<node, op>>
       ELSE Over(p) /\ UNCHANGED holder
    /\ UNCHANGED <<repository, lockFile, text, ours, spoilt, bounds>>

MarkLockFile(p) ==
    /\ pc[p] = "mark"
    /\ text' = [text EXCEPT ![node[p]] = "workduck"]
    /\ Goto(p, "read")
    /\ UNCHANGED <<repository, lockFile, holder, node, op, ours, spoilt, bounds>>

\* The write or its sync failed: unlock, then remove.
MarkFails(p) ==
    /\ pc[p] = "mark" /\ Fault
    /\ \E written \in {"empty", "workduck"} : text' = [text EXCEPT ![node[p]] = written]
    /\ holder' = Released(p)
    /\ Goto(p, "remove own")
    /\ UNCHANGED <<repository, lockFile, node, op, ours, spoilt>>

\* Drop of SsealedScaffoldLock unlocks,
Leave(p) ==
    /\ pc[p] = "leave"
    /\ holder' = Released(p)
    /\ Goto(p, "own")
    /\ UNCHANGED <<repository, lockFile, text, node, op, ours, spoilt, bounds>>

\* reads the identifier at the path (which an OS lock may prevent),
SeeOwn(p) ==
    /\ pc[p] = "own"
    /\ \/ lockFile = node[p] /\ Goto(p, "remove own") /\ UNCHANGED <<node, op>>
       \/ (lockFile # node[p] \/ holder[node[p]] # None) /\ Over(p)
    /\ UNCHANGED <<repository, lock, ours, spoilt, bounds>>

\* and removes the lock file if that was its own.
RemoveOwn(p) ==
    /\ pc[p] = "remove own"
    /\ IF lockFile = None THEN UNCHANGED <<lockFile, spoilt>> ELSE RemoveLockFile(p)
    /\ Over(p)
    /\ UNCHANGED <<repository, text, holder, ours, bounds>>

Locking(p) ==
    \/ CreateLockFile(p) \/ FindLockFile(p) \/ GiveUp(p) \/ OpenLockFile(p) \/ TakeOver(p)
    \/ LookInto(p) \/ RemoveStale(p) \/ LockFileLocked(p) \/ MarkLockFile(p) \/ MarkFails(p)
    \/ Leave(p) \/ SeeOwn(p) \/ RemoveOwn(p)

-----------------------------------------------------------------------------
(* The apply: create_ssealed_repository_scaffold_plan                        *)

\* The files that the manifest lists are the user's to delete.
ReadManifest(p) ==
    /\ pc[p] = "read"
    /\ op' = [op EXCEPT ![p].managed = Listed(manifest)]
    /\ Goto(p, IF op[p].apply THEN "recover" ELSE "inspect")
    /\ UNCHANGED <<repository, lock, node, ours, spoilt, bounds>>

\* recover_ssealed_repository_apply_journal: a manifest that the journal leads to is
\* committed, otherwise the files of the journal are undone, last first. A manifest that
\* cannot be read counts as another one.
ReadJournal(p) ==
    /\ pc[p] = "recover"
    /\ \/ /\ journal # None => journal.leads = manifest
          /\ Goto(p, IF journal = None THEN "inspect" ELSE "forget")
          /\ UNCHANGED <<op, spoilt, bounds>>
       \/ /\ journal # None
          /\ IF journal.leads # manifest THEN UNCHANGED <<spoilt, bounds>>
             ELSE Fault /\ Befalls("unread")
          /\ Goto(p, "undo")
          /\ op' = [op EXCEPT ![p].left = journal.files]
    /\ UNCHANGED <<repository, lock, node, ours>>

\* remove_unmodified_ssealed_file reads a file; unless it is as generated it stays.
CheckUndo(p) ==
    /\ pc[p] = "undo"
    /\ \E f \in Last(op[p].left) :
        \/ disk[f] = "generated" /\ Goto(p, "unlink") /\ UNCHANGED <<op, spoilt, bounds>>
        \/ /\ IF disk[f] # "generated" THEN UNCHANGED <<spoilt, bounds>>
              ELSE Fault /\ Befalls("unread")
           /\ op' = [op EXCEPT ![p].left = @ \ {f}]
           /\ UNCHANGED pc
    /\ UNCHANGED <<repository, lock, node, ours>>

UndoEnds(p) ==
    /\ pc[p] = "undo" /\ op[p].left = {}
    /\ Goto(p, IF op[p].back THEN "undone" ELSE "forget")
    /\ UNCHANGED <<repository, lock, node, op, ours, spoilt, bounds>>

Unlink(p) ==
    /\ pc[p] = "unlink"
    /\ \E f \in Last(op[p].left) :
        /\ disk[f] # "absent"
        /\ disk' = [disk EXCEPT ![f] = "absent"]
        /\ ours' = ours \ {f}
        /\ op' = [op EXCEPT ![p].left = @ \ {f}]
    /\ Goto(p, "undo")
    /\ UNCHANGED <<manifest, journal, lock, node, spoilt, bounds>>

\* A rollback goes on with the other files, a recovery ends; both keep the journal.
UnlinkFails(p) ==
    /\ pc[p] = "unlink"
    /\ \E f \in Last(op[p].left) :
        /\ IF disk[f] = "absent" THEN UNCHANGED bounds ELSE Fault
        /\ op' = [op EXCEPT ![p].left = @ \ {f}, ![p].kept = TRUE]
    /\ Goto(p, IF op[p].back THEN "undo" ELSE "leave")
    /\ UNCHANGED <<repository, lock, node, ours, spoilt>>

\* The journal of a recovery must go, or the apply ends.
ForgetJournal(p) ==
    /\ pc[p] = "forget" /\ journal # None
    /\ journal' = None
    /\ Goto(p, "inspect")
    /\ UNCHANGED <<disk, manifest, lock, node, op, ours, spoilt, bounds>>

\* Mutant: the manifest does not count.
Inspect_Unmanaged(p) ==
    /\ pc[p] = "inspect"
    /\ op' = [op EXCEPT
         ![p].missing = {f \in Files : disk[f] = "absent"},
         ![p].same = {f \in Files : disk[f] = "generated"}]
    /\ Goto(p, IF op[p].apply THEN "stage" ELSE "leave")
    /\ UNCHANGED <<repository, lock, node, ours, spoilt, bounds>>

\* A listed file that is absent is a conflict. A preview ends here.
Inspect(p) ==
    /\ pc[p] = "inspect"
    /\ op' = [op EXCEPT
         ![p].missing = {f \in Files : disk[f] = "absent"} \ op[p].managed,
         ![p].same = {f \in Files : disk[f] = "generated"}]
    /\ Goto(p, IF op[p].apply THEN "stage" ELSE "leave")
    /\ UNCHANGED <<repository, lock, node, ours, spoilt, bounds>>

\* apply_ssealed_repository_scaffold_plan: the manifest is read again, and continued; a
\* first one lists the files that were there as well. (A failing copy ends the apply.)
Stage(p) ==
    /\ pc[p] = "stage"
    /\ op' = [op EXCEPT
         ![p].expected = manifest,
         ![p].next = IF manifest = None
                     THEN [files |-> op[p].missing \cup op[p].same, stamp |-> op[p].stamp]
                     ELSE [manifest EXCEPT !.files = @ \cup op[p].missing]]
    /\ Goto(p, "write journal")
    /\ UNCHANGED <<repository, lock, node, ours, spoilt, bounds>>

\* The files must still be absent.
WriteJournal(p) ==
    /\ pc[p] = "write journal"
    /\ IF \A f \in op[p].missing : disk[f] = "absent"
       THEN /\ journal' = [leads |-> op[p].next, files |-> op[p].missing]
            /\ Goto(p, "write files")
            /\ op' = [op EXCEPT ![p].left = op[p].missing]
       ELSE Goto(p, "leave") /\ UNCHANGED <<journal, op>>
    /\ UNCHANGED <<disk, manifest, lock, node, ours, spoilt, bounds>>

\* An error up to here ends the command and leaves the files alone.
PlanFails(p) ==
    /\ pc[p] \in Planning
    /\ IF pc[p] = "forget" /\ journal = None THEN UNCHANGED bounds ELSE Fault
    /\ Goto(p, "leave")
    /\ UNCHANGED <<repository, lock, node, op, ours, spoilt>>

\* From here on an error undoes the files written.
RollBack(p) ==
    /\ Goto(p, "undo")
    /\ op' = [op EXCEPT ![p].left = op[p].missing \ (IF pc[p] = "write files" THEN op[p].left ELSE {}),
                        ![p].back = TRUE]

\* A file is created exclusively, one that appeared meanwhile is a conflict.
WriteFile(p) ==
    /\ pc[p] = "write files"
    /\ \E f \in First(op[p].left) :
        /\ disk[f] = "absent"
        /\ disk' = [disk EXCEPT ![f] = "generated"]
        /\ ours' = ours \cup {f}
        /\ op' = [op EXCEPT ![p].left = @ \ {f}]
    /\ UNCHANGED <<manifest, journal, lock, pc, node, spoilt, bounds>>

WriteFileFails(p) ==
    /\ pc[p] = "write files"
    /\ \E f \in First(op[p].left) : IF disk[f] = "absent" THEN Fault ELSE UNCHANGED bounds
    /\ RollBack(p)
    /\ UNCHANGED <<repository, lock, node, ours, spoilt>>

FilesWritten(p) ==
    /\ pc[p] = "write files" /\ op[p].left = {}
    /\ Goto(p, "compare")
    /\ UNCHANGED <<repository, lock, node, op, ours, spoilt, bounds>>

\* write_ssealed_repository_manifest_file: compare with the manifest read before, then
\* replace it, or create it exclusively.
CompareManifest(p) ==
    /\ pc[p] = "compare"
    /\ IF manifest # op[p].expected THEN RollBack(p)
       ELSE /\ Goto(p, IF op[p].next = op[p].expected THEN "finish" ELSE "publish")
            /\ UNCHANGED op
    /\ UNCHANGED <<repository, lock, node, ours, spoilt, bounds>>

Publish(p) ==
    /\ pc[p] = "publish"
    /\ op[p].expected = None => manifest = None
    /\ manifest' = op[p].next
    /\ Goto(p, "finish")
    /\ UNCHANGED <<disk, journal, lock, node, op, ours, spoilt, bounds>>

PublishFails(p) ==
    /\ pc[p] = "publish"
    /\ IF op[p].expected = None /\ manifest # None THEN UNCHANGED bounds ELSE Fault
    /\ RollBack(p)
    /\ UNCHANGED <<repository, lock, node, ours, spoilt>>

\* Mutant: the journal goes even if the rollback kept a file.
Finish_Always(p) ==
    /\ pc[p] \in {"finish", "undone"}
    /\ \/ journal' = None /\ UNCHANGED bounds
       \/ UNCHANGED journal /\ Fault
    /\ Goto(p, "leave")
    /\ UNCHANGED <<disk, manifest, lock, node, op, ours, spoilt>>

\* The journal goes; that it stays is no error. A rollback that kept a file keeps it.
Finish(p) ==
    /\ pc[p] \in {"finish", "undone"}
    /\ \/ journal' = None /\ ~op[p].kept /\ UNCHANGED bounds
       \/ UNCHANGED journal /\ IF op[p].kept THEN UNCHANGED bounds ELSE Fault
    /\ Goto(p, "leave")
    /\ UNCHANGED <<disk, manifest, lock, node, op, ours, spoilt>>

Applying(p) ==
    \/ ReadManifest(p) \/ ReadJournal(p) \/ CheckUndo(p) \/ UndoEnds(p) \/ Unlink(p)
    \/ UnlinkFails(p) \/ ForgetJournal(p) \/ Inspect(p) \/ Stage(p) \/ WriteJournal(p)
    \/ PlanFails(p) \/ WriteFile(p) \/ WriteFileFails(p) \/ FilesWritten(p)
    \/ CompareManifest(p) \/ Publish(p) \/ PublishFails(p) \/ Finish(p)

-----------------------------------------------------------------------------
(* Crashes and users                                                         *)

\* The operating system frees the locks, everything on disk stays.
Crash(p) ==
    /\ pc[p] # "idle" /\ Fault
    /\ holder' = Released(p)
    /\ Over(p)
    /\ UNCHANGED <<repository, lockFile, text, ours, spoilt>>

EditFile(f, content) ==
    /\ disk[f] # content /\ Input
    /\ disk' = [disk EXCEPT ![f] = content]
    /\ ours' = ours \ {f}
    /\ IF \E p \in Procs : pc[p] = "unlink" /\ f \in Last(op[p].left)
       THEN Befalls("raced") ELSE UNCHANGED spoilt
    /\ UNCHANGED <<manifest, journal, lock, pc, node, op>>

\* What the user takes off the list is the user's.
EditManifest(files) ==
    /\ Input
    /\ manifest' = IF files = None THEN None ELSE [files |-> files, stamp |-> inputs + 1]
    /\ manifest' # manifest
    /\ ours' = ours \ (Listed(manifest) \ Listed(manifest'))
    /\ IF journal # None \/ \E p \in Procs : Working(p) /\ op[p].apply
       THEN Befalls("astray") ELSE UNCHANGED spoilt
    /\ UNCHANGED <<disk, journal, lock, pc, node, op>>

\* Removing the lock file by hand is advised against, and not modelled.
User ==
    \/ \E f \in Files : \E content \in Contents : EditFile(f, content)
    \/ \E files \in (SUBSET Files) \cup {None} : EditManifest(files)

-----------------------------------------------------------------------------
\* The repository may hold some of the files and a manifest, an earlier crash may have
\* left a lock file, the ssealed tool may be at work.
Init ==
    /\ disk \in [Files -> Contents]
    /\ manifest \in [files : SUBSET Files, stamp : {0}] \cup {None}
    /\ journal = None
    /\ \E n \in Inodes :
        /\ \A m \in Inodes : n <= m
        /\ \/ lockFile = None /\ text = [i \in Inodes |-> "empty"]
           \/ /\ lockFile = n
              /\ \E left \in {"workduck", "other"} :
                    text = [i \in Inodes |-> IF i = n THEN left ELSE "empty"]
    /\ holder = [n \in Inodes |-> None]
    /\ pc = [p \in Procs |-> "idle"] /\ node = [p \in Procs |-> None]
    /\ op = [p \in Procs |-> NoOp]
    /\ ours = {} /\ spoilt = {}
    /\ inputs = 0 /\ faults = 0

Next ==
    \/ \E p \in Procs :
        \/ \E apply \in BOOLEAN : Start(p, apply)
        \/ Locking(p) \/ Applying(p) \/ Crash(p)
    \/ User

Spec == Init /\ [][Next]_vars

-----------------------------------------------------------------------------
(* Types; what is promised is in ScaffoldRepository                          *)

Steps == {"idle"} \cup Seeking \cup Making \cup Planning \cup Writing \cup Undoing \cup Leaving

TypeOK ==
    /\ disk \in [Files -> Contents]
    /\ manifest \in Manifests \cup {None}
    /\ journal \in Journals \cup {None}
    /\ lockFile \in Inodes \cup {None}
    /\ text \in [Inodes -> Texts]
    /\ holder \in [Inodes -> Procs \cup {None}]
    /\ pc \in [Procs -> Steps]
    /\ node \in [Procs -> Inodes \cup {None}]
    /\ op \in [Procs -> Ops]
    /\ ours \subseteq Files /\ spoilt \subseteq Accidents
    /\ inputs \in 0..MaxInputs /\ faults \in 0..MaxFaults

============================================================================
