-------------------------- MODULE ScaffoldRepository --------------------------
(***************************************************************************)
(* A repository that scaffolds are applied to, and what is promised about   *)
(* it.  How scaffolds are applied is in ScaffoldApply.                      *)
(***************************************************************************)

CONSTANT None

VARIABLES
    disk,           \* every file: absent, as the scaffold has it, or of the user's own
    manifest,       \* the manifest: the files it lists, and which text it is
    journal,        \* the apply journal: the manifest it leads to, and its files
    lockFile,       \* the inode at the path of the lock file
    text,           \* the content of a lock file: whose tool wrote it
    holder,         \* the instance that holds the OS lock of an inode
    pc, node,       \* every instance: where it is, the lock file it has open
    op,             \* and the local values of its command
    ours,           \* history: files an apply wrote and nobody touched since
    spoilt,         \* history: the accidents that no check of the code excludes
    inputs, faults

Listed(m) == IF m = None THEN {} ELSE m.files
Recorded(j) == IF j = None THEN {} ELSE j.files

Planning == {"read", "recover", "forget", "inspect", "stage", "write journal"}
Writing == {"write files", "compare", "publish", "finish"}
Undoing == {"undo", "unlink", "undone"}

\* The instances that have the lock and go about the repository.
Working(p) == pc[p] \in Planning \cup Writing \cup Undoing

-----------------------------------------------------------------------------
(* Properties                                                                *)

\* Who works on the repository owns the lock file that is on disk, and works alone: no
\* crash, failed lock file or presence lock of the other tool changes that, as long as
\* no lock file is removed in place of another (acquire_ssealed_scaffold_lock, Drop).
ExclusiveOwnership ==
    "intruded" \in spoilt \/
    \A p \in DOMAIN pc : Working(p) =>
        /\ lockFile = node[p] /\ holder[node[p]] = p
        /\ \A q \in DOMAIN pc \ {p} : ~Working(q)

\* A file that an apply wrote, and nobody touched, is listed by the manifest, or by a
\* journal from which the next apply undoes it: neither a crash nor a failure nor an
\* edit of another file leaves it behind (apply, recover and rollback of the plan).
AddedIsAccountedFor ==
    {"intruded", "astray", "unread"} \cap spoilt # {} \/
    ours \subseteq Listed(manifest) \cup Recorded(journal)

\* The application creates only absent files that the manifest does not list, so what a
\* user deleted stays deleted; it removes only files that are as generated and that the
\* manifest does not list, so nothing committed and nothing of the user's goes, as long
\* as none of the accidents has happened (plan, apply, recover, remove_unmodified).
UsersDecide ==
    [][inputs' = inputs => \A f \in DOMAIN disk : disk'[f] # disk[f] =>
        \/ spoilt # {}
        \/ /\ f \notin Listed(manifest)
           /\ \/ disk[f] = "absent" /\ disk'[f] = "generated"
              \/ disk[f] = "generated" /\ disk'[f] = "absent"]_disk
=============================================================================
