# Workduck: specifications, model checking and proofs

Workduck is a desktop workbench (Tauri: a Rust native side in `src/src-tauri`, a
Svelte/TypeScript interface in `src/src/lib`) with a command line
(`workduck-cli`) that works on the same folders. Work orders are JSON files; a
*run* sends the tasks of a work order to AI agents and writes a result report;
reports are evaluated and feed the scores of agents and the summaries of
personas; briefs link repositories to work orders. Around that core the desktop
keeps projects and their repositories, inspects them with git, runs their tasks
in terminals, keeps secrets in an encrypted vault and exchanges its data through
a sync file. All of that is state that two programs, several windows, background
threads and people with editors change at the same time, and that has to survive
answers that come late and a process that dies between any two file operations.

This directory holds TLA+ modules of these parts, configurations that check them
with TLC on small instances, and proofs that TLAPS checks for every value of
the constants. Paths below are relative to the repository root `src/`.

Contents: 1 The parts of the system, 2 Modules and code, 3 What the runs check,
4 Bounds, 5 Fairness, 6 What is proved, 7 What is only model-checked,
8 Disagreements and observations, 9 What is not modelled, 10 Plan.

## 1. The parts of the system

### Work-order execution (`queue_work_order_execution.rs`, `bin/workduck-cli.rs`)

*State.* One JSON file per work order with its status (`active`, `running`,
`failed`, `archived`); one lock file per work order, which is both an advisory
OS lock and, by its content, a marker "a run took this over"; the workspace
registry lock, which is waited for and held for one commit; reports on disk.
*Operations.* plan (preview and approval), try the lock, read the snapshot,
write the marker, commit `running`, call the agents, write the report, commit
`archived`/`active`/`failed`, give up, drop; the editor's save, complete,
delete and "recover a stale run".
*Interactions.* Desktop and command line share nothing but files. The editor
tries the execution lock under the registry lock, a run takes them in the other
order.
*Hard.* Two processes, crashes between any two file operations, a marker
truncated and not yet written, snapshots that are compared and then replaced in
two steps, previews that are approved long before the run begins.
*Correct when* there is one run per order, edits are never undone, `running`
always means a live run or something that will be recovered, nothing is called
completed without its report, nothing runs that was not approved.

### Dispatch of agents (`queue_execution.rs`, `queue_execution_registry.rs`, `queue_limits.rs`, `queue_provider_client.rs`)

*State.* A process-wide registry of executions with a cancel flag and the abort
handles of their tasks; a global semaphore and one per provider; one task per
agent with its attempts; the outcomes joined so far.
*Operations.* register, spawn, register a handle, join in order, cancel,
conclude; a task takes the provider permit, then the global one, sends, gets an
answer, backs off, gives up, panics.
*Hard.* A cancel between registration and spawning or while a task is being
polled, a task holding one permit while it waits for the other, a join that
returns early and leaves siblings running.
*Correct when* permits are conserved, a cancel reaches every task, nobody
outlives the run, a report has one entry per agent, everything ends.

### The queue folder (`queue_folder.rs`, `queue_folder/`, `queue-artifacts.ts`, briefs)

*State.* Work-order and report files of one workspace, at most
`QUEUE_FOLDER_MAX_FILES`; links from briefs to work orders.
*Operations.* create, edit, settle, delete work orders; delegate the evaluation
of a report (at most one open delegation per report); a native run that rewrites
the work order through a struct of its own and writes a report; link a brief and
look up the evidence for its gate.
*Hard.* A command checks the directory and then writes, in any of several
programs, and only the registry lock holds the two together; a rewrite through a
narrower struct drops fields that other checks rely on; capacity is checked by
some writers only; a page reads its evidence file by file while files change.
*Correct when* two files never delegate the evaluation of one report, and what a
gate says of linked work was so while its evidence was read.

### The queue panel (`queue-panel-controller.svelte.ts` and its workflows)

*State.* The list, the order on display with its path, the open dialog, the
estimate of a prompt, one flag per button (`isWriting`, `isCancellingExecution`,
`isRefreshing`, `isReading`), the executions it has started, generations.
*Operations.* select, preview, confirm a run, cancel, complete, edit, create,
delete, refresh with recovery of stale running orders, change of the workspace
or page.
*Interactions.* Calls the commands of the two parts above and is answered later.
*Hard.* Every answer may come after the user has gone on; each workflow compares
something else (the workspace generation, the selection generation, the identity
of an object, a path) to find out; refreshes are dropped while one is under way.
*Correct when* buttons are disabled by exactly what is under way, the display
follows the clicks, a running execution can be cancelled, the list catches up.

### Registries of agents and personas (`workspace_data_file.rs`, `workspace_registry_lock.rs`, `cli/agent_evaluation.rs`, the panels)

*State.* `agents.json` and `personas.json`, each with a revision; a journal with
the pair that is being written; the registry lock of the workspace; what each
panel shows; the evaluation marks in the report.
*Operations.* load, evaluate a report (scores to the pair, then the mark on the
report), retry, edit, remove, reset, assign; the command line's batch
evaluation; recovery of a journal by whoever takes the lock next.
*Hard.* Four file operations per commit and a crash after any of them; panels
that edit copies loaded long ago; a save that is reported as failed and commits
later; a workflow of two commits where only the first one happens.
*Correct when* revisions advance one at a time, evaluations are counted once and
never lost, summaries agree with the agents, and every workflow ends.

### App state (`app-state-storage.ts`, `app_state_store.rs`, `workspace-storage.ts`)

*State.* A table with one row per setting and one for the workspace registry, a
journal entry per setting in browser storage, a cache in every window, and
bookkeeping of what is under way (flush, refreshes, lease, deferred keys).
*Operations.* start (replay the journal, promote defaults), edit, flush,
refresh, storage and commit events, focus, registry transaction, import.
*Hard.* Answers that come back after something newer was shown, two instances
flushing one journal, a death between the commit and the removal of the entry,
a conditional write whose premise moves while it waits.
*Correct when* an acknowledged edit is never lost, a registration by somebody
else is never dropped, and no window goes back to something older.

### Project registry (`project_registry_store.rs`, `project-storage.ts`, `project-board-registry-writer.svelte.ts`)

*State.* One row per workspace, the marker of the migration, and in every window
the board's registry with its draft, what its editor has accepted, and one queue
of writes.
*Operations.* read, promote legacy data, edit, guarded write, confirm, import,
hear of a commit and reread, reload on focus, dialogs that wait for native work.
*Hard.* Answers, events and rereads in any order, lost answers, two windows, a
dialog that saves a registry it took before waiting.
*Correct when* a save drops nothing that was committed since its editor looked
and a board does not go back.

### Access: unlocking and the secret vault (`workspace-unlock.ts`, `secret_vault_session.rs`, `environment-vault-session.ts`, `EnvironmentVaultPanel.svelte`)

*State.* The native session with its reference generation, the envelope in the
workspace, the interface's view of the session, closings under way, the vault
panel, verifications of a password, the attempt record with its cooldown.
*Operations.* open, create, change and close a vault, save its envelope, reopen
after a failed save, lock the vault or the workspace, verify, give up.
*Hard.* Lifetimes: an answer of an earlier one, a close that overtakes an open,
a panel that goes while it saves, a lock while things are opening.
*Correct when* the interface's view is the native session once nothing is under
way, and nothing reopens behind a lock.

### Repository inspections (`repository_inspection_scheduler.rs`, `project_repository_inspection.rs`, `project-board-runtime-state.ts`)

*State.* A bounded queue of paths, a job per path with the scans subscribed to
it, a pending count per scan, worker threads; on the board the statuses shown,
their cache and the generation of the present scan.
*Operations.* schedule, cancel, take and finish a job, reject what does not fit,
receive a record, close a scan; refresh one repository after an operation.
*Hard.* Cancellation while jobs run, records that are counted after the lock was
given up, selection and links that change under a scan.
*Correct when* the counts are exact and the selected project's repositories come
to have the status of their present folders.

### Git operations of the board (`project-board-repository-actions.ts`, `project_repository.rs`, `project-repository-operation-history.ts`)

*State.* The folder at each repository's path, the registry's link to it, the
operation each repository shows, the newest stored operation of each, the commands
under way with the view of the board that began them.
*Operations.* clone (with three credentials one after the other and a clean-up
after each failure), initialize, publish (commit, create, push), fetch, pull and
push; link a clone; inspect, finish and record; leave and enter the board; read
the stored operations.
*Hard.* A command outlives the board that started it; its end arrives at another
view, after a read of the history or before; the clean-up of one clone removes
what is at the path, whoever put it there.
*Correct when* a board is busy with exactly the commands it has under way, a clone
is linked only when it is whole, and everything shown as running ends.

### Repository tasks (`project_repository_task.rs`, `task-run` modules, `project-repository-batch.ts`)

*State.* A record file per run that first the native side and then the script in
the terminal writes, a cache of the newest records checked against metadata, one
read shared by all readers, what the board shows, the items of a batch.
*Operations.* launch (a server in two terminals), start, log, end, close, read
records and list processes, deliver, poll, batch.
*Hard.* The files change between the steps of a read; a reader joins a read that
began before its launch; refreshes that supersede one another.
*Correct when* what is told is current, a batch tells the run it launched, and
results are shown in the end.

### Workspace sync (`SyncSettingsPanel.svelte`, `workspace-sync*.ts`, `workspace_sync_git.rs`)

*State.* The data of this computer, the sync file, the clone with its head and
its view of the remote, the remote, the panel's settings, busy flag and last
inspection, the workflows under way.
*Operations.* save, send, load, receive, fetch, pull, push, inspect, edit the
settings, leave and reopen the panel; another computer pushes.
*Hard.* A workflow is a chain of calls that read the settings of their own
moment; the lock covers git only; inspections supersede one another.
*Correct when* what is reported as sent is at the remote and what is received is
not older than what was fetched.

### Scaffolds (`project_folder_scaffold.rs`, `project_folder.rs`)

*State.* The files of a repository, the manifest that lists those a scaffold
owns, the journal of an apply, a lock file whose owner also holds an OS lock on
it; per command the plan, what it has written and what it still has to undo.
*Operations.* preview, apply (plan, journal, files, manifest), roll back, recover
an interrupted apply, acquire the lock and take over an abandoned one, release.
*Hard.* Several instances of the application and the `ssealed` tool share the
lock file; users edit files and manifest without any lock; a crash between any
two steps; checks by path that are two steps from what they justify.
*Correct when* who works works alone, everything added is listed or will be
undone, and nothing of the user's is removed, overwritten or brought back.

### How they interact

A run of the desktop application is started and cancelled by `QueuePanel`, goes
through `QueueDispatch` for its agents and through `QueueExecution` for its file,
and leaves in the folder what `QueueFolder` describes. Evaluating a report
(`WorkspaceRegistries`) marks the report that `QueueFolder` keeps. The workspace
whose folder all of this lives in comes from the registry of `AppState` and is
opened through `WorkspaceAccess`, whose vault supplies the keys of providers. The
board shows the registry of `ProjectRegistries`, whose links decide what
`RepositoryInspection` inspects, where `RepositoryTasks` runs and which folders
`RepositoryOperations` works on; `WorkspaceSync`
replaces all registries by an import. The workspace registry lock appears in
`QueueExecution`, `QueueFolder` and `WorkspaceRegistries`: it is one lock in the
code. The first and the last show that its users give it back (`RunsEnd`,
`WorkflowsEnd`), the second what it is worth to commands that check and then write
(`UniqueDelegation`).

The parts that are not modelled are in section 9; `PROJECT.json` lists all of
them with the reason.

## 2. Modules and code

| Module | Models | Rests on |
|---|---|---|
| `WorkOrderLifecycle` | what the queue promises about a work order: one job, results before completion | abstract |
| `QueueExecution` | locks, marker, snapshots and commits of a run; editor operations; crashes; writers outside the program | implements `WorkOrderLifecycle` |
| `QueueDispatch` | tasks, permits, attempts, cancels, joins of desktop runs | |
| `QueueFolder` | files of the queue and what ties them together; commands of several programs that check and then write | |
| `BriefEvidence` | what the page of a brief reads of linked work orders, and what its gate tells | extends `QueueFolder` |
| `QueuePanelState` | the state of the panel and what is promised about it | |
| `QueuePanel` | what the page shows, disables and has under way | native commands in one step each; `QueueExecution` has their steps |
| `WorkspaceRegistries` | pair of registries, journal, lock, workflows of panels and command line | |
| `AppState` | journal, table, caches, transactions of several instances | |
| `ProjectRegistriesState` | the row of a workspace, boards and queued writes, and what is promised of edits | |
| `ProjectRegistries` | commands on the row, their answers, commit events, what users do on boards | |
| `WorkspaceAccess` | native vault session, the interface's view, the vault panel, unlocking | |
| `RepositoryInspectionState` | queue, jobs and counts of the native scheduler, and what is promised of them | |
| `RepositoryInspection` | the native scheduler and the board's refreshes and cache | |
| `RepositoryTaskState` | runs, record files, the cache, the read and the batch, and what is promised to those who are told of runs | |
| `RepositoryTasks` | launches, terminals, record files, reads, poller, batch | |
| `RepositoryOperations` | clone, initialize, publish and remote commands, the busy state and history of the board | registry writes in one step; `ProjectRegistries` has theirs |
| `WorkspaceSyncState` | the versions that sending and receiving move, and what is promised of them | |
| `WorkspaceSync` | sync file, clone, remote, workflows of the sync panel | |
| `ScaffoldRepository` | the state of a repository that scaffolds are applied to and what is promised about it | |
| `ScaffoldApply` | lock file, plan, apply, rollback and recovery of a scaffold; crashes, edits | |
| `…Proofs` | theorems of the module they are named after; `QueueProofs`: of `QueueFolder`, `BriefEvidence` and `QueueDispatch`; `DesktopProofs`: of `WorkspaceAccess`, `RepositoryOperations`, `RepositoryTasks`, `RepositoryInspection` and `WorkspaceSync` | TLAPS |
| `MC…` | model values, symmetry and side-by-side instances for TLC | |

`MCDesktop`, `MCQueueParts` and `MCOutsideWriters` instantiate modules that
share no state side by side (`INSTANCE … WITH`): a variable `part` says which of them a behaviour is
about, the others stay as they begin. One run so answers one question about each
of several parts; nothing is claimed about their interaction. The promises of the panel,
of scaffolds, tasks, the scheduler, sync and boards stand in modules of their own with the variables they
are about (`QueuePanelState`, `ScaffoldRepository`, `RepositoryTaskState`,
`RepositoryInspectionState`, `WorkspaceSyncState`, `ProjectRegistriesState`): `QueuePanel`, `ScaffoldApply`,
`RepositoryTasks`, `RepositoryInspection`, `WorkspaceSync` and `ProjectRegistries` extend them, which is where the proofs meet them, and so do `MCQueueParts`, `MCOutsideWriters` and `MCDesktop`, whose runs check them in several instances at once. They quantify over the domains of
the state, so that they mean the same in each.

`PROJECT.json` maps every definition to the lines it models. What a reader needs
to know beyond that:

**QueueExecution.** A runner is a process position `pc` (idle, planned, locked,
accepted, …, finalized), the work order, the approved body and the snapshot
`seen`. `TryLock` is the advisory lock of `acquire`; it dies with its process,
the marker does not. `TruncateMarker` and `WriteMarker` are the two system calls
of a marker rewrite. Every durable transition is `LockRegistry`, `Verify`
(compare the file with the snapshot), `Rename`, so that an editor or an outside
writer fits between any two of them; `CommitFails` is a failing disk. An editor
operation has the same shape with its own two snapshots. The content of a work
order is its status and a body (what its prompts depend on).

**QueueDispatch.** A task is a future: `Poll` starts a poll, `Suspend` ends it,
what the task does happens in between. An abort handle is looked at when a poll
begins and when it would suspend, so a cancel may land while a task is being
polled and the task still answers. Providers are answers, retryable answers and
silence. The command line runs its own copy in a process of its own.

**QueueFolder.** A command of the panel that writes is two steps: `Checked`, which
takes the registry lock and remembers in `command` what passed the checks, and
`Writes`, or `GivesUp` if the file cannot be written or the program dies; either
frees the lock (`RegistryLockFree`). Everybody else acts in between, in any number
of programs. A deletion and a commit of a run need the lock for one moment only
and are one step each. The run's report is written without that lock and without
the capacity check; a command that had counted before is then `crowded` (history).
The run's rewrite of the work order goes through `Rewritten`, the struct that lacks
`sourceReport` and task repositories. `asked` is history: what the panel last wrote.

**BriefEvidence.** `Refresh` lists the queue, `ReadFile` reads one of the listed files
at a time, in any order, while all of `QueueFolder` goes on; a file that is gone,
too large or fails makes the lookup `failed`. Without a link only the files in
`view`, the first of the listing up to `DiscoveryLimit`, are read, and `Counts`
says that a link bypasses this limit. `Gate` is what is told once all is read, and links are made from
what is shown. `throughout` and `sometime` are history: the files that were there
during all of the collection, the orders meant for the repository at any time of
it. The links are read at the moment of the listing; what stays on display while a
new refresh reads is not part of the model.

**WorkspaceRegistries.** A process is in a workflow (`op`), has native commands
left (`todo`), and is somewhere inside one (`at`). Inside a command every file
operation is a step. `Acquire` takes the lock, `PutAgents`, `PutPersonas` and
`Unlink` replay a journal; `Publish` writes one; `Commit` and the writers
replace the files. Windows keep what they loaded in `view`. A record is a set of
evaluation keys, a count, a persona and a number of resets.

**AppState.** A window is an instance of the application: the tray window reads
no settings, so one process has one window that matters. What a window does
between two awaits is one action; a native call is the call, its effect and its
answer. `stored` and `journal` carry the time stamps of the code, cached values
carry a stamp as history only. `commit` is the registry transaction with its
lease (`transactionKeys`) and `answer`/`sent` are the flush under way. Stamps
increase strictly: two edits within one millisecond are not distinguished by the
code and are not modelled. Browser storage is taken to be read and written
without interference within one synchronous piece of code, as its mutex
promises.

**WorkOrderLifecycle** is the queue without locks, markers, snapshots and
processes. Under the mapping `work <- file`, `results <- reports`,
`job <- the run that has committed running and not yet its end`, every step of
`QueueExecution` without outside writers is a step of it or none.

**QueuePanel.** A call has a position (`at`), what it was asked with (`base`) and
one flag per comparison that the code makes when it is answered: `mine` for
`target.isCurrent()`, `sel` for the generation of the selection, `same` for the
identity of the selected object. A step that advances a generation in the code
clears the flag on everything under way (`Reassigned`, `Superseded`), which is
the same thing and keeps the state small. A refresh goes through `list`,
`inspect`, `mark`, `write`, `reread`, `answer`, as `refreshQueuePanelFiles` and
the recovery of stale running orders do. What ends with a refresh (a save
releases its button only after the list was read again) is the refresh's `frees`.
Native commands are one step: the file is compared, the lock looked at and the
status written at once. Files are compared by content (`Same`); the revision `n`
only serves the properties. `ids` is `activeExecutions`, which belongs to the
page. Dialogs are modal. Names and contents of the listing are read in one step.

**ProjectRegistries.** A registry is the set of edits it holds, so that "drops an
edit" can be said. Commands of one window run and are answered in the order they
were sent, events arrive at any time. An answer that no longer counts, because its
read was superseded, still arrives in its place and has lost its reader (`Unread`,
`Superseded`). A write is checked, then written, both in the queue of its window; what
it compares the row with is its `guard`, or what the editor of its view has accepted when its
turn comes. `overtaken` is history: a dialog saved a registry it had taken before the
board moved on.

**WorkspaceAccess.** Native commands are synchronous: `asked` is executed in
order, `answered` arrives in order. `live` says whether the lifetime a command was
sent under is still the present one. The panel is keyed by the workspace, so one
workspace is enough; locking it destroys the panel.

**RepositoryInspection.** Schedule and cancel commands run one after the other on
the main thread, workers beside them; `rejected` are the records the main thread
counts after it has given the scheduler's lock up. Statuses are the path they are
about and the tick they were asked for; git's own answer is abstracted.

**RepositoryTasks.** A read is `scan`, `reread` of what changed, listing of the
processes, answer; terminals replace record files between any two of these.
`settled` and `runs` of a read are history for the property. A launch lasts until
the terminal has its command; a terminal older than 30 s without a process counts
as failed (`old`).

**RepositoryOperations.** A call is in its native command (`look`, `attempt`,
`fetching`, `clean`, `commit`, `create`, `push`) or at what its caller does with
the answer (`cloned`, `ok`, `refreshed`, `failed`, `record`). Views of the board are
numbered: a call remembers the view that began it, and `Here` is the comparison of
the workspace path and of the mounted board that every continuation makes. A folder
is what the commands look at: whether it is a repository, has commits, an origin,
and whether its content has arrived (`part` is a clone under way or broken off).
Paths and credentials are left out: an attempt fails or not. `at` of an operation is
the order of its end, which is its `finishedAt`. `spoilt` is history.

**WorkspaceSync.** Data are version numbers; the clone and the remote are the
sequences of versions committed there. A git operation is one step with the
partial outcomes of its failures (fetched but not merged, committed but not
pushed). Answers arrive in any order, workflows overlap wherever the busy flag
lets them. `lost` and `astray` are history for the exemptions in the properties: a
version that another save replaced, and a workflow whose settings were edited or whose
own inspection was superseded or failed. `errors` only bounds the calls that fail.

**ScaffoldApply.** `pc` names the position in `acquire_ssealed_scaffold_lock`
(`create`, `open`, `take over`, `look`, `remove stale`, `lock`, `mark`), in
`create_ssealed_repository_scaffold_plan` and the apply it calls (`read` to
`finish`), in undoing files, which recovery and rollback share (`undo`, `unlink`,
`undone`, told apart by `op.back`), and in the release (`leave`, `own`, `remove
own`). A lock file is an inode: `lockFile` is the one at the path, `node` the one
an instance has open, `holder` the OS lock, so that removing by path and locking
by handle can differ as they do in the code. A manifest is what it lists and a
stamp that stands for the rest of its text. `ours` and `spoilt` are history: the
files added and untouched, and the accidents the properties exempt.

## 3. What the runs check

| Run | Question | Result |
|---|---|---|
| `queue_safety` | a desktop run, two command lines, an editor, two crashes, failing disks on one work order | `RunningIsAccountedFor` and `EditsAreNeverReverted` hold, and `QueueExecution` implements `WorkOrderLifecycle` |
| `outside_writers` | a desktop run, a command line and an editor with writers that respect no lock; scaffolds in two instances, and in one with two failures or crashes, among edits | one run per order; who works on a repository owns its lock and works alone, added files are accounted for, what users decided stays |
| `queue_recovery` | does anything hang or stay behind? | every run ends and every unattended `running` is taken over or marked failed |
| `queue_stale_preview` | claim of the source | violated, see 8 |
| `dispatch` | two executions, one of them with two agents, a third that asks for the order of the first; one permit of each kind, two attempts; the runtime is fair | cancels reach everybody and end a run without any provider, no orphans, complete reports, a timely cancel is never followed by a completed run, and if providers answer, everything ends |
| `folder_safety` | the folder with two programs, two orders and a source; the page of a brief with one order, two reports and one file within the discovery limit; the panel with one order and everything users do, with two orders, and with one that is edited while another program runs it | unique delegation, gates that were right while they were read; exact buttons, the display follows the clicks, running executions stay cancellable |
| `folder_lost_delegation` | claim of the source | violated, see 8 |
| `registries_panels` | two windows with stale panels and a command line, one crash, one failing call | revisions advance one by one, evaluations stay and count once, marks only for what was counted, summaries agree but for one named accident |
| `registries_commits` | a window and a command line, agents with a persona | every workflow ends |
| `app_state` | two instances on one profile, a failing call, an instance that dies | acknowledged edits and registrations are kept, windows show committed registries and never go back |
| `desktop_parts` | inspections, access, project registry, tasks (three worlds), sync, a small queue panel, each by itself | exact scheduler and statuses in the end; a quiet view is the session and locks are final; saved edits survive and boards do not go back; reads are current, batches tell their run, results are shown; what is sent is published and what is received is current; the panel's list catches up |
| `board_work` | one repository, two views of the board, two commands, a folder removed by a user, two failures or a death | a board is busy with exactly its commands, linked clones are whole, what is shown as running ends |

Every property is also shown to depend on the code: for each one `PROJECT.json`
names a definition and a variant of it that a plausible bug would produce (a
dropped comparison, a missing guard, an off-by-one), under which TLC finds the
property violated.

What the properties say about the code:

* `RunningIsAccountedFor`, `EditsAreNeverReverted`: the content check under the
  registry lock and the execution lock together protect an edit that is saved
  between the snapshot of a run and its commit, and a run from an editor with an
  old snapshot; neither lock alone would do. The marker that allows a takeover is
  never cleared while the program itself left `running` behind, with the one
  exception of a process that dies between truncating and writing it.
* `ImplementsLifecycle`: an archived order stays archived, whatever sequence of
  complete, fail, drop, takeover and delete led there, and a run completes an
  order only when the report on exactly its text is on disk.
* `ExclusiveOwnership`: the OS lock protects a lock file from being taken over
  while its owner lives, the content protects the other tool's; the exemption
  `intruded` is the one way around both (8).
* `AddedIsAccountedFor`, `UsersDecide`: journal before files before manifest, with
  a plan made under the lock and checked again; what exempts them is in
  `Accidents`, and each accident is something the code lets happen (8).
* `NoOrphanAgents`, `CancelReachesEveryAgent`: a cancelled execution aborts the
  tasks it has and those it registers later; an execution that leaves early
  aborts those it did not join.
* `TimelyCancelIsHonoured` states exactly which cancels are honoured: those that
  come while an agent is not being polled. A later one may be acknowledged and
  the run still completes; that is what the code does.
* `UniqueDelegation`: the registry lock, and that it is one for all programs, is what
  lets a check of the directory still hold when the file is written; with a lock of
  each program's own two of them delegate one report. It is about the files at one time. That a report is never
  delegated twice over time is what the source claims, and it is not so (8).
* `GateIsGrounded`: files come, go and change while the evidence is read, so it is a
  snapshot of no moment. What a gate tells is all the same never news of work that was
  not meant for the brief, "missing" of an order, or silence about a report, that
  was there all along.
* `BusyIsExact`: for every button, disabled if and only if a call of the present
  workspace, or the refresh that ends it, is under way, and at most one of each.
  It is what makes dropping a late answer safe, and the reset of the flags by a
  change of the workspace.
* `DisplayFollowsClicks` relates the display to the last click and to what was
  shown before: no late read, save or recovery shows another order or goes back in
  time. What a run, a cancellation or an edit of the order on display carries may cross
  with other answers and with a refresh, and only exactly that state may then be older
  (`Brings`). Reads, completions, refreshes and calls about other orders are not excused.
* `IdentifiersStay`: the `finally` of one execution never takes the identifier of
  another, and changing the workspace keeps them.
* `ListCatchesUp`: dropped, failed and discarded refreshes leave no stale list.
* `RegistriesAdvance`: whatever crashes and replays, a revision stands for one
  content, and neither file nor what the two stand for together skips or repeats
  a revision.
* `EvaluationsStay`, `CountedOnce`: a two-commit workflow that fails in the
  middle, is retried from a window or the command line and races with panels on
  old copies neither loses nor duplicates a score, and the report's mark never
  claims a score that was not counted.
* `SummariesAgree`: two files that every window edits from its own copies stay
  consistent because the pair is written under revisions, and because a panel that
  saves personas alone does so beside the agents it shows. One way around it is the
  accident that the property names, `SavesUnsaved`: a personas panel that goes on
  from a pair that could not be saved (8). Nothing else is exempt, and the run reaches it.
* `EditsAreKept`: the last acknowledged edit is in the journal or in the table at
  every moment, whoever flushes, replays or cleans up.
* `ShownNeverGoesBack`: cache versions, refresh sequences, the lease and the
  journal check together make answers that arrive late harmless, with one
  exception that the property names (8).
* `SchedulerIsExact`: the pending count of a scan equals its subscriptions plus
  what the main thread is about to count, also across cancellation and rejection,
  so no scan ends early or stays registered. `SelectedAreInspected` is what the
  counts are for: statuses of the selected project arrive in the end.
* `QuietViewIsSession`, `LockIsFinal`: lifetimes, closing counts and generations
  together; each alone would let an old answer reopen or hide a session.
* `EditsSurvive` (`SavedEditsSurvive` and `BoardNeverGoesBack`): the guard of a write is what its
  editor had accepted, which reads, events and own writes advance in different
  orders. Both exempt edits overtaken by a dialog (8).
* `TasksAreToldRight` (`ReadIsCurrent` and `BatchTellsItsRun`), `ResultsAreShown`: a cache validated by
  metadata, a shared read and projection of dead processes never make a result
  up, take it from another run or hide it for ever.
* `BusyIsWork`: the history that is read late fills in and does not overwrite, a late
  end of a former view's command is not shown, and a command that fails still ends;
  each alone would admit a second command on a busy repository or disable its buttons
  for ever.
* `LinkedClonesAreWhole`: git configures the origin before the content arrives, so
  that a broken clone looks like one that was there before; what keeps it from being
  linked is the clean-up after every failed attempt.
* `SyncIsExact` (`SentIsPublished` and `ReceivedIsCurrent`): between read, encrypt, write, commit and
  push other workflows and computers act, and any of these calls may fail half done. A
  workflow is exempt for what happened to itself alone: its settings were edited, the
  inspection it asked for was superseded or failed, its version was replaced by a later
  save, its branch has no upstream. A failure of any other call, a push that committed
  and did not arrive included, exempts nobody.

## 4. Bounds

*Names of the bounds*: `MaxCrashes`, `MaxFaults`, `MaxOps`, `MaxFiles`,
`MaxAttempts`, `GlobalLimit`, `ProviderLimit`, `MaxClock`, `MaxFailures`,
`MaxInputs`, `MaxOutside`, `MaxMade`, `MaxVisits`, `MaxScans`, `MaxChanges`,
`MaxRuns`, `MaxCalls`, `DiscoveryLimit`, `Capacity`, `TTL`; sets of actors and files are constants too.
`MaxFiles`, `MaxAttempts`, `DiscoveryLimit`, `Capacity`, `TTL` and the limits are constants of the
program (larger there); the others only bound the search.

* `queue_*`: one work order, because execution locks, markers and commits of
  different orders do not meet (only the registry lock does, and one order with
  four actors already contends for it). Two bodies tell an approved one from an
  edited one. Two crashes let a recovery itself be interrupted. Three runners and
  an editor give every pair of roles, command line against command line included.
* `dispatch`: limits of one make every permit contended; two attempts give a
  first try and a retry; one execution has two agents at different providers, so
  joins are out of the order of answers and holding one permit while waiting for the
  other occurs. The third execution asks for the order of the first before that one
  begins, so that the registry rejects it and nothing of it may linger. Deadlock is
  checked.
* `folder_*`: the fields that tie a work order to a report and to a repository are
  independent, so `folder_safety` looks at them in two parts. For delegations: two
  programs, which is what it takes to meet between a check and a write, two names of
  work orders and one source: a delegation and its rival. For briefs: one program,
  one work order and two reports, a limit of discovery of one, so that what a link
  bypasses occurs, and work orders without evaluator tasks. `MaxFiles` of two is
  reached and bypassed by a run's report (three in `folder_lost_delegation`, where the limit
  is not the point). The panel has one order with all operations, three inputs
  and one act of another program or failing call, and two orders with three
  inputs: an operation, a change of the selection or workspace and a second
  operation. A third instance has only selections and edits, but two acts of another
  program: it takes both to run an order and die beside an edit. Checked apart, for safety: one order with four inputs (2.06 million
  states), two orders with four inputs and without runs (2.07 million), two
  orders with everything (1.06 million), six inputs of select, run and leave
  (1.58 million).
* `registries_*`: `MaxOps` of three lets two stale workflows and a third party
  interleave; two agents and a persona give every assignment; one crash and one
  fault may strike between any two file operations. Two windows are there for the
  panels; one is enough for `WorkflowsEnd`.
* `app_state`: `MaxClock` of two allows an edit against an edit, an edit against
  a registration and two registrations; with three (checked apart, for settings
  and for the registry alone) the same properties hold. One failing call or one
  death may strike anywhere; one of each was checked apart. `Outdated` stands for any
  registry that was shown before a dialog opened.
* `outside_writers`: the work order as in `queue_*` with one command line and one
  crash. Scaffolds: two instances and one file with three inputs and one failure
  or crash, for the lock (an abandoned lock file may be there from the start, and
  the two race for it); one instance and two files with three inputs and two
  failures or crashes, so that a recovery is itself interrupted. Apart: two
  instances and two files (14.2 million states), one instance with five inputs
  and two failures (11.4 million), both without a manifest at the start.
* `desktop_parts`: every part is as small as its hazards allow, because they are
  explored in one run; larger instances were checked apart with the same
  properties.
  - Inspection: two repositories of two projects, one worker, a queue of one
    place, so that rejection and waiting occur; three scans (one cancelled while
    another is answered), one edit or tick. Apart: both projects with two changes,
    and an edit, a single refresh and a tick together (1.4 million states).
  - Access: five inputs, three names of sessions and contents, one failing
    command, a cooldown after two wrong passwords.
  - Registry: one window that visits the workspace twice and a window outside
    the model, three inputs, one failure. Apart: two windows (1.6 million without
    failures, 5.8 million with one), one window with four and five inputs (1.9
    and 10.9 million).
  - Tasks: two builds of a repository; one server with a failing launch, read,
    write or listing; two servers. Apart: two runs with three attempts, two
    servers with two inputs (1.1 million), one fault more (7.3 million, without
    the last refinements of the module).
  - Sync: two panels, two workflows at once, a plain file and a clone, two
    versions made here or elsewhere, two inputs, one fault. Apart: three inputs
    (2.1 million), three versions.
  - Panel: one order that is selected and run while the page is left.
* `board_work`: `MaxVisits` of two lets a command end in a later view, `MaxCalls` of
  two lets a later view start one beside it, `MaxOutside` of one removes a folder
  under a command and `MaxFaults` of two makes a clean-up fail after a failed clone.
  Apart: three commands and one fault (338 000 states).

Deadlock is checked in `dispatch` (an explicit final step stands for "every
execution is over") and in `app_state`. In the other runs the system may stop:
work orders are archived, the bounds of workflows are used up.

## 5. Fairness

* `RunFairness` (`queue_recovery`): a live process goes on with a run (agents
  answer or time out, system calls return), and whoever waits for the registry
  lock gets it if it keeps coming free. The lock is a blocking OS lock, whose
  waiters are not starved for ever.
* `RecoverySpec` adds that the panel's refresh keeps offering the recovery of a
  stale run (it runs on a timer: strong fairness of the offer) and that a disk
  that fails does not fail for ever (strong fairness of the recovery's
  successful write). Nothing is assumed of users.
* `RuntimeFairness` (`dispatch`): the runtime drives every execution and
  polls every task again and again (weak fairness). `EverythingEnds` assumes in
  addition `ProvidersAnswer`: requests have a timeout of 120 s, delays are
  timers, free permits are handed out. `CancelEndsTheRun` needs none of that,
  which is its point.
* `FairSpec` (`registries_commits`): a program goes on with the call it is in,
  and a waiter for the registry lock gets it eventually. Nobody is obliged to
  start anything.

* `desktop_parts`: inspection workers, the main thread and the webview go on with
  what they have (git calls have timeouts of 10 s and 3 s); readers of tasks are
  answered and the poll timer of the board fires; the auto-refresh timer of the
  queue panel fires and its calls are answered (`Progress` of the modules, weak
  fairness). Users, terminals, timers of other parts and answers to writes owe
  nothing. Sync, access and the project registry are checked for safety only.

* `board_work` (`Progress` of `RepositoryOperations`): native threads go on, git and gh
  are killed after their timeouts, answers are delivered and readers answered. Users,
  failures and inspections owe nothing.

No other run needs fairness.

*Order of answers.* Commands of one window to SQLite and to the vault are
synchronous on the native main thread and are taken to be answered in the order
they were sent (`ProjectRegistries`, `WorkspaceAccess`). Everything asynchronous
(tasks, sync, inspections, the queue panel, app state) is answered in any order.

## 6. What is proved

The theorems hold for every value of the constants that satisfies the named
assumptions of the module: any number of orders, runners, editors, executions,
agents, permits, files, windows, and without any of the bounds above being
small.

**`QueueExecutionProofs`** (assumptions: desktop, command-line and editor actors
are disjoint, `Absent` is no content; for the refinement also that `Nobody` is no
job, `JobAssumption`). `TypeCorrect == Spec => []TypeOK` and
`MutualExclusion == Spec => []OneRunPerOrder`. The invariant is
`LockInv == TypeOK /\ Placed /\ HasSnapshot /\ HoldsLock`: mutual exclusion is
not inductive by itself, what carries it is that a runner past `locked` is the
holder recorded in `execLock` of its own order (`HoldsLock`), that it has an
order (`Placed`), and that it has read one before it writes (`HasSnapshot`).
It holds with external writers as well: they do not touch locks.

What a run or an editor may rely on while nobody outside writes is `OwnedInv`, one
conjunct per actor, so that a step of one shows what it achieves for its actor and
that the others are not disturbed. A run that has checked the file under the
registry lock will replace exactly what it read (`WritesWhatItRead`); one that is
about to write "running" has set the mark (`OpensMarked`); one at work finds its
order running (`WorksOnRunning`); what it commits at the end is no longer running
(`EndsSettled`). An editor that has checked holds the registry lock and finds what it
read still there, with the execution lock where it touches a running order, and asks
only for changes that do not begin a run (`EditOK`); and "running" is marked
(`MarkedOK`). `RunningAccounted` follows from it,
and so does `EditsNeverReverted`, an action property: only two steps rename a file,
and a run keeps the body. `LifecycleImplemented == WorkduckSpec => ImplementsLifecycle`
is the refinement: `InitMaps` for the initial states, `RunMaps`, `EditorMaps` and
`DeathAbandons` for the actions (the commit of "running" is the begin of a job, the
commit of its end completes or fails it, a crash abandons it, everything else is a
stutter), joined in `EveryStepMaps`. The mapping `JobOf` is a choice over runners and
needs mutual exclusion to be one.

**`QueueProofs`**, *Dispatch* (executions have an order and at least one agent,
limits are positive). `RunInv` joins the type of the state with six facts:
registered executions are those in the phases between registration and
unregistration; handles are registered before tasks are spawned; only working
tasks are polled; handle counts and phases agree; outcomes are joined in order
and are what the tasks ended with; and the three safety properties. From it:
`TypeCorrect`, `CancelIsComplete`, `NobodyIsLeftBehind`, `RegistryExcludes`,
`ReportsAreComplete`. `PermitInv` adds the counting argument (cardinalities of
the finite sets of holders) for `PermitsNeverLeak`. `TimelyCancelsHonoured == Spec =>
TimelyCancelIsHonoured` is safety although its property speaks of two moments: a cancel
that comes in time dooms its execution (`Doomed`), because some agent of it is not spawned
yet, is cancelled already, or is working, not being polled and aborted. Such an agent never
answers, no step brings it to, and the report needs every answer.

*Folder* (file names and fields are distinct from content, the names of files are
finitely many, programs are any). `FolderInv == FolderTypeOK /\ CommandsAreSound /\
UniqueDelegation /\ TiesAreAsked`. Uniqueness is not inductive by itself, as a command
writes later than it checks: `CommandsAreSound` says that at most one command is under
way (`OneCommand`, which is the lock) and that what it checked still holds
(`StillSound`): no other file delegates what it is about to delegate, since only a
deletion or a run, which can only lose a delegation, changes a file meanwhile.
`KindsOfSteps` sorts the steps by what they do to files, and the lemmas on types,
commands, uniqueness and ties follow that sorting. From it `FolderTypeCorrect` and
`DelegationIsUnique == FolderSpec => []UniqueDelegation`.
`PanelKeepsListable == FolderSpec => PanelNeverOverfills`: a command of the panel leaves no
more files than the panel can list (`FewerFiles`, `OneMoreFile`, with the cardinality
theorems of the library). A run that publishes its report does not look at the limit
(8), which is why the property speaks of steps that leave runs alone and exempts the
command that had counted before (`crowded`).

*Briefs* (in addition a natural limit of discovery, `None` is no evidence). `GatesAreGrounded ==
BriefSpec => []GateIsGrounded` with `BriefInv == FolderInv /\ BriefTypeOK /\
EvidenceHolds`. While files are left to read the histories are what they say
(`HistoriesHold`, for which a repository in a file is one that was asked for,
`TiesAreAsked`, and a report that is deleted never comes back, `ReportsStay`); what was
found was meant (`FoundWasMeant`); an order or a report that was there all along is
found, or yet to be read, or the lookup failed (`OrdersAreFound`, `ReportsAreFound`);
and a link is one the listing had, or was made from what is shown (`LinksAreFound`).

**`WorkspaceRegistriesProofs`** (desktops and command lines are disjoint, the
agents are finitely many).
`RevisionsAdvance == Spec => RegistriesAdvance` and `CommandsAreExclusive`. The
invariant is `Shapes /\ LockIsHeld /\ Progresses /\ JournalIsNext`: the holder
of the lock is the one process inside a command; each position inside a command
says how far the files have got; and a journal on disk holds exactly the next
revision of a pair whose files are each either replaced or not. The action
property follows from one lemma per step that shows `Advance` together with the
invariant.

`Records == IInv /\ RecordInv` adds what the registries record. `Copies` is the
reason for the revision checks: whatever copy a window or a workflow has, and however
old, if its revision is the committed one it lacks no committed evaluation but by a
removal or a reset, and nor does what the workflow made of it. With `Workflows` (what each workflow has in its hands
after each of its commands) and `MarksFollow` (a report is marked after the commit of
the scores) it gives `EvaluationsCountOnce == Spec => []CountedOnce` and the action
property `EvaluationsAreKept == Spec => EvaluationsStay`.

`SumInv` is about the summaries. Of a copy with the committed revisions it says that it
agrees with itself, or that it shows the committed personas beside agents with the committed
sums (`Matches`); of what a workflow is about to write as a pair, that it agrees (`MineOK`); of
what a personas panel is about to save alone, that it leaves the committed summaries as
they are, unless the board was left unsaved (`AloneOK`, `BoardOK`). It is an invariant
without any exemption: a committed pair that disagrees after the accident
is as good a subject as any. `SumStep` is what a step does under it, and
`SummariesStayRight == Spec => Agree(Committed) /\ SummariesAgree` follows. That a summary
depends only on the agents that have the persona, and is zero when nobody does, is a
statement about a fold over a set of agents; it is proved from a set of agents that is minimal
among those for which it fails (`SumsExist`, `SumsStay`, `SummaryStays`).

**`AppStateProofs`** (the registry's key is no setting; `None`, `Asked` and `Absent`
are distinct and no records; windows are finitely many). `EditsAreKeptHolds == Spec => []EditsAreKept`: the invariant `KeptInv`
says that no record of a setting, in the table, the journal or a flush under way,
is younger than its last edit, that a record with the stamp of that edit is that
edit, and that a flush that was answered has left the edit in the table if it
carried it (`AnsweredIsStored`), which is why the journal entry may go.
`LeaseHolds` and `RegistrationsStayHolds` rest on `RegistryInv`: the registry is
never journalled, only its default can be replayed by a start, over a row that is
not there or is that default, and a proposal builds on a snapshot its window
still shows (`Sound`).

`TypeCorrect == Spec => []TypeOK` needs more than shapes. That a window which has started
shows a row for every key rests on the rows it read or wrote before (`RowsAreThere`), and
that stamps stay within their bound on counting the transactions that still wait for one
(`RoomIsKept`, with the cardinality theorems of the library).

`ShownNeverGoesBackHolds == Spec => ShownNeverGoesBack` uses all three invariants and
`ShownInv`. What is pending for a setting is its last edit (`JournalIsLatest`). Whatever a
window shows, the table or the journal has something as new (`ShownIsReached`), so that a
row or an entry published later is no step back. A refresh that was answered is in the past
but no older than what is shown, since every new version of the cache voids it, and one
that is asked for will be no older either, since it is asked for without a pending write
(`ReadIsPast`, `ReadIsNews`, `ReadsFollow`). A flush that was answered left its records, or
younger ones, in the table (`AnswerIsPast`), a window that starts shows what it replays or
what it has read (`StartShows`), and a proposal is younger than the registry it was made
from (`ProposalIsNews`). `ReconciledShows` is where the exception enters: a superseded
answer is younger than the record that was sent, but that record can be older than what
is shown when the journal has no entry any more.

**`ScaffoldApplyProofs`** (`ScaffoldConstants`: `None` is neither an instance nor a
lock file, a manifest or a journal). `ScaffoldLockExcludes == Spec => []ExclusiveOwnership`, with the
invariant `LockInv == LockTypes /\ Opened /\ OwnApart /\ Held /\ Marked /\
InPlace`. Exclusion is not inductive by itself: whoever works holds the OS lock of
the lock file it has open (`Held`), what it has open exists (`Opened`), no two
instances own the same lock file (`OwnApart`), only a marked file is removed as
stale and a new one is empty (`Marked`), and the file at the path is the one its
owner holds or is about to hold (`InPlace`), unless a file was removed in place of
another. One lemma per kind of step shows that it arrives at such a state and that
nobody else is disturbed (`Arrives`, `OthersKeep`).

`AddedInv` is what the files rest on: types, that what is counted as added is as
generated, and, until one of the accidents happens (`Clean`), that the manifest a
journal leads to lists the journal's files while the one before it lists none of them
(`JournalOK`), that added files are listed (`Accounted`) and that each instance has a plan, a journal or an undo list that
matches the disk (`PlanOK`, `WriteOK`, `UndoOK`). It uses `LockInv`: only the owner of
the lock changes manifest and journal, so that a plan stays right while others stand
in line. `ScaffoldTypeCorrect`, `AddedAccountedFor` and the action property
`UsersHaveDecided` follow.

**`DesktopProofs`** holds parts that share nothing: it extends `WorkspaceAccess`
and `RepositoryOperations` and takes `RepositoryTasks`, `RepositoryInspection` and `WorkspaceSync` as the
instances `Tasks`, `Inspection` and `Sync`.

*Access* (`AccessConstants`: at least one attempt, natural bounds, `None` is no panel).
The commands executed and those that wait are looked at as one queue (`At`, `Size`), so
that an execution moves nothing but the border between them. `Good` says of a state of
the interface that the closes in the queue are counted (`Counted`), that nothing is shown
while one is under way (`Hidden`), that nothing which opens a session stands behind a
close (`NoneBehind`), that whatever an answer will be refused for is a close behind it
(`DeadBefore`, `GoneIsDead`), and that the flows of a panel are waited for by a panel
(`Waited`). `Held` ties it to the main thread: an executed close has left no session
(`Revoked`), and with no close under way the session is the one shown or the one that the
last answer on its way will show (`Told`). These are predicates of a record, as the
model's handlers are functions of one: a lemma for each way of changing it (an answer
taken, a command sent, everything silenced by a close, the panel changed) is used by
every handler. With `UnlockInv` (a verification that counts began after the last lock and
outside a cooldown, an unlocked workspace has none) they give `AccessTypeCorrect`,
`QuietSessionsAgree == Spec => []QuietViewIsSession` and
`LocksAreFinal == Spec => LockIsFinal`. The attempt found a flaw of the model: two guards
of a `CASE` in `Outcome` overlapped for a command that fails, which TLC resolves by taking
the first and the prover does not resolve at all.

*Board* (`RepositoryConstants`: `None` is no repository,
folder, operation or command). `BoardInv` joins to `BusyIsWork` that commands are
numbered in the order they start and views in the order they come (`Numbered`), and
that nothing in the history, or on its way there, is running (`Ended`): a history that
is read late can therefore not make a repository busy, and the number of an operation
tells the command of this view from one of a former view. `DiskInv` says that two
commands on one repository have disturbed each other (`Disturbed`), that otherwise
half a clone has the command that finishes it or cleans it up (`PartsAreCloned`), and
that a clone that succeeded is whole (`ClonesAreWhole`). From it `BusyBoardsWork` and
`ClonesLinkedAreWhole`.

*Tasks* (`TaskConstants`: finitely many repositories, at least one, none of which is
called like the user or the board; at least one worker and attempt; natural bounds).
`TaskTypes` is typing in three parts, with the fact that a read has waiters exactly while
it is under way. `RecordsInv` says what is on disk and what is known of it: a terminal
whose run has its result is gone, so that a result is final (`FilesOK`); what the cache
has seen of a file is no newer than the file, and with the same stamp it has the same
state or could not be read (`SeenOK`); the metadata that a scan has just taken are no
newer than the file, the runs it has visited have been seen, and as long as the folder has
not changed since, those seen running are running (`ScanOK`); the records kept from the last
answer tell results that are so, and, as long as the folder's stamp is the present one, they
are those of the newest readable runs (`KnownOK`), which is what an answer without a scan
rests on; an answer on its way stays right, although files change meanwhile (`AnswerOK`,
`ReadIsCurrent`).
Lemmas say what each way to touch files, cache and read does to these parts, and the
actions cite them. `TasksInv` adds that the batch calls an item succeeded only with
its own run. From it `TasksTypeCorrect` and `TasksToldRight == Spec =>
[]TasksAreToldRight`. That `Max` of a set of runs is one of them is proved from the
well-foundedness of strict inclusion (`SmallestThereIs`).

*Inspections* (`InspectionConstants`: finitely many repositories and folders, a capacity of
at least one, `NoValue` is none of the other values). A schedule call takes its candidates
one after the other, so what it leaves is a fold over a sequence, and its result is the
subject of an induction over the candidates. The library's principles are not usable here
(7); from a least element (`SmallestThereIs`) comes an induction over the numbers up to n
for a set (`CountUp`), and from that, for a step that is a function, that the recursion a
fold is made of exists (`FoldExists`). `Taken` is what must hold when some candidates have
been taken: the queue is in order (`Tidy`: it has exactly the waiting jobs, each once, the
jobs keep to the capacity and somebody waits for each), other scans have the claims they
had, and the scan has one claim for each candidate that was not rejected
(`EnqueueSteps`, `ScheduledIsTaken`). A bijection between those candidates and their claims
then gives the count (`CandidatesAreOwed`). `SchedulerInv` adds what makes this inductive:
a scan that is not yet scheduled has left no trace (`NoTrace`), because its generation is
taken once and scheduled at most once, by the refresh that took it (`CallsSound`); the
cancel with which the native `schedule` begins therefore finds nothing to do. Workers
have running jobs, each another one (`WorkersSound`), so that a job that ends was not
queued; and the counts are exact (`CountsSound`). From it
`SchedulerStaysExact == Spec => []SchedulerIsExact`.

*Sync* (`SyncConstants`: a first panel, finitely many slots for workflows and plain files,
natural bounds, `None` is no number and no Git action). The two parts of `SyncIsExact` are
said of the moment a workflow reports; `SendOk` and `ReceiveOk` say what it must already be
able to count on at every earlier step. The version of a send is in the file it was written
to, then committed, or it is in `lost` because another save came between; once the push has
answered, it is at the remote. The tip a receive fetched is known to the clone from then on,
and is contained in it when the inspection tells that nothing is behind, when the pull has
answered, and when the file is loaded. They hold together only with what an inspection is
worth: it is of the file in the settings, as long as these are not edited, and the receive
that asked for it waits for nothing else (`Looks`); a panel not yet opened has no workflow
(`Unopened`). Between two of its steps a workflow depends on the others only through the
versions, and these only grow: nothing known to clone or remote is forgotten, what the file
had is committed, still there or lost, and when the branch gets an upstream the clone has
all the remote has. That is `Moves`. Every action is shown to keep to it, and one lemma
(`FlowStays`) gives from it that all workflows but the one that moves keep what they
have. `SyncInv` is inductive, and `SyncTypeCorrect` and `SyncStaysExact == Spec => SyncIsExact`
follow, for any number of panels, workflows, versions and edits.

**`QueuePanelProofs`** (for the buttons and the identifiers nothing is assumed of the
constants; for the display that `Null` is neither an order nor a number,
`QueuePanelConstants`). `BusyInv` is `PageOK`: the shapes of panel, calls and refreshes,
and for each flag that it is set exactly when the calls and refreshes of the present page
that belong to it (`Own`, `Ends`, `Chosen`) are not empty, and that these are at most one.
What makes it inductive is that it is said of the set of calls and not of a step: a lemma
for each way in which a step treats that set (a new call, one that goes on, one that
answers and is followed by a refresh, everything disowned) is used by every action. From it
`ButtonsAreExact == Spec => []BusyIsExact`. `IdsInv` adds that identifiers of runs
are not used twice and that a refresh forgets only what has answered:
`RunsStayCancellable == Spec => IdentifiersStay`. `DisplayInv` adds what is known: no
state of an order on display, in a dialog, in a call or in a refresh is newer than what was
written last (`Known`, `Latest`), a completed order is not written any more, so that
what its completion answers is the last state (`GoodCall`), whatever may still be shown
when it is answered is about the order clicked last, an edit under way keeps its dialog
and with it the selection (`Follows`), and what a refresh has fixed is at least as new as
what was shown when it read (`Ordered`). From it `DisplayIsRight == Spec => DisplayFollowsClicks`. The first statement of this property
excused only runs and cancellations. It was not provable, and with two steps of another
program TLC finds why: an edit is saved, another program runs the order and dies, a
refresh that began before marks it as failed and shows it, and then the answer of the
edit shows the state it had saved. The code behaves so
(`queue-panel-controller.svelte.ts:858`), hence `Brings` and the third instance of the run.

**`ProjectRegistriesProofs`** (`RegistryConstants`: at least one view, natural bounds, legacy
edits are not numbered like others, `Unset` is no other value).
`BoardsTypeCorrect == Spec => []TypeOK` and `EditsStay == Spec => EditsSurvive`, for any
number of windows, views, edits, queued writes, answers and events. The invariant is
`BoardsInv == OrderInv /\ (overtaken \/ EditsInv)`. `OrderInv` orders what is under way: only the
first operation of a window has begun, at most one answer is an operation's and it is that of
the first (`DoneOk`), a reload has one answer and its view has no writes waiting
(`ReloadOk`). `EditsInv` is about time, which no variable shows: that a registry is
at most as old as another is said by what it lacks of the row. `Before(x, y)`: what y
lacks of x has left the row, and if x still is the row, so is y. Along this order stand
what an editor has accepted, what its board shows, and the answers in the order they come
(`TimeOk`). `Fits(w, v, base, next)`: if the row is still what the editor built on,
the save contains it and adds only what nobody else has seen (`Private`); it holds for
every write from its edit to its commit, with `base` what it will be compared with
(`SaveOk`), and it is what makes a save drop nothing. That a late answer takes no draft
away needs the queue: later writes of a view contain the earlier ones and the edits
between (`ChainOk`), the draft is that of the last one (`LastOk`), and an edit is in no
write before its own (`PendingOk`). `FreshOk` gives every new edit a number nobody has
seen. `BlankOk` is there because an empty row and a missing one compare as equal
(`matchesExpectedRegistry`): as long as the row has nothing, nobody shows
anything that a promotion could bring back. Without `overtaken` the invariant is false: a dialog
saves a registry older than what its editor accepted (8).
Each step is shown to keep `OrderInv` first; then lemmas say what happens to the
registries when the row changes, when an answer arrives, when an operation joins
the queue, and when nothing moves but what is shown, and the actions cite them.

Each invariant was first checked by TLC on the instances above.

## 7. What is only model-checked

* Liveness (`RunsEnd`, `InterruptedIsRecovered`, `CancelEndsTheRun`, `EverythingEnds`,
  `WorkflowsEnd`, `SelectedAreInspected`, `ResultsAreShown`, `ListCatchesUp`,
  `OperationsEnd`): out of reach of the prover, which does not handle fairness and
  `ENABLED`.
* Nothing else: every safety property of the runs that pass, invariant or action property,
  is a theorem of section 6.

The library's theorems that take a predicate as a parameter (induction over numbers
and finite sets) cannot be used with the installed provers, nor can recursive
operators. Sums over sets and the scheduler's steps over a sequence are folds of the
community modules; what is needed about them is proved from minimal elements of
well-founded orders, one fold at a time.

## 8. Disagreements and observations

Two runs show that the code does something else than the source says:

* `queue_stale_preview`: the command line begins a run without validating the
  locked snapshot and calls `fail()` when the confirmation of the locked work
  order differs from the approved one (`bin/workduck-cli.rs:218-234`). A work
  order edited between preview and run is rewritten as failed, although "a
  rejected preview must not turn an externally edited work order into a failed
  run" (`queue_work_order_execution.rs:177`).
* `folder_lost_delegation`: the struct through which a native run rewrites a work
  order has no `sourceReport`. After a run the delegation is not recognised any
  more, and a second delegation of the same report is accepted, although "a
  matching evaluator source report may have only one delegation"
  (`queue_folder/evaluation_delegation.rs:7`).

Observations without a run of their own:

* A marker left by an earlier run lets a later one take over a `running` status
  that somebody outside the program wrote (`queue_work_order_execution.rs:173`).
* `queue run` rejects any `running` work order before it looks at the marker
  (`bin/workduck-cli.rs:172`); the documentation says interrupted runs can be
  tried again.
* A takeover that dies between truncating and writing the marker leaves a
  `running` order that only the panel's recovery gets out of there
  (`queue_work_order_execution.rs:252`).
* A native run drops the repository identifiers of tasks and gives report tasks
  fresh identifiers (`queue_execution.rs:93`, `queue_result_report.rs:61`): a
  linked brief is not blocked by a failed run.
* A run writes its report without the folder's capacity and size checks
  (`queue_execution.rs:799`); a command that counted the files before it then writes
  one more, and the panel can list none of them until some are removed.
* A failed save leaves the unsaved registry on display
  (`PersonasPanel.svelte:284`, `AgentsPanel.svelte:604`). A later edit of the personas
  panel that changes no agent saves its personas alone, with the summaries of the pair
  that was not saved, and these disagree with the committed agents. `registries_panels`
  reaches this, and `SummariesAgree` names exactly this step as its accident.
* A save that failed after its journal was written commits later
  (`workspace_data_file.rs:411`); a desktop evaluation that died between its two
  commits cannot be retried from the interface
  (`queue-panel-evaluation-controller.svelte.ts:66`); evaluations without a key
  are not deduplicated; `queue run` reads the registries without lock and
  recovery (`bin/workduck-cli.rs:175`).
* `reconcileCommittedRecords` compares values, not stamps
  (`app-state-storage.ts:625`): after three edits of one setting by two
  instances, the last back to the value of the first, a superseded answer can
  publish the second one, and the window shows it until the next focus. TLC
  reaches this with `MaxClock` of three; `ShownNeverGoesBack` excepts it by name.
* Two instances whose very first starts overlap: the default that the slower one
  promotes carries a later time stamp than an edit made in the other meanwhile
  and replaces it (`app-state-storage.ts:146-171`). The model assumes that the
  first start is alone (`FirstStartIsAlone`).
* `removeFlushedPendingWrites` compares and removes in two calls: atomic within a
  window, and across instances only by the browser's storage mutex.
* *Queue panel.* A running order is shown before the native side has begun
  (`queue-panel-work-order-execution-workflow.ts:87`). An answer without a work
  order brings back the one that was sent, over a newer display of the same order
  (`queue-execution.ts:172`). The answers of a run and of its cancellation may
  cross: a cancel marks a dead run failed, the next run takes the order over, and
  the late answer of the cancel shows the failed order. In the same way the late answer
  of an edit shows the state it saved over a newer one that a recovery has shown. A start that is refused
  because the order is running takes over the key of `activeExecutions`, and a
  page that was left forgets all keys: such a run cannot be cancelled from the
  panel any more (a cancel then falls to marking, which the execution lock
  refuses while the run lives). A cancel that is answered after a deletion shows
  the deleted order without a path. A refresh that is in flight when an own run
  ends may announce its report a second time
  (`queue-completed-report-notifications.ts:46`). A selected order is refreshed
  only by recoveries.
* *Project registry.* The dialogs that create projects, groups, repositories and
  forks, and the deletion with a folder, take the registry before they wait for
  native work and save it through `persistRegistry`
  (`project-board-submit-actions.ts:128`): an edit committed meanwhile is dropped,
  although edits are meant to "build on the latest draft"
  (`project-board-registry-writer.svelte.ts:8`). A lost answer leaves a draft with
  an error although it was committed. A commit event of another window that is
  delivered before the own write's answer, with its reread answered after it, is
  dropped: the board is stale until the next focus or event.
* *Inspection.* Selecting another project cancels the full scan and inspects only
  its repositories; the others stay without a status until links change. A single
  refresh after a git operation may join an inspection that began before it and
  shows its result as fresh for 30 s
  (`project_repository_inspection.rs:66`). Error records are cached as fresh.
* *Vault.* A panel that is left while it saves and opened again may open the old
  envelope while the old write lands; while a panel is busy only its envelope is
  updated, so the session stays old and the next save overwrites the saved secret.
  A failing write of a panel that is gone closes the session of the new one. After
  the first cooldown every single wrong password starts another one; wrong
  verifications that were superseded are not counted.
* *Tasks.* A projected "stopped" of a live server can be cached when the read falls
  between the creation of its log and the start of its child. A record that could
  not be read once is taken as unreadable until metadata change. A batch waits
  through latest records only: a newer run hides the awaited one until the
  timeout. A launch of several servers answers with an error although the first one
  runs.
* *Git operations.* A board that was left and entered again does not know of the clone
  it began: a second one for the same repository takes the half-made folder for an
  existing clone (`project_repository.rs:350-363`) or, when it fails, removes the
  first one's (`project_repository.rs:386`). A death of the application in the middle
  of a clone leaves a folder that the next clone links. A stored history that is
  answered before the registry is dropped (`ProjectBoardRepositoryLifecycle.svelte:103`).
  A link that is removed while git works on it and brought back by a reload has lost
  its busy state. `spoilt` exempts the first two.
* *Project folders.* The dialogs adopt a folder that exists, and the rollback after a
  failed save deletes it with everything in it (`project-board-submit-actions.ts:128`,
  `project_folder.rs:677`). The save also counts as failed when the workspace was
  changed meanwhile, and when the answer to a write that was committed is lost.
  A deletion removes the folder first: if the registry cannot be saved afterwards the
  node stays without one until it is repaired.
* *Terminals.* After a terminal is edited the panel shows a session that still runs as
  not connected; a removal that is answered after its terminal was selected and
  connected again leaves a process nobody owns.
* *Sync.* An import reads `current` right before its guarded write, so it replaces
  what was edited before. The export reads the registries in several calls, not in
  one snapshot; the model has them as one version.

* *Scaffolds.* The lock file is looked at and removed by path in two steps, in
  taking it over and in giving it back: an instance that is slow between the two
  removes the file of another, and two then work at once (`intruded`). A crash
  between creating and writing a lock file, or two instances that try the OS lock
  of a new one, leave an empty file, which every later command takes for a lock of
  somebody else. A journal that stays after the commit is recognised by the text
  of the manifest alone; once the manifest is edited or cannot be read, the next
  apply removes the committed files that are unchanged and reports them as
  conflicts (`astray`, `unread`). A file that cannot be read during a rollback
  counts as edited and is left without an entry (`unread`).

## 9. What is not modelled

* *Inside modelled parts*: parsing and formatting, prompts, texts and limits of
  strings, HTTP, filters and sorting of lists, notifications and read marks; the
  evaluation dialog of the queue panel (its commits are in
  `WorkspaceRegistries`); selection, drag and drop and normalisation of project
  nodes; legacy values and migrations of app state, its browser-only backend and
  unreadable journal entries or rows; resolving secret references in requests;
  process groups and the process list of a repository; plain-text export and
  import.
  In `ScaffoldApply`, metadata that cannot be read while an undo looks at a file the
  scaffold did not generate; in `RepositoryInspection`, records that are rejected at once
  because their path is not valid; in `RepositoryTasks`, a record of the second server of a
  launch that cannot be written (`project_repository_task.rs:582`); in `WorkspaceSync`,
  settings without a folder; in `BriefEvidence`, links to tasks of repositories and two
  files with one identifier.
* *Git operations, imports*: what git and gh do inside a call; forks and the list of
  import attempts, which begin in the dialogs.
* *Project folders*: creating one, with a scaffold or without, renaming and
  deleting; the dialogs around them. In `ScaffoldApply`: links and directories in
  the way, directories created and removed again, the staging copies, manifests
  that are broken or belong to another scaffold (all end the command early).
* *Terminals*: pseudo-terminals; their page is not reachable in this version.
* *Agent API, MCP server, search*: read-only projections.
* *References and skills*: single files saved under the revision check modelled
  in `WorkspaceRegistries`.
* *Brief texts*: a list in browser storage with one writer.
* *Shell, translations, packages, scripts*: no shared state of their own.

## 10. Plan

Done, in this order: `QueueExecution` with `WorkOrderLifecycle` (the files users
lose work in), `QueueDispatch` (cancel, permits), `QueueFolder`,
`WorkspaceRegistries`, `AppState`, with proofs for each; then
`RepositoryInspection`, `WorkspaceAccess`, `ProjectRegistries`,
`RepositoryTasks`, `WorkspaceSync`, `QueuePanel`, `ScaffoldApply` and
`RepositoryOperations`. Proved since: what runs and editors rely on and the
refinement of the life cycle, what scaffolds add and leave alone, the evaluations and
summaries of the registries, the busy state and the clones of the board, the buttons,
identifiers and display of the queue panel, cancels that come in time, what the
windows of the application show, the sessions and locks of a workspace, what is told
of repository tasks, the counts of the inspections, what is sent and received, what becomes
of edits on the boards, the capacity of the queue folder, and, with `BriefEvidence`, what
the gates of briefs say.

Next, most important first:

1. A composition of `ProjectRegistries` with the dialogs' folder work.
