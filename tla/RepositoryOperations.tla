------------------------ MODULE RepositoryOperations ------------------------
(***************************************************************************)
(* The git operations of the project board: clone, initialize, publish,    *)
(* fetch, pull and push.  A command runs on a thread of its own and goes   *)
(* on when the board is left; the board that started it knows it as its    *)
(* running operation, a later view of the same workspace does not.  What   *)
(* an operation ended with is stored and shown to later views.  Only one   *)
(* folder per repository matters, and of it what the commands look at.     *)
(***************************************************************************)
EXTENDS Integers, FiniteSets

CONSTANTS
    Repositories,   \* repositories with a remote, the registry links some to a folder
    Null,           \* no call, no operation
    MaxVisits,      \* bound: views of the workspace
    MaxCalls,       \* bound: commands started
    MaxOutside,     \* bound: folders removed by users
    MaxFaults       \* bound: steps that fail, and deaths of the application

VARIABLES
    folder,     \* what is at the path of each repository
    linked,     \* repositories that the registry links to their path
    seen,       \* repositoryGitStatusById: what the board last saw of a folder
    operations, \* repositoryOperationById of the board that is shown
    visit,      \* the current view, 0 while the board is not shown
    visits,     \* views so far
    registry,   \* whether the view has read its registry
    history,    \* whether the view has read the stored operations
    calls,      \* the commands under way
    started,    \* commands so far
    stored,     \* project_repository_operation_records: the newest of each repository
    finished,   \* operations finished so far, their order
    spoilt,     \* history: repositories whose clone was disturbed
    outside, faults

boardVars == <<folder, linked, seen, operations, visit, visits, registry, history, calls, started,
          stored, finished, spoilt, outside, faults>>

\* "empty": no commit yet; "created": an origin that has not been pushed to; "part":
\* a clone under way or broken off, its origin is configured before its content comes.
Folders == {"none", "plain", "empty", "local", "created", "part", "whole"}
CommandNames == {"clone", "init", "publish", "remote"}

IsGit(f) == f \notin {"none", "plain"}
HasOrigin(f) == f \in {"created", "part", "whole"}

\* look to clean are steps of the native command, the others of its caller.
Native == {"look", "attempt", "fetching", "clean", "commit", "create", "push"}
Answered == {"cloned", "ok", "failed", "refreshed"}

\* by: the command. at: its place among those that have finished.
Operation == [by : 1..MaxCalls, state : {"running", "succeeded", "failed"}, at : Nat]

Call == [repo : Repositories, name : CommandNames, visit : 1..MaxVisits, attempt : 1..3,
         at : Native \cup Answered \cup {"record"}, ends : {Null} \cup Operation]

\* What the constants must be.
RepositoryConstants ==
    /\ MaxVisits \in Nat \ {0} /\ MaxCalls \in Nat
    /\ Null \notin Repositories \cup Folders \cup Operation \cup Call

Fault == faults < MaxFaults /\ faults' = faults + 1
Calls == {c \in 1..MaxCalls : calls[c] # Null}
At(c, p) == c \in Calls /\ calls[c].at = p
Go(c, p) == calls' = [calls EXCEPT ![c].at = p]
Here(c) == calls[c].visit = visit
Busy(r) == operations[r] # Null /\ operations[r].state = "running"

-----------------------------------------------------------------------------
(* The board                                                                 *)

\* What the buttons and the context menu admit.
CanClone(r) == r \notin linked \/ seen[r] = "none"
CanInitialize(r) == r \in linked /\ seen[r] = "plain"
CanPublish(r) == r \in linked /\ IsGit(seen[r]) /\ ~HasOrigin(seen[r])
CanRunRemote(r) == r \in linked /\ HasOrigin(seen[r])

Admitted(r, name) ==
    CASE name = "clone" -> CanClone(r)
      [] name = "init" -> CanInitialize(r)
      [] name = "publish" -> CanPublish(r)
      [] name = "remote" -> CanRunRemote(r)

\* Nothing starts on a repository that is busy; the board remembers the operation as
\* its own.
Start(r, name) ==
    /\ visit # 0 /\ registry
    /\ started < MaxCalls
    /\ Admitted(r, name)
    /\ ~Busy(r)
    /\ started' = started + 1
    /\ calls' = [calls EXCEPT ![started'] =
          [repo |-> r, name |-> name, visit |-> visit, attempt |-> 1, at |-> "look",
           ends |-> Null]]
    /\ operations' = [operations EXCEPT ![r] = [by |-> started', state |-> "running", at |-> 0]]
    /\ spoilt' = IF \E c \in Calls : calls[c].repo = r THEN spoilt \cup {r} ELSE spoilt
    /\ UNCHANGED <<folder, linked, seen, visit, visits, registry, history, stored, finished,
                   outside, faults>>

\* Another workspace, or another page: operations go on without the board.
Leave ==
    /\ visit # 0
    /\ visit' = 0
    /\ operations' = [r \in Repositories |-> Null]
    /\ seen' = [r \in Repositories |-> Null]
    /\ registry' = FALSE /\ history' = FALSE
    /\ UNCHANGED <<folder, linked, visits, calls, started, stored, finished, spoilt, outside,
                   faults>>

Enter ==
    /\ visit = 0
    /\ visits < MaxVisits
    /\ visits' = visits + 1
    /\ visit' = visits'
    /\ UNCHANGED <<folder, linked, seen, operations, registry, history, calls, started, stored,
                   finished, spoilt, outside, faults>>

RegistryRead ==
    /\ visit # 0 /\ ~registry
    /\ registry' = TRUE
    /\ UNCHANGED <<folder, linked, seen, operations, visit, visits, history, calls, started,
                   stored, finished, spoilt, outside, faults>>

HistoryRead_Over ==
    /\ visit # 0 /\ ~history
    /\ history' = TRUE
    /\ operations' = IF ~registry THEN operations
                     ELSE [r \in Repositories |->
                              IF stored[r] = Null THEN operations[r] ELSE stored[r]]
    /\ UNCHANGED <<folder, linked, seen, visit, visits, registry, calls, started, stored,
                   finished, spoilt, outside, faults>>

\* Stored operations fill in where the view has none of its own. What is shown is
\* pruned to the repositories of the registry: a history that is read first is lost.
HistoryRead ==
    /\ visit # 0 /\ ~history
    /\ history' = TRUE
    /\ operations' = IF ~registry THEN operations
                     ELSE [r \in Repositories |->
                              IF operations[r] = Null THEN stored[r] ELSE operations[r]]
    /\ UNCHANGED <<folder, linked, seen, visit, visits, registry, calls, started, stored,
                   finished, spoilt, outside, faults>>

\* The stored operations cannot be read, the board says so and goes on.
HistoryFails ==
    /\ Fault
    /\ visit # 0 /\ ~history
    /\ history' = TRUE
    /\ UNCHANGED <<folder, linked, seen, operations, visit, visits, registry, calls, started,
                   stored, finished, spoilt, outside>>

\* An inspection of the linked repositories is answered (RepositoryInspection).
Inspected(r) ==
    /\ visit # 0 /\ registry
    /\ r \in linked /\ seen[r] # folder[r]
    /\ seen' = [seen EXCEPT ![r] = folder[r]]
    /\ UNCHANGED <<folder, linked, operations, visit, visits, registry, history, calls, started,
                   stored, finished, spoilt, outside, faults>>

-----------------------------------------------------------------------------
(* The native commands                                                       *)

NativeOnly == UNCHANGED <<linked, seen, operations, visit, visits, registry, history, started,
                          stored, finished, outside>>

\* A folder at the target is taken for the clone if it is a repository of that origin.
LookForClone(c) ==
    LET f == folder[calls[c].repo] IN
    /\ At(c, "look") /\ calls[c].name = "clone"
    /\ Go(c, CASE f = "none" -> "attempt" [] HasOrigin(f) -> "cloned" [] OTHER -> "failed")
    /\ UNCHANGED <<folder, spoilt, faults>> /\ NativeOnly

\* git clone wants a folder that is not there.
CloneBegins(c) ==
    LET r == calls[c].repo IN
    /\ At(c, "attempt")
    /\ IF folder[r] = "none"
       THEN folder' = [folder EXCEPT ![r] = "part"] /\ Go(c, "fetching")
       ELSE Go(c, "clean") /\ UNCHANGED folder
    /\ UNCHANGED <<spoilt, faults>> /\ NativeOnly

CloneEnds(c) ==
    LET r == calls[c].repo IN
    /\ At(c, "fetching")
    /\ IF folder[r] = "part"
       THEN folder' = [folder EXCEPT ![r] = "whole"] /\ Go(c, "cloned")
       ELSE Go(c, "clean") /\ UNCHANGED folder
    /\ UNCHANGED <<spoilt, faults>> /\ NativeOnly

\* Credentials, network, timeout: git may leave what it has.
CloneFails(c) ==
    /\ Fault
    /\ At(c, "fetching")
    /\ Go(c, "clean")
    /\ UNCHANGED <<folder, spoilt>> /\ NativeOnly

\* The next attempt with the credential of the GitHub command line, then with none;
\* a failure that no credential mends ends the command.
AfterCleaning(c) ==
    \/ calls[c].attempt < 3 /\ calls' = [calls EXCEPT ![c].at = "attempt", ![c].attempt = @ + 1]
    \/ Go(c, "failed")

CleanUp_Keeps(c) ==
    /\ At(c, "clean")
    /\ Go(c, "failed")
    /\ UNCHANGED <<folder, spoilt, faults>> /\ NativeOnly

\* Whatever a failed attempt left at the target goes.
CleanUp(c) ==
    /\ At(c, "clean")
    /\ folder' = [folder EXCEPT ![calls[c].repo] = "none"]
    /\ AfterCleaning(c)
    /\ UNCHANGED <<spoilt, faults>> /\ NativeOnly

\* The folder cannot be removed, and nobody is told.
CleanUpFails(c) ==
    /\ Fault
    /\ At(c, "clean")
    /\ AfterCleaning(c)
    /\ spoilt' = spoilt \cup {calls[c].repo}
    /\ UNCHANGED folder /\ NativeOnly

\* git init: a repository that is there already is left as it is.
Initialize(c) ==
    LET r == calls[c].repo IN
    /\ At(c, "look") /\ calls[c].name = "init"
    /\ folder' = IF folder[r] = "plain" THEN [folder EXCEPT ![r] = "empty"] ELSE folder
    /\ Go(c, IF folder[r] = "none" THEN "failed" ELSE "ok")
    /\ UNCHANGED <<spoilt, faults>> /\ NativeOnly

\* fetch, pull and push want a repository with an origin; a push publishes.
RunRemote(c) ==
    LET r == calls[c].repo IN
    /\ At(c, "look") /\ calls[c].name = "remote"
    /\ IF HasOrigin(folder[r])
       THEN /\ Go(c, "ok")
            /\ folder' \in {folder, [folder EXCEPT ![r] = IF @ = "created" THEN "whole" ELSE @]}
       ELSE Go(c, "failed") /\ UNCHANGED folder
    /\ UNCHANGED <<spoilt, faults>> /\ NativeOnly

\* Publishing is for repositories without an origin.
LookForPublish(c) ==
    LET f == folder[calls[c].repo] IN
    /\ At(c, "look") /\ calls[c].name = "publish"
    /\ Go(c, CASE f = "empty" -> "commit" [] f = "local" -> "create" [] OTHER -> "failed")
    /\ UNCHANGED <<folder, spoilt, faults>> /\ NativeOnly

\* First the initial commit, then the repository on GitHub with its origin here, then
\* the push. Each wants what the one before has left.
Publish(c, at, from, to, next) ==
    LET r == calls[c].repo IN
    /\ At(c, at)
    /\ IF folder[r] = from
       THEN folder' = [folder EXCEPT ![r] = to] /\ Go(c, next)
       ELSE Go(c, "failed") /\ UNCHANGED folder
    /\ UNCHANGED <<spoilt, faults>> /\ NativeOnly

PublishStep(c) ==
    \/ Publish(c, "commit", "empty", "local", "create")
    \/ Publish(c, "create", "local", "created", "push")
    \/ Publish(c, "push", "created", "whole", "ok")

\* A git or gh process fails or times out before it has changed anything.
CommandFails(c) ==
    /\ Fault
    /\ c \in Calls
    /\ calls[c].at \in {"look", "commit", "create", "push"}
    /\ Go(c, "failed")
    /\ UNCHANGED <<folder, spoilt>> /\ NativeOnly

-----------------------------------------------------------------------------
(* The caller goes on with the answer, its board may be gone                 *)

\* The clone's path is saved in the registry the command began with
\* (FinishCaptured of ProjectRegistries), whether its board is shown or not.
Link(c) ==
    /\ At(c, "cloned")
    /\ linked' = linked \cup {calls[c].repo}
    /\ Go(c, "ok")
    /\ UNCHANGED <<folder, seen, operations, visit, visits, registry, history, started, stored,
                   finished, spoilt, outside, faults>>

LinkFails_Silently(c) ==
    /\ Fault
    /\ At(c, "cloned")
    /\ calls' = [calls EXCEPT ![c] = Null]
    /\ UNCHANGED <<folder, linked, seen, operations, visit, visits, registry, history, started,
                   stored, finished, spoilt, outside>>

\* The registry has moved on or cannot be written.
LinkFails(c) ==
    /\ Fault
    /\ At(c, "cloned")
    /\ Go(c, "failed")
    /\ UNCHANGED <<folder, linked, seen, operations, visit, visits, registry, history, started,
                   stored, finished, spoilt, outside>>

\* The board that is shown inspects the repository before it calls the operation done.
Refresh(c) ==
    LET r == calls[c].repo IN
    /\ At(c, "ok")
    /\ seen' = IF Here(c) THEN [seen EXCEPT ![r] = folder[r]] ELSE seen
    /\ Go(c, "refreshed")
    /\ UNCHANGED <<folder, linked, operations, visit, visits, registry, history, started,
                   stored, finished, spoilt, outside, faults>>

\* The operation ends on the board that began it, if that is shown, and is recorded.
Finish(c) ==
    LET ended == [by |-> c, at |-> finished',
                  state |-> IF calls[c].at = "failed" THEN "failed" ELSE "succeeded"]
    IN  /\ c \in Calls /\ calls[c].at \in {"refreshed", "failed"}
        /\ finished' = finished + 1
        /\ calls' = [calls EXCEPT ![c].at = "record", ![c].ends = ended]
        /\ operations' = IF Here(c) THEN [operations EXCEPT ![calls[c].repo] = ended]
                         ELSE operations
        /\ UNCHANGED <<folder, linked, seen, visit, visits, registry, history, started, stored,
                       spoilt, outside, faults>>

\* Of the records of a repository the one that finished last is read.
Record(c) ==
    LET r == calls[c].repo IN
    /\ At(c, "record")
    /\ stored' = IF stored[r] # Null /\ stored[r].at > calls[c].ends.at THEN stored
                 ELSE [stored EXCEPT ![r] = calls[c].ends]
    /\ calls' = [calls EXCEPT ![c] = Null]
    /\ UNCHANGED <<folder, linked, seen, operations, visit, visits, registry, history, started,
                   finished, spoilt, outside, faults>>

RecordFails(c) ==
    /\ Fault
    /\ At(c, "record")
    /\ calls' = [calls EXCEPT ![c] = Null]
    /\ UNCHANGED <<folder, linked, seen, operations, visit, visits, registry, history, started,
                   stored, finished, spoilt, outside>>

-----------------------------------------------------------------------------
(* Users and accidents                                                       *)

RemoveFolder(r) ==
    /\ outside < MaxOutside
    /\ folder[r] # "none"
    /\ outside' = outside + 1
    /\ folder' = [folder EXCEPT ![r] = "none"]
    /\ spoilt' = IF \E c \in Calls : calls[c].repo = r THEN spoilt \cup {r} ELSE spoilt
    /\ UNCHANGED <<linked, seen, operations, visit, visits, registry, history, calls, started,
                   stored, finished, faults>>

\* The application dies with the processes it has started.
Die ==
    /\ Fault
    /\ Calls # {}
    /\ calls' = [c \in 1..MaxCalls |-> Null]
    /\ visit' = 0
    /\ operations' = [r \in Repositories |-> Null]
    /\ seen' = [r \in Repositories |-> Null]
    /\ registry' = FALSE /\ history' = FALSE
    /\ spoilt' = spoilt \cup {r \in Repositories : folder[r] = "part"}
    /\ UNCHANGED <<folder, linked, visits, started, stored, finished, outside>>

-----------------------------------------------------------------------------
\* Repositories known by their remote alone, and folders that are linked.
BoardInit ==
    /\ linked \in SUBSET Repositories
    /\ folder \in [Repositories -> {"none", "plain", "whole"}]
    /\ \A r \in Repositories : r \in linked \/ folder[r] = "none"
    /\ seen = [r \in Repositories |-> Null]
    /\ operations = [r \in Repositories |-> Null]
    /\ visit = 0 /\ visits = 0
    /\ registry = FALSE /\ history = FALSE
    /\ calls = [c \in 1..MaxCalls |-> Null]
    /\ started = 0
    /\ stored = [r \in Repositories |-> Null]
    /\ finished = 0
    /\ spoilt = {}
    /\ outside = 0 /\ faults = 0

\* What native threads and the webview do by themselves.
Progress == RegistryRead \/ HistoryRead \/ \E c \in 1..MaxCalls :
    \/ LookForClone(c) \/ CloneBegins(c) \/ CloneEnds(c) \/ CleanUp(c)
    \/ Initialize(c) \/ RunRemote(c) \/ LookForPublish(c) \/ PublishStep(c)
    \/ Link(c) \/ Refresh(c) \/ Finish(c) \/ Record(c)

BoardNext ==
    \/ Progress
    \/ Leave \/ Enter \/ HistoryFails \/ Die
    \/ \E r \in Repositories :
          Inspected(r) \/ RemoveFolder(r) \/ \E name \in CommandNames : Start(r, name)
    \/ \E c \in 1..MaxCalls :
          \/ CloneFails(c) \/ CleanUpFails(c) \/ CommandFails(c)
          \/ LinkFails(c) \/ RecordFails(c)

\* git and gh are given up after a timeout, answers arrive, readers are answered.
BoardSpec == BoardInit /\ [][BoardNext]_boardVars /\ WF_boardVars(Progress)

-----------------------------------------------------------------------------
\* Every variable keeps its type.
BoardTypeOK ==
    /\ folder \in [Repositories -> Folders]
    /\ linked \subseteq Repositories /\ spoilt \subseteq Repositories
    /\ seen \in [Repositories -> Folders \cup {Null}]
    /\ operations \in [Repositories -> Operation \cup {Null}]
    /\ stored \in [Repositories -> Operation \cup {Null}]
    /\ visit \in 0..MaxVisits /\ visits \in 0..MaxVisits
    /\ registry \in BOOLEAN /\ history \in BOOLEAN
    /\ calls \in [1..MaxCalls -> Call \cup {Null}]
    /\ started \in 0..MaxCalls /\ finished \in 0..MaxCalls
    /\ outside \in 0..MaxOutside /\ faults \in 0..MaxFaults

\* The commands of the view that is shown whose outcome it does not know yet.
OwnWork(r) == {c \in Calls : calls[c].repo = r /\ Here(c) /\ calls[c].at # "record"}

\* A board shows an operation as running exactly while its one command of that
\* repository is under way: no late end of a former view's operation and no history
\* makes room for a second command, and none leaves the buttons disabled for ever.
BusyIsWork ==
    visit # 0 => \A r \in Repositories :
        OwnWork(r) = IF Busy(r) THEN {operations[r].by} ELSE {}

\* A folder is linked as the clone of its remote only when it is a whole one, whatever
\* attempts, failures and clean-ups went before, unless another command of a former
\* view, a user, a folder that would not go or a death of the application disturbed it.
LinkedClonesAreWhole ==
    [][\A c \in 1..MaxCalls :
          At(c, "cloned") /\ At(c, "ok")'
              => \/ folder[calls[c].repo] \in {"created", "whole"}
                 \/ calls[c].repo \in spoilt]_boardVars

\* What a board shows as running ends, or the board is left.
OperationsEnd == \A r \in Repositories : Busy(r) ~> ~Busy(r)
=============================================================================
