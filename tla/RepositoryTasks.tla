-------------------------- MODULE RepositoryTasks --------------------------
(***************************************************************************)
(* Tasks of the repositories of one workspace.  A launch writes a record   *)
(* file and opens a terminal; the script in the terminal owns the file     *)
(* from then on.  Readers get the newest record of every repository from a *)
(* cache that is checked against file metadata, with the records that have *)
(* no live process projected as stopped.  The project board polls it and a *)
(* batch waits on it.  Launches and reads run on the native main thread,   *)
(* one at a time; terminals run beside them, and answers arrive in any     *)
(* order.                                                                  *)
(***************************************************************************)
EXTENDS RepositoryTaskState

CONSTANTS
    Concurrency,    \* batch workers
    MaxAttempts,    \* PROJECT_REPOSITORY_BATCH_TASK_MAX_ATTEMPTS
    Kinds,          \* what the user launches: "build", "server" or both
    MaxRuns,        \* bound: runs begun
    MaxInputs,      \* bound: what the user does to the board
    MaxFaults       \* bound: launches, writes, reads and listings that fail

VARIABLES
    term,       \* the terminal of every run
    old,        \* the runs begun more than 30 s ago
    dir,        \* which of known ("cache") and read have the present stamp of the record folder
    launch,     \* launches asked for by the user and by the batch
    shown,      \* repositoryTaskRunById
    poll,       \* the poller of the board: is it reading, must it read again, is its timer set
    inputs, faults

vars == <<run, record, term, old, dir, known, read, launch, shown, poll, item, inputs, faults>>

TaskConstants ==
    /\ IsFiniteSet(Repos) /\ Repos # {} /\ "user" \notin Repos /\ "board" \notin Repos
    /\ Concurrency \in Nat \ {0} /\ MaxAttempts \in Nat \ {0}
    /\ MaxRuns \in Nat /\ MaxInputs \in Nat /\ MaxFaults \in Nat

Sources == {"user"} \cup Repos
Readers == {"board"} \cup Repos
States == {"running"} \cup Final

\* A record as it is on disk. pid: the terminal has published its process.
Record == [state : {"absent"} \cup States, pid : BOOLEAN, stamp : Nat]
Absent == [state |-> "absent", pid |-> FALSE, stamp |-> 0]

\* What a reader is told of a repository: its newest run, 0 if none is known.
Told == [run : 0..MaxRuns, state : {"absent", "stopped"} \cup States]
Nothing == [run |-> 0, state |-> "absent"]

Idle == [phase |-> "none", waiters |-> {}, runs |-> 0, todo |-> {}, meta |-> 0,
         settled |-> {}, shells |-> {}, working |-> {}, told |-> [p \in Repos |-> Nothing]]
NoLaunch == [phase |-> "none", repo |-> CHOOSE p \in Repos : TRUE, server |-> FALSE, run |-> 0]

Input == inputs < MaxInputs /\ inputs' = inputs + 1
Fault == faults < MaxFaults /\ faults' = faults + 1

Runs == DOMAIN run
Count == Cardinality(Runs)

-----------------------------------------------------------------------------
(* The shared read, as its callers see it                                    *)

\* readProjectRepositoryTaskRunRecords: a caller joins the read in flight.
Joined(rd, callers) ==
    IF callers = {} THEN rd
    ELSE IF rd.phase = "none" THEN [Idle EXCEPT !.phase = "asked", !.waiters = callers]
    ELSE [rd EXCEPT !.waiters = @ \cup callers]

\* refresh of the board's poller; the callers clear its timer.
Refreshed(pl) == IF pl.reading THEN [pl EXCEPT !.again = TRUE, !.timer = FALSE]
                 ELSE [pl EXCEPT !.reading = TRUE, !.timer = FALSE]
Asks(pl) == IF pl.reading THEN {} ELSE {"board"}

-----------------------------------------------------------------------------
(* Launching                                                                 *)

Running(p) == shown[p].state = "running"
Active == {p \in Repos : item[p].state \in {"launching", "reading", "sleeping"}}

\* Bound: the user has one launch under way.
UserLaunches(p, server) ==
    /\ Input
    /\ launch["user"].phase = "none"
    /\ ~Running(p)
    /\ launch' = [launch EXCEPT !["user"] =
                     [phase |-> "asked", repo |-> p, server |-> server, run |-> 0]]
    /\ UNCHANGED <<run, record, term, old, dir, known, read, shown, poll, item, faults>>

\* A command of the main thread waits for the one it executes.
Executing == read.phase \in {"scan", "reread", "unlisted"}

\* create_task_run_record, launch_repository_terminal, finish_task_terminal_launch:
\* the runs S get a record; if the spawn of the last one fails it has no terminal, and
\* its record says so unless that cannot be written either.
Begin(s, S, failing, state) ==
    /\ run' = [r \in Runs \cup S |->
                  IF r \in S THEN [repo |-> launch[s].repo, server |-> launch[s].server]
                  ELSE run[r]]
    /\ record' = [r \in 1..MaxRuns |->
                  IF r \notin S THEN record[r]
                  ELSE IF r = failing THEN [state |-> state, pid |-> FALSE, stamp |-> 1]
                  ELSE [state |-> "running", pid |-> FALSE, stamp |-> 1]]
    /\ term' = [r \in 1..MaxRuns |->
                  IF r \in S /\ r # failing THEN "starting" ELSE term[r]]
    /\ dir' = {}

\* run_project_repository_task: one terminal, or one for each of two servers,
\* of which the first record is answered.
Launch(s) ==
    /\ launch[s].phase = "asked"
    /\ ~Executing
    /\ \/ \E n \in IF launch[s].server THEN {1, 2} ELSE {1} :
             /\ Count + n <= MaxRuns
             /\ Begin(s, Count + 1 .. Count + n, 0, "running")
             /\ launch' = [launch EXCEPT ![s].phase = "answered", ![s].run = Count + 1]
             /\ UNCHANGED faults
       \/ \E n \in IF launch[s].server THEN {1, 2} ELSE {1} :
             /\ Count + n <= MaxRuns
             /\ Fault
             /\ \E state \in {"failed", "running"} :
                   Begin(s, Count + 1 .. Count + n, Count + n, state)
             /\ launch' = [launch EXCEPT ![s].phase = "answered"]
       \/ /\ Fault \/ (Count = MaxRuns /\ UNCHANGED faults)
          /\ launch' = [launch EXCEPT ![s].phase = "answered"]
          /\ UNCHANGED <<run, record, term, dir>>
    /\ UNCHANGED <<old, known, read, shown, poll, item, inputs>>

\* runProjectRepositoryTask resumes: the changed event refreshes the poller, the
\* board shows the record of its own launch, and the batch waits for its run.
LaunchAnswered(s) ==
    LET l == launch[s] IN
    LET ok == l.run # 0 IN
    LET told == [run |-> l.run, state |-> "running"] IN
    LET mine == s = "user" /\ ok IN
    /\ l.phase = "answered"
    /\ launch' = [launch EXCEPT ![s] = NoLaunch]
    /\ shown' = IF mine THEN [shown EXCEPT ![l.repo] = told] ELSE shown
    \* the new state of the board asks for one more reading
    /\ poll' = IF ~ok THEN poll
               ELSE IF mine /\ shown[l.repo] # told THEN Refreshed(Refreshed(poll))
               ELSE Refreshed(poll)
    /\ read' = Joined(read, (IF ok THEN Asks(poll) ELSE {})
                            \cup (IF ok /\ s # "user" THEN {s} ELSE {}))
    /\ item' = IF s = "user" THEN item
               ELSE [item EXCEPT ![s] = [state |-> IF ok THEN "reading" ELSE "failed",
                                         run |-> l.run, attempts |-> 0]]
    /\ UNCHANGED <<run, record, term, old, dir, known, inputs, faults>>

-----------------------------------------------------------------------------
(* The script in the terminal                                                *)

Alive(r) == term[r] \notin {"none", "closed"}

\* Write-WorkduckTaskRunRecord replaces the file, or ends the script.
Publish(r, state, next) ==
    \/ /\ record' = [record EXCEPT ![r] = [state |-> state, pid |-> TRUE, stamp |-> @.stamp + 1]]
       /\ term' = [term EXCEPT ![r] = next]
       /\ dir' = {}
       /\ UNCHANGED faults
    \/ /\ Fault
       /\ term' = [term EXCEPT ![r] = "closed"]
       /\ dir' = {}
       /\ UNCHANGED record

TerminalStarts(r) ==
    /\ term[r] = "starting"
    /\ Publish(r, "running", "ready")
    /\ UNCHANGED <<run, old, known, read, launch, shown, poll, item, inputs>>

\* The log file appears in the record folder before the command runs; only of a
\* server would a reader notice that it does not run yet.
CommandStarts(r) ==
    /\ \/ /\ term[r] = "ready"
          /\ term' = [term EXCEPT ![r] = IF run[r].server THEN "logged" ELSE "working"]
          /\ dir' = {}
       \/ /\ term[r] = "logged"
          /\ term' = [term EXCEPT ![r] = "working"]
          /\ UNCHANGED dir
    /\ UNCHANGED <<run, record, old, known, read, launch, shown, poll, item, inputs, faults>>

CommandEnds(r) ==
    /\ term[r] = "working"
    /\ \E state \in Final : Publish(r, state, "closed")
    /\ UNCHANGED <<run, old, known, read, launch, shown, poll, item, inputs>>

UserCloses(r) ==
    /\ Input
    /\ Alive(r)
    /\ term' = [term EXCEPT ![r] = "closed"]
    /\ UNCHANGED <<run, record, old, dir, known, read, launch, shown, poll, item, faults>>

\* is_task_process_starting: the launch window of 30 s closes for a terminal that was
\* closed, or that is slower than that (counted as a failure).
Age(r) ==
    /\ r \in Runs \ old
    /\ record[r].state = "running" /\ ~record[r].pid
    /\ Fault \/ (~Alive(r) /\ UNCHANGED faults)
    /\ old' = old \cup {r}
    /\ UNCHANGED <<run, record, term, dir, known, read, launch, shown, poll, item, inputs>>

-----------------------------------------------------------------------------
(* read_latest_cached_task_run_records                                       *)

\* is_fresh: nothing shown is running, and neither the folder nor the files of the
\* newest and of the unreadable records have changed.
IsFresh ==
    /\ "cache" \in dir
    /\ \A p \in Repos : known.latest[p].state # "running"
    /\ \A r \in Runs :
          (known.seen[r].state = "unreadable" \/ \E p \in Repos : known.latest[p].run = r)
              => known.seen[r].stamp = record[r].stamp

Settled == {r \in Runs : record[r].state \in Final}

ReadBegins ==
    /\ read.phase = "asked"
    /\ IF IsFresh \/ Runs = {}
       THEN /\ read' = [read EXCEPT !.phase = "answered", !.told = known.latest,
                                    !.settled = Settled, !.runs = Count]
            /\ UNCHANGED dir
       ELSE /\ read' = [read EXCEPT !.phase = "scan", !.todo = Runs,
                                    !.settled = Settled, !.runs = Count]
            /\ dir' = dir \cup {"read"}
    /\ UNCHANGED <<run, record, term, old, known, launch, shown, poll, item, inputs, faults>>

ReadFails ==
    /\ Fault
    /\ read.phase = "asked"
    /\ read' = [read EXCEPT !.phase = "failed"]
    /\ UNCHANGED <<run, record, term, old, dir, known, launch, shown, poll, item, inputs>>

\* The metadata of a file is taken before its content.
ReadMetadata ==
    /\ read.phase = "scan" /\ read.todo # {} /\ read.meta = 0
    /\ read' = IF known.seen[Min(read.todo)].stamp = record[Min(read.todo)].stamp
               THEN [read EXCEPT !.todo = @ \ {Min(read.todo)}]
               ELSE [read EXCEPT !.meta = record[Min(read.todo)].stamp]
    /\ UNCHANGED <<run, record, term, old, dir, known, launch, shown, poll, item, inputs, faults>>

ReadContent ==
    /\ read.phase = "scan" /\ read.meta # 0
    /\ \/ known' = [known EXCEPT !.seen[Min(read.todo)] =
                          [record[Min(read.todo)] EXCEPT !.stamp = read.meta]]
          /\ UNCHANGED faults
       \/ /\ Fault
          /\ known' = [known EXCEPT !.seen[Min(read.todo)] =
                          [state |-> "unreadable", pid |-> FALSE, stamp |-> read.meta]]
    /\ read' = [read EXCEPT !.todo = @ \ {Min(read.todo)}, !.meta = 0]
    /\ UNCHANGED <<run, record, term, old, dir, launch, shown, poll, item, inputs>>

Readable == {r \in Runs : known.seen[r].state \in States}

\* collect_live_task_processes, which may fail: then nothing looks dead.
ListProcesses ==
    /\ read.phase = "scan" /\ read.todo = {}
    /\ \E r \in Readable : known.seen[r].state = "running"
    /\ \/ read' = [read EXCEPT !.phase = "reread", !.shells = {r \in Runs : Alive(r)},
                               !.settled = Settled, !.working = {r \in Runs : term[r] = "working"}]
          /\ UNCHANGED faults
       \/ Fault /\ read' = [read EXCEPT !.phase = "unlisted", !.settled = Settled]
    /\ UNCHANGED <<run, record, term, old, dir, known, launch, shown, poll, item, inputs>>

\* Mutant: the listed processes are compared with the records as they were scanned.
Reread_AsScanned(r, lost) == known.seen[r]

\* reread_running_task_run_record; lost: the runs whose file cannot be read just now.
Reread(r, lost) ==
    IF known.seen[r].state = "running" /\ r \notin lost THEN record[r] ELSE known.seen[r]

\* is_stale_running_task_record. Without a process id a server is looked for by the
\* path of its repository; named: the repositories whose path some process carries.
Dead(r, rec, named) ==
    /\ read.phase = "reread"
    /\ rec.state = "running"
    /\ rec.pid \/ r \in old
    /\ IF ~run[r].server THEN ~rec.pid \/ r \notin read.shells
       ELSE IF rec.pid THEN r \notin read.shells \cap read.working
       ELSE run[r].repo \notin named

Projected(r, named, lost) ==
    LET rec == Reread(r, lost) IN IF Dead(r, rec, named) THEN "stopped" ELSE rec.state

\* latest_task_run_records_by_repository of the projected records, kept and answered.
Answer(named, lost) ==
    LET told == [p \in Repos |->
                    LET r == Latest(p, Readable) IN
                    IF r = 0 THEN Nothing
                    ELSE [run |-> r, state |-> Projected(r, named, lost)]]
    IN  /\ known' = [known EXCEPT !.latest = told]
        /\ dir' = {who \in {"cache"} : "read" \in dir}
        /\ read' = [Idle EXCEPT !.phase = "answered", !.waiters = read.waiters, !.told = told,
                                !.runs = read.runs, !.settled = read.settled \ lost]

Listed == read.phase \in {"reread", "unlisted"}
ScannedFinal ==
    /\ read.phase = "scan" /\ read.todo = {}
    /\ \A r \in Readable : known.seen[r].state # "running"

ReadEnds ==
    /\ \/ ScannedFinal /\ Answer({}, {}) /\ UNCHANGED faults
       \/ Listed /\ \E named \in SUBSET Repos : Answer(named, {}) /\ UNCHANGED faults
       \/ Listed /\ Fault /\ \E named \in SUBSET Repos, r \in Readable : Answer(named, {r})
    /\ UNCHANGED <<run, record, term, old, launch, shown, poll, item, inputs>>

-----------------------------------------------------------------------------
(* The answer reaches the board and the batch                                *)

\* Mutant: any result of the repository ends the wait.
Waited_AnyRun(p) ==
    LET told == read.told[p] IN
    IF read.phase # "failed" /\ told.state \in Final \cup {"stopped"}
    THEN [item[p] EXCEPT !.state = IF told.state = "succeeded" THEN "succeeded" ELSE "failed"]
    ELSE IF read.phase # "failed" /\ item[p].attempts + 1 < MaxAttempts
    THEN [item[p] EXCEPT !.state = "sleeping", !.attempts = @ + 1]
    ELSE [item[p] EXCEPT !.state = "failed"]

\* What waitForProjectRepositoryTaskRun makes of an answer.
Waited(p) ==
    LET it == item[p] IN LET told == read.told[p] IN
    IF read.phase = "failed" THEN [it EXCEPT !.state = "failed"]
    ELSE IF told.run = it.run /\ told.state = "succeeded" THEN [it EXCEPT !.state = "succeeded"]
    ELSE IF told.run = it.run /\ told.state \in {"failed", "stopped"}
         THEN [it EXCEPT !.state = "failed"]
    ELSE IF it.attempts + 1 < MaxAttempts
         THEN [it EXCEPT !.state = "sleeping", !.attempts = @ + 1]
    ELSE [it EXCEPT !.state = "failed"]

\* Mutant: the board polls only while it was told of a running task.
Polled_WhileRunning(pl) ==
    IF pl.again THEN [reading |-> TRUE, again |-> FALSE, timer |-> FALSE]
    ELSE [reading |-> FALSE, again |-> FALSE,
          timer |-> \E p \in Repos : read.told[p].state = "running"]

\* A queued refresh supersedes the answer; any other sets the timer again.
Polled(pl) ==
    IF pl.again THEN [reading |-> TRUE, again |-> FALSE, timer |-> FALSE]
    ELSE [reading |-> FALSE, again |-> FALSE, timer |-> TRUE]

Deliver ==
    LET board == "board" \in read.waiters IN
    /\ read.phase \in {"answered", "failed"}
    /\ shown' = IF board /\ ~poll.again /\ read.phase = "answered" THEN read.told ELSE shown
    /\ poll' = IF board THEN Polled(poll) ELSE poll
    /\ item' = [p \in Repos |-> IF p \in read.waiters THEN Waited(p) ELSE item[p]]
    /\ read' = Joined(Idle, IF board /\ poll.again THEN {"board"} ELSE {})
    /\ UNCHANGED <<run, record, term, old, dir, known, launch, inputs, faults>>

\* The timer of the poller fires, the window gets the focus or is shown again.
RefreshBoard ==
    /\ poll' = Refreshed(poll)
    /\ read' = Joined(read, Asks(poll))
    /\ UNCHANGED <<run, record, term, old, dir, known, launch, shown, item, faults>>

TimerFires == poll.timer /\ RefreshBoard /\ UNCHANGED inputs
Focus == Input /\ RefreshBoard

\* The effect runs again for other repositories of the same workspace: what the old
\* poller waits for no longer counts, and the new one reads at once.
Rescope ==
    /\ Input
    /\ poll' = [reading |-> TRUE, again |-> FALSE, timer |-> FALSE]
    /\ read' = Joined(read, {"board"})
    /\ UNCHANGED <<run, record, term, old, dir, known, launch, shown, item, faults>>

-----------------------------------------------------------------------------
(* The batch                                                                 *)

StartBatch ==
    /\ Input
    /\ \A p \in Repos : item[p].state \notin {"queued"} /\ p \notin Active
    /\ \E p \in Repos : ~Running(p)
    /\ item' = [p \in Repos |-> [state |-> "queued", run |-> 0, attempts |-> 0]]
    /\ UNCHANGED <<run, record, term, old, dir, known, read, launch, shown, poll, faults>>

\* A worker takes an item: it skips a busy repository and builds any other.
BatchTakes(p) ==
    /\ item[p].state = "queued"
    /\ Cardinality(Active) < Concurrency
    /\ item' = [item EXCEPT ![p].state = IF Running(p) THEN "skipped" ELSE "launching"]
    /\ launch' = IF Running(p) THEN launch
                 ELSE [launch EXCEPT ![p] =
                          [phase |-> "asked", repo |-> p, server |-> FALSE, run |-> 0]]
    /\ UNCHANGED <<run, record, term, old, dir, known, read, shown, poll, inputs, faults>>

BatchWakes(p) ==
    /\ item[p].state = "sleeping"
    /\ item' = [item EXCEPT ![p].state = "reading"]
    /\ read' = Joined(read, {p})
    /\ UNCHANGED <<run, record, term, old, dir, known, launch, shown, poll, inputs, faults>>

-----------------------------------------------------------------------------
Init ==
    /\ run = <<>>
    /\ record = [r \in 1..MaxRuns |-> Absent]
    /\ term = [r \in 1..MaxRuns |-> "none"]
    /\ old = {}
    /\ dir = {}
    /\ known = [seen |-> [r \in 1..MaxRuns |-> Absent],
                latest |-> [p \in Repos |-> Nothing]]
    /\ read = Joined(Idle, {"board"})
    /\ launch = [s \in Sources |-> NoLaunch]
    /\ shown = [p \in Repos |-> Nothing]
    /\ poll = [reading |-> TRUE, again |-> FALSE, timer |-> FALSE]
    /\ item = [p \in Repos |-> [state |-> "none", run |-> 0, attempts |-> 0]]
    /\ inputs = 0 /\ faults = 0

\* What the native process and the webview owe.
Progress ==
    \/ \E s \in Sources : Launch(s) \/ LaunchAnswered(s)
    \/ ReadBegins \/ ReadMetadata \/ ReadContent \/ ListProcesses \/ ReadEnds \/ Deliver
    \/ \E p \in Repos : BatchTakes(p) \/ BatchWakes(p)

Next ==
    \/ Progress \/ TimerFires \/ ReadFails \/ Focus \/ Rescope \/ StartBatch
    \/ \E p \in Repos, kind \in Kinds : UserLaunches(p, kind = "server")
    \/ \E r \in Runs : TerminalStarts(r) \/ CommandStarts(r) \/ CommandEnds(r)
                       \/ UserCloses(r) \/ Age(r)

Spec == Init /\ [][Next]_vars /\ WF_vars(Progress) /\ WF_vars(TimerFires)

-----------------------------------------------------------------------------
TypeOK ==
    /\ DOMAIN run = 1..Count /\ Count <= MaxRuns
    /\ \A r \in Runs : run[r] \in [repo : Repos, server : BOOLEAN]
    /\ record \in [1..MaxRuns -> Record]
    /\ term \in [1..MaxRuns -> {"none", "starting", "ready", "logged", "working", "closed"}]
    /\ old \subseteq Runs
    /\ dir \subseteq {"cache", "read"}
    /\ known.latest \in [Repos -> Told]
    /\ read.phase \in {"none", "asked", "scan", "reread", "unlisted", "answered",
                       "failed"}
    /\ read.waiters \subseteq Readers /\ (read.phase = "none" <=> read.waiters = {})
    /\ read.told \in [Repos -> Told]
    /\ launch \in [Sources -> [phase : {"none", "asked", "answered"}, repo : Repos,
                               server : BOOLEAN, run : 0..MaxRuns]]
    /\ shown \in [Repos -> Told]
    /\ poll \in [reading : BOOLEAN, again : BOOLEAN, timer : BOOLEAN]
    /\ poll.reading <=> "board" \in read.waiters
    /\ item \in [Repos -> [state : {"none", "queued", "skipped", "launching", "reading",
                                    "sleeping", "succeeded", "failed"},
                           run : 0..MaxRuns, attempts : 0..MaxAttempts]]
    /\ inputs \in 0..MaxInputs /\ faults \in 0..MaxFaults

\* The board comes to show the result of a repository's newest run, whatever is read,
\* launched or refreshed meanwhile, unless a newer run begins or the record could not
\* be read.
ShowsNewest(p, r) ==
    shown[p].run = r /\ shown[p].state = record[r].state

ResultsAreShown ==
    \A p \in Repos : \A r \in 1..MaxRuns :
        []<>(Latest(p, Runs) = r /\ record[r].state \in Final
                => ShowsNewest(p, r) \/ known.seen[r].state = "unreadable")
=============================================================================
