------------------------ MODULE RepositoryInspection ------------------------
(***************************************************************************)
(* The git statuses on the project board: the refresh of the board and its *)
(* status cache (project-board-runtime-state.ts and the modules it calls), *)
(* the native scheduler that shares one bounded queue of inspections among *)
(* scans (repository_inspection_scheduler.rs), and the inspections, of     *)
(* which one at a time reads a path (project_repository_inspection.rs).    *)
(***************************************************************************)
EXTENDS RepositoryInspectionState

CONSTANTS
    Repos,      \* repository links of the registry on the board
    Projects,   \* the repositories of each project that can be selected
    Paths,      \* repository folders
    Workers,    \* inspection threads
    TTL,        \* PROJECT_REPOSITORY_GIT_STATUS_CACHE_TTL_MS, in ticks
    HomePath,   \* [Repos -> Paths], where each repository is at first
    MaxScans, MaxClock, MaxChanges   \* bounds

VARIABLES
    path,       \* the path of each repository in the registry, or NoValue
    priority,   \* repositories of the selected project
    open,       \* the board is mounted
    seen,       \* repositoryPrioritySignature, with the one of the paths implied
    shown,      \* repositoryGitStatusById
    cache,      \* repositoryGitStatusCache
    gen,        \* projectRepositoryGitScanGeneration
    active,     \* activeProjectRepositoryGitScan and the closure of its callback
    refresh,    \* the refresh of the latest generation, up to its schedule call
    single,     \* refreshes of one repository after an operation, by repository
    calls,      \* commands sent to the main thread and not yet executed
    worker,     \* what each worker does
    events,     \* records sent on a channel and not yet received
    flight,     \* git_inspection_in_flight_by_path
    now,        \* Date.now()
    spent       \* edits, refreshes of one repository and ticks so far

boardVars == <<path, priority, open, seen, shown, cache, gen, active, refresh, single>>
nativeVars == <<queue, jobs, scans, rejected, worker>>
vars == <<boardVars, calls, nativeVars, events, flight, now, spent>>

Scans == 1..MaxScans
Statuses == [path : Paths, at : 0..MaxClock]
Linked == {r \in Repos : path[r] # NoValue}

\* A queued job keeps no claim on a thread; a running one outlives its subscribers.
Jobs == [running : BOOLEAN, subs : SUBSET (Scans \X Repos)]
Rejected == [scan : Scans, repos : SUBSET Repos]
Work == [path : Paths, done : BOOLEAN]
Active == [scan : Scans, at : 0..MaxClock, left : SUBSET Repos]
Refresh == [step : {"cancel"}, repos : SUBSET Repos, of : Scans]
           \cup [step : {"yield"}, repos : SUBSET Repos]

\* What the constants must be.
InspectionConstants ==
    /\ IsFiniteSet(Repos) /\ IsFiniteSet(Paths)
    /\ Capacity \in Nat \ {0}
    /\ TTL \in Nat \ {0}
    /\ HomePath \in [Repos -> Paths]
    /\ Projects \subseteq SUBSET Repos
    /\ MaxScans \in Nat
    /\ NoValue \notin Paths \cup Nat
    /\ NoValue \notin Jobs \cup Active \cup Refresh \cup Rejected \cup Work

TypeOK ==
    /\ path \in [Repos -> Paths \cup {NoValue}]
    /\ priority \subseteq Repos /\ seen \subseteq Repos
    /\ open \in BOOLEAN
    /\ shown \in [Repos -> Statuses \cup {NoValue}]
    /\ cache \in [Repos -> Statuses \cup {NoValue}]
    /\ gen \in 0..MaxScans
    /\ active \in Active \cup {NoValue}
    /\ refresh \in Refresh \cup {NoValue}
    /\ queue \in Seq(Paths)
    /\ jobs \in [Paths -> Jobs \cup {NoValue}]
    /\ scans \in [Scans -> 0..Cardinality(Repos) \cup {NoValue}]
    /\ rejected \in Rejected \cup {NoValue}
    /\ single \in [Repos -> [link : [Repos -> Paths \cup {NoValue}], at : 0..MaxClock,
                            done : BOOLEAN, mounted : BOOLEAN] \cup {NoValue}]
    /\ worker \in [Workers -> Work \cup {NoValue}]
    /\ events \subseteq [scan : Scans, repo : Repos]
    /\ flight \subseteq Paths
    /\ now \in 0..MaxClock /\ spent \in 0..MaxChanges

-----------------------------------------------------------------------------
(* The status cache.                                                       *)

\* writeSingleProjectRepositoryGitStatusCache refuses the answer to an inspection
\* asked for earlier than the cached one was.
Accepts(r, p, at) == cache[r] = NoValue \/ cache[r].path # p \/ cache[r].at <= at
WriteCache(r, p, at) ==
    cache' = [cache EXCEPT ![r] = IF Accepts(r, p, at) THEN [path |-> p, at |-> at] ELSE @]
WriteShown(r, p, at) ==
    shown' = [shown EXCEPT ![r] = IF Accepts(r, p, at) THEN [path |-> p, at |-> at] ELSE @]

\* Mutant: an entry of the path the repository had before counts too.
Known_AnyPath(r, link) == cache[r] # NoValue

\* readProjectRepositoryGitStatusCache for the links "link": an entry of another
\* path is deleted, any other is shown, and a fresh one is not inspected again.
Known(r, link) == cache[r] # NoValue /\ cache[r].path = link[r]
Fresh(r, link) == Known(r, link) /\ now - cache[r].at < TTL

-----------------------------------------------------------------------------
(* The board.                                                              *)

\* refreshProjectRepositoryGitStatusesForBoard from the answer of the cancel
\* up to yieldToBrowser.
Hydrate(repos, base, link) ==
    LET todo == {r \in repos : ~Fresh(r, link)}
    IN  /\ shown' = [r \in Repos |-> IF r \in repos /\ Known(r, link) THEN cache[r] ELSE base[r]]
        /\ cache' = [r \in Repos |-> IF r \in repos /\ ~Known(r, link) THEN NoValue ELSE cache[r]]
        /\ refresh' = IF todo = {} THEN NoValue ELSE [step |-> "yield", repos |-> todo]

\* The refresh up to its first await: it takes the generation, which silences
\* the one before, and cancels the scan of that one.
StartRefresh(repos, base, link) ==
    /\ gen < MaxScans
    /\ gen' = gen + 1
    /\ active' = NoValue
    /\ IF active = NoValue
       THEN Hydrate(repos, base, link) /\ UNCHANGED calls
       ELSE /\ calls' = calls \cup {[cancel |-> active.scan]}
            /\ refresh' = [step |-> "cancel", repos |-> repos, of |-> active.scan]
            /\ shown' = base
            /\ UNCHANGED cache

\* The effect of ProjectBoardRepositoryLifecycle when the signature of the
\* links changed: statuses of unlinked repositories go, the rest is inspected.
InspectAll(link) ==
    LET linked == {r \in Repos : link[r] # NoValue}
    IN  /\ seen' = priority
        /\ StartRefresh(linked, [r \in Repos |-> IF r \in linked THEN shown[r] ELSE NoValue], link)

OpenBoard ==
    /\ ~open
    /\ open' = TRUE
    /\ InspectAll(path)
    /\ UNCHANGED <<path, priority, single, nativeVars, events, flight, now, spent>>

\* The component is destroyed: cancelProjectRepositoryGitStatusScanForBoard.
CloseBoard ==
    /\ open
    /\ gen < MaxScans
    /\ open' = FALSE
    /\ gen' = gen + 1
    /\ active' = NoValue
    /\ refresh' = NoValue
    /\ shown' = [r \in Repos |-> NoValue]
    /\ single' = [r \in Repos |-> IF single[r] = NoValue \/ single[r].link # path THEN NoValue
                                  ELSE [single[r] EXCEPT !.mounted = FALSE]]
    /\ calls' = IF active = NoValue THEN calls ELSE calls \cup {[cancel |-> active.scan]}
    /\ UNCHANGED <<path, priority, seen, cache, nativeVars, events, flight, now, spent>>

\* A repository is unlinked, linked again or moved in the registry.
EditLink(r, p) ==
    /\ open /\ spent < MaxChanges
    /\ p # path[r]
    /\ path' = [path EXCEPT ![r] = p]
    /\ spent' = spent + 1
    /\ InspectAll(path')
    /\ UNCHANGED <<priority, open, single, nativeVars, events, flight, now>>

\* Another project is selected. Its repositories come first: the scan under way
\* is given up and only they are inspected.
SelectProject(S) ==
    /\ open /\ S # priority
    /\ priority' = S
    /\ IF S = {} \/ S = seen
       THEN UNCHANGED <<seen, shown, cache, gen, active, refresh, calls>>
       ELSE seen' = S /\ StartRefresh(S \cap Linked, shown, path)
    /\ UNCHANGED <<path, open, single, nativeVars, events, flight, now, spent>>

\* The cancel was answered (the main thread executed it): the refresh goes on.
CancelAnswered ==
    /\ refresh # NoValue /\ refresh.step = "cancel"
    /\ [cancel |-> refresh.of] \notin calls
    /\ Hydrate(refresh.repos, shown, path)
    /\ UNCHANGED <<path, priority, open, seen, gen, active, single, calls, nativeVars,
                   events, flight, now, spent>>

\* After the yield: the repositories are stamped and sent in one schedule call,
\* those of the selected project first.
ScheduleScan ==
    /\ refresh # NoValue /\ refresh.step = "yield"
    /\ active' = [scan |-> gen, at |-> now, left |-> refresh.repos]
    /\ calls' = calls \cup {[scan |-> gen, link |-> path,
                             order |-> SetToSeq(refresh.repos \cap seen)
                                       \o SetToSeq(refresh.repos \ seen)]}
    /\ refresh' = NoValue
    /\ UNCHANGED <<path, priority, open, seen, shown, cache, gen, single, nativeVars,
                   events, flight, now, spent>>

\* The callback of the scan's channel. A record of an older generation is dropped.
ReceiveRecord(e) ==
    /\ e \in events
    /\ events' = events \ {e}
    /\ IF e.scan = gen /\ active # NoValue /\ e.repo \in active.left
       THEN LET left == active.left \ {e.repo} IN
            /\ WriteCache(e.repo, path[e.repo], active.at)
            /\ WriteShown(e.repo, path[e.repo], active.at)
            /\ active' = IF left = {} THEN NoValue ELSE [active EXCEPT !.left = left]
       ELSE UNCHANGED <<shown, cache, active>>
    /\ UNCHANGED <<path, priority, open, seen, gen, refresh, single, calls, nativeVars,
                   flight, now, spent>>

-----------------------------------------------------------------------------
(* The scheduler. Its commands run one after the other on the main thread. *)

MainThreadFree == rejected = NoValue

\* enqueue, for one candidate of the schedule call.
Enqueue(scan, link, acc, r) ==
    LET p == link[r]
        full == Cardinality({q \in Paths : acc.jobs[q] # NoValue}) >= Capacity
    IN  IF acc.jobs[p] # NoValue
        THEN [acc EXCEPT !.jobs[p].subs = @ \cup {<<scan, r>>}]
        ELSE IF full
        THEN [acc EXCEPT !.rejected = @ \cup {r}]
        ELSE [acc EXCEPT !.queue = Append(@, p),
                         !.jobs[p] = [running |-> FALSE, subs |-> {<<scan, r>>}]]

\* What the candidates of a schedule call leave, one after the other.
Scheduled(c) ==
    FoldLeft(LAMBDA acc, r : Enqueue(c.scan, c.link, acc, r),
             [queue |-> queue, jobs |-> jobs, rejected |-> {}], c.order)

\* schedule, inside the lock.
ExecuteSchedule(c) ==
    /\ MainThreadFree
    /\ c \in calls /\ "order" \in DOMAIN c
    /\ calls' = calls \ {c}
    /\ queue' = Scheduled(c).queue
    /\ jobs' = Scheduled(c).jobs
    /\ rejected' = [scan |-> c.scan, repos |-> Scheduled(c).rejected]
    /\ scans' = [scans EXCEPT ![c.scan] = Len(c.order)]
    /\ UNCHANGED <<boardVars, worker, events, flight, now, spent>>

\* schedule after the lock: the rejected records are sent, then complete_immediate
\* takes the lock again and counts them.
CompleteImmediate ==
    /\ rejected # NoValue
    /\ LET s == rejected.scan
           left == scans[s] - Cardinality(rejected.repos)
       IN  /\ events' = events \cup {[scan |-> s, repo |-> r] : r \in rejected.repos}
           /\ scans' = [scans EXCEPT ![s] = IF @ = NoValue \/ left <= 0 THEN NoValue ELSE left]
    /\ rejected' = NoValue
    /\ UNCHANGED <<boardVars, calls, queue, jobs, worker, flight, now, spent>>

\* Mutant: the queue keeps the paths of the jobs that are dropped.
ExecuteCancel_KeepsPaths(c) ==
    /\ MainThreadFree
    /\ c \in calls /\ "cancel" \in DOMAIN c
    /\ calls' = calls \ {c}
    /\ LET kept(p) == {s \in jobs[p].subs : s[1] # c.cancel}
       IN  jobs' = [p \in Paths |->
                        IF jobs[p] = NoValue \/ (~jobs[p].running /\ kept(p) = {}) THEN NoValue
                        ELSE [jobs[p] EXCEPT !.subs = kept(p)]]
    /\ scans' = [scans EXCEPT ![c.cancel] = NoValue]
    /\ UNCHANGED <<boardVars, queue, rejected, worker, events, flight, now, spent>>

\* The paths of a queue without those of the jobs that are dropped.
Without(q, gone) == FoldLeft(LAMBDA kept, p : IF p \in gone THEN kept ELSE Append(kept, p), <<>>, q)

\* cancel: the scan and its subscriptions go, and with them the queued jobs that
\* nobody waits for. A running job is left to finish.
ExecuteCancel(c) ==
    /\ MainThreadFree
    /\ c \in calls /\ "cancel" \in DOMAIN c
    /\ calls' = calls \ {c}
    /\ LET kept(p) == {s \in jobs[p].subs : s[1] # c.cancel}
           abandoned == {p \in HeldPaths : ~jobs[p].running /\ kept(p) = {}}
       IN  /\ jobs' = [p \in Paths |-> IF p \in HeldPaths \ abandoned
                                       THEN [jobs[p] EXCEPT !.subs = kept(p)] ELSE NoValue]
           /\ queue' = Without(queue, abandoned)
    /\ scans' = [scans EXCEPT ![c.cancel] = NoValue]
    /\ UNCHANGED <<boardVars, rejected, worker, events, flight, now, spent>>

\* next_request, and the worker's way into the inspection of the path: it leads
\* one or waits for the one in flight.
Join(p) == flight' = flight \cup {p}

TakeJob(w) ==
    /\ worker[w] = NoValue /\ queue # <<>>
    /\ LET p == Head(queue) IN
       /\ queue' = Tail(queue)
       /\ IF jobs[p] # NoValue /\ ~jobs[p].running /\ jobs[p].subs # {}
          THEN /\ jobs' = [jobs EXCEPT ![p].running = TRUE]
               /\ worker' = [worker EXCEPT ![w] = [path |-> p, done |-> FALSE]]
               /\ Join(p)
          ELSE UNCHANGED <<jobs, worker, flight>>
    /\ UNCHANGED <<boardVars, calls, scans, rejected, events, now, spent>>

\* finish and the emissions: every subscriber whose scan is registered gets its
\* record and is counted, all in one critical section.
FinishJob(w) ==
    /\ worker[w] # NoValue /\ worker[w].done
    /\ LET p == worker[w].path
           subs == {s \in jobs[p].subs : scans[s[1]] # NoValue}
           got(s) == Cardinality({t \in subs : t[1] = s})
       IN  /\ jobs' = [jobs EXCEPT ![p] = NoValue]
           /\ scans' = [s \in Scans |-> IF got(s) = 0 THEN scans[s]
                                        ELSE IF scans[s] <= got(s) THEN NoValue
                                        ELSE scans[s] - got(s)]
           /\ events' = events \cup {[scan |-> s[1], repo |-> s[2]] : s \in subs}
    /\ worker' = [worker EXCEPT ![w] = NoValue]
    /\ UNCHANGED <<boardVars, calls, queue, rejected, flight, now, spent>>

-----------------------------------------------------------------------------
(* Inspections and the folders.                                            *)

\* git has looked at the folder, failed or timed out, and complete_git_inspection
\* _in_flight wakes everybody who waits for the path.
CompleteInspection(p) ==
    /\ p \in flight
    /\ flight' = flight \ {p}
    /\ worker' = [w \in Workers |-> IF worker[w] # NoValue /\ worker[w].path = p
                                    THEN [worker[w] EXCEPT !.done = TRUE] ELSE worker[w]]
    /\ single' = [r \in Repos |-> IF single[r] # NoValue /\ single[r].link[r] = p
                                  THEN [single[r] EXCEPT !.done = TRUE] ELSE single[r]]
    /\ UNCHANGED <<path, priority, open, seen, shown, cache, gen, active, refresh, calls,
                   queue, jobs, scans, rejected, events, now, spent>>

\* refreshProjectRepositoryGitStatusForBoard up to its await. It runs when an
\* operation on the repository ended, and it is stamped then.
StartSingle(r) ==
    /\ open /\ path[r] # NoValue /\ single[r] = NoValue
    /\ spent < MaxChanges
    /\ spent' = spent + 1
    /\ single' = [single EXCEPT ![r] = [link |-> path, at |-> now, done |-> FALSE,
                                                mounted |-> TRUE]]
    /\ Join(path[r])
    /\ UNCHANGED <<path, priority, open, seen, shown, cache, gen, active, refresh, calls,
                   nativeVars, events, now>>

\* Its answer counts only while the links of its board are those it was asked
\* under; a board that is gone keeps its links, and only the cache is written.
FinishSingle(r) ==
    /\ single[r] # NoValue /\ single[r].done
    /\ LET s == single[r] IN
       IF ~s.mounted
       THEN WriteCache(r, s.link[r], s.at) /\ UNCHANGED shown
       ELSE IF s.link = path
       THEN WriteCache(r, path[r], s.at) /\ WriteShown(r, path[r], s.at)
       ELSE UNCHANGED <<shown, cache>>
    /\ single' = [single EXCEPT ![r] = NoValue]
    /\ UNCHANGED <<path, priority, open, seen, gen, active, refresh, calls, nativeVars,
                   events, flight, now, spent>>

Tick ==
    /\ now < MaxClock /\ spent < MaxChanges
    /\ now' = now + 1
    /\ spent' = spent + 1
    /\ UNCHANGED <<boardVars, calls, nativeVars, events, flight>>

-----------------------------------------------------------------------------
Init ==
    /\ path = HomePath /\ priority = {} /\ open = FALSE /\ seen = {}
    /\ shown = [r \in Repos |-> NoValue] /\ cache = [r \in Repos |-> NoValue]
    /\ gen = 0 /\ active = NoValue /\ refresh = NoValue
    /\ single = [r \in Repos |-> NoValue]
    /\ calls = {} /\ queue = <<>> /\ jobs = [p \in Paths |-> NoValue]
    /\ scans = [s \in Scans |-> NoValue] /\ rejected = NoValue
    /\ worker = [w \in Workers |-> NoValue]
    /\ events = {} /\ flight = {} /\ now = 0
    /\ spent = 0

Progress ==
    \/ CancelAnswered \/ ScheduleScan \/ CompleteImmediate
    \/ \E e \in events : ReceiveRecord(e)
    \/ \E c \in calls : ExecuteSchedule(c) \/ ExecuteCancel(c)
    \/ \E w \in Workers : TakeJob(w) \/ FinishJob(w)
    \/ \E p \in Paths : CompleteInspection(p)
    \/ \E r \in Repos : FinishSingle(r)

Next ==
    \/ Progress
    \/ OpenBoard \/ CloseBoard \/ Tick
    \/ \E r \in Repos : StartSingle(r) \/ \E p \in Paths \cup {NoValue} : EditLink(r, p)
    \/ \E S \in Projects : SelectProject(S)

Spec == Init /\ [][Next]_vars /\ WF_vars(Progress)

-----------------------------------------------------------------------------
(* Properties.                                                             *)

\* A repository of the selected project gets a status of its present folder, or stops
\* being selected or linked, or the board goes, whenever it lacks one: no cancelled scan,
\* rejected record, dropped answer or outdated cache entry leaves it without one.
SelectedAreInspected ==
    \A r \in Repos :
        []<>(open /\ r \in priority /\ path[r] # NoValue
                 => shown[r] # NoValue /\ shown[r].path = path[r])
=============================================================================
