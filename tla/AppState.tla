------------------------------ MODULE AppState ------------------------------
(***************************************************************************)
(* The settings and the workspace registry of the application: one SQLite  *)
(* table, a journal in browser storage that every window of the profile    *)
(* shares, and a cache in each window.                                     *)
(*                                                                         *)
(* A setting is journalled and shown at once; a flush commits the journal  *)
(* to the table later.  The registry is committed by a conditional write   *)
(* under a lease on its key.  Refreshes bring back what other windows      *)
(* committed.  Calls into the native side are split into the call, its     *)
(* effect and its answer; what a window does between two awaits is one     *)
(* action.  Each window belongs to an instance of the application of its   *)
(* own (the tray window reads no settings), so the commit events of the    *)
(* native side reach the window that wrote, and browser storage events     *)
(* reach the others.                                                       *)
(*                                                                         *)
(* Of the changes of the registry, registering a workspace and importing a *)
(* whole registry are modelled; switching, removing and moving one commit  *)
(* in the same way.                                                        *)
(*                                                                         *)
(* Values have stamps.  Those of the table and the journal are updatedAt;  *)
(* the stamp of a cached value is history, no step depends on it.          *)
(***************************************************************************)
EXTENDS Naturals, FiniteSets

CONSTANTS
    Windows,    \* instances of the application on one profile
    Settings,   \* the keys that are journalled
    Registry,   \* the key of the workspace registry
    Values,     \* what a setting can be
    Default,    \* what a setting is before anybody changes it
    None,       \* nothing
    Outdated,   \* a registry that was shown once and is not any more
    Asked,      \* a native call without an answer yet
    Failed,     \* a native call that answered with an error
    Absent,     \* a row that is not in the table
    MaxClock,   \* bound: edits and submitted transactions together
    MaxFailures \* bound: calls that fail and instances that die, together

ASSUME AppStateAssumption ==
    /\ Registry \notin Settings
    /\ Default \in Values
    /\ IsFiniteSet(Windows)
    /\ MaxClock \in Nat /\ MaxFailures \in Nat
    /\ None # Asked /\ None # Absent /\ Asked # Absent
    /\ \A x \in {None, Asked, Absent} : /\ x \notin [value : Values, ts : Nat]
                                        /\ x \notin [value : SUBSET Nat, ts : Nat]

Keys == Settings \cup {Registry}
Stamps == 0..MaxClock

\* A registry is a set of registrations, each named by its stamp.
Record == [value : Values \cup SUBSET Stamps, ts : Stamps]

Payload == {}    \* the registry in a file that is imported
Initial(k) == IF k = Registry THEN {} ELSE Default

VARIABLES
    stored,    \* app_state_records
    journal,   \* the pending write of each key in browser storage
    clock,     \* the last stamp that was given
    life,      \* what each window is doing about its start
    cache,     \* cachedValues
    read,      \* refreshes (or the first read) under way, by key
    sent,      \* the records of the flush under way
    answer,    \* its answer: the superseded records
    commit,    \* the native transaction under way and its lease
    deferred,  \* deferredRefreshKeys
    notices,   \* commit events under way
    posted,    \* browser storage events under way
    edited,    \* the last edit of each setting that was acknowledged (history)
    failures   \* failing calls and deaths so far

bootVars == <<life, sent, answer>>
nativeVars == <<stored, journal, clock>>
windowVars == <<cache, read, commit, deferred, notices, posted>>
vars == <<nativeVars, bootVars, windowVars, edited, failures>>

Nothing == [k \in Keys |-> None]
NoCommit == [at |-> "idle", base |-> None, expected |-> None, next |-> None]

Init ==
    /\ stored \in {[k \in Keys |-> Absent], [k \in Keys |-> [value |-> Initial(k), ts |-> 0]]}
    /\ journal = Nothing
    /\ clock = 0
    /\ life = [w \in Windows |-> "down"]
    /\ cache = [w \in Windows |-> Nothing]
    /\ read = [w \in Windows |-> Nothing]
    /\ sent = [w \in Windows |-> Nothing]
    /\ answer = [w \in Windows |-> None]
    /\ commit = [w \in Windows |-> NoCommit]
    /\ deferred = [w \in Windows |-> {}]
    /\ notices = [w \in Windows |-> {}]
    /\ posted = [w \in Windows |-> Nothing]
    /\ edited = Nothing
    /\ failures = 0

Stamp == clock + 1

\* Stamps left when every submission that waits has taken its own.
Room == clock + Cardinality({w \in Windows : commit[w].at = "flushing"}) < MaxClock
Ready(w) == life[w] = "ready"
Failure == failures < MaxFailures /\ failures' = failures + 1

Pending(j) == {k \in Keys : j[k] # None}
Leased(c) == c.at \in {"flushing", "sent", "done", "conflict", "failed"}

-----------------------------------------------------------------------------
(* Refreshes *)

\* A key is left alone while it is leased or has a pending write.
Busy_Unleased(k, j, c) == j[k] # None
Busy(k, j, c) == j[k] # None \/ (k = Registry /\ Leased(c))

\* refreshWorkduckAppStateValues(ks) when the journal is j and the transaction
\* is c: an earlier refresh of the same key is void, a busy key is deferred.
Refresh(w, ks, r, j, c) ==
    LET busy == {k \in ks : Busy(k, j, c)} IN
    /\ read' = [read EXCEPT ![w] =
                  [k \in Keys |-> IF k \in busy THEN None
                                  ELSE IF k \in ks THEN Asked ELSE r[k]]]
    /\ deferred' = [deferred EXCEPT ![w] = (@ \ ks) \cup busy]

\* A new cache version voids the refreshes that began before it.
Voided_Never(w, shown) == read[w]
Voided(w, shown) == [k \in Keys |-> IF shown[k] = cache[w][k] THEN read[w][k] ELSE None]

\* The window gets the focus, or its listener has just been registered.
Focus(w) ==
    /\ Ready(w)
    /\ Refresh(w, Keys, read[w], journal, commit[w])
    /\ UNCHANGED <<nativeVars, bootVars, cache, commit, notices, posted, edited, failures>>

\* A commit event of the window's own process.
NoticeArrives(w) ==
    /\ Ready(w)
    /\ notices[w] # {}
    /\ Refresh(w, notices[w], read[w], journal, commit[w])
    /\ notices' = [notices EXCEPT ![w] = {}]
    /\ UNCHANGED <<nativeVars, bootVars, cache, commit, posted, edited, failures>>

\* read_app_state_records reads what was asked for in one statement.
NativeRead(w) ==
    /\ \E k \in Keys : read[w][k] = Asked
    /\ read' = [read EXCEPT ![w] = [k \in Keys |-> IF @[k] = Asked THEN stored[k] ELSE @[k]]]
    /\ UNCHANGED <<nativeVars, bootVars, cache, commit, deferred, notices, posted, edited, failures>>

\* Keys that became busy meanwhile are deferred, the others are shown.
RefreshAnswered(w) ==
    LET answered == {k \in Keys : read[w][k] \notin {None, Asked}}
        busy == {k \in answered : Busy(k, journal, commit[w])}
    IN
    /\ Ready(w)
    /\ answered # {}
    /\ read' = [read EXCEPT ![w] = [k \in Keys |-> IF k \in answered THEN None ELSE @[k]]]
    /\ deferred' = [deferred EXCEPT ![w] = @ \cup busy]
    /\ cache' = [cache EXCEPT ![w] =
                   [k \in Keys |-> IF k \in answered \ busy /\ @[k].value # read[w][k].value
                                     THEN read[w][k] ELSE @[k]]]
    /\ UNCHANGED <<nativeVars, bootVars, commit, notices, posted, edited, failures>>

RefreshFails(w) ==
    /\ Ready(w)
    /\ \E k \in Keys : read[w][k] = Asked
    /\ Failure
    /\ read' = [read EXCEPT ![w] = [k \in Keys |-> IF @[k] = Asked THEN None ELSE @[k]]]
    /\ UNCHANGED <<nativeVars, bootVars, cache, commit, deferred, notices, posted, edited>>

\* An answer whose keys are all void is not modelled: it changes at most
\* deferredRefreshKeys, that is, it asks for another refresh as Focus may.

\* handleStorage: another window wrote this journal entry, unless it is gone.
StorageEvent(w, k) ==
    LET rec == posted[w][k] IN
    /\ Ready(w)
    /\ rec # None
    /\ posted' = [posted EXCEPT ![w][k] = None]
    /\ IF journal[k] = rec /\ cache[w][k].value # rec.value
         THEN /\ cache' = [cache EXCEPT ![w][k] = rec]
              /\ read' = [read EXCEPT ![w][k] = None]
         ELSE UNCHANGED <<cache, read>>
    /\ UNCHANGED <<nativeVars, bootVars, commit, deferred, notices, edited, failures>>

-----------------------------------------------------------------------------
(* The native write of a flush or of a start *)

\* write_records_to_connection: an older stamp than the row's changes nothing.
Late(w, k) == /\ sent[w][k] # None
              /\ stored[k] # Absent
              /\ stored[k].ts > sent[w][k].ts

NativeWrite(w) ==
    /\ answer[w] = Asked
    /\ stored' = [k \in Keys |-> IF sent[w][k] = None \/ Late(w, k) THEN stored[k] ELSE sent[w][k]]
    /\ answer' = [answer EXCEPT ![w] = [k \in Keys |-> IF Late(w, k) THEN stored[k] ELSE None]]
    /\ notices' = [notices EXCEPT ![w] =
                     IF Ready(w) THEN @ \cup {k \in Pending(sent[w]) : ~Late(w, k)} ELSE @]
    /\ UNCHANGED <<journal, clock, life, sent, cache, read, commit, deferred, posted, edited, failures>>

NativeWriteFails(w) ==
    /\ answer[w] = Asked
    /\ Failure
    /\ answer' = [answer EXCEPT ![w] = Failed]
    /\ UNCHANGED <<nativeVars, life, sent, windowVars, edited>>

\* reconcileCommittedRecords: an edit made while the write was under way stays.
Overtaken(w, k) == IF journal[k] = None THEN cache[w][k].value # sent[w][k].value
                                        ELSE journal[k] # sent[w][k]

Reconciled(w) ==
    [k \in Keys |->
        LET new == IF answer[w][k] # None THEN answer[w][k] ELSE sent[w][k] IN
        IF sent[w][k] = None \/ Overtaken(w, k) \/ cache[w][k].value = new.value
          THEN cache[w][k] ELSE new]

\* removeFlushedPendingWrites.
Cleared_Blindly(w) == [k \in Keys |-> IF sent[w][k] # None THEN None ELSE journal[k]]
Cleared(w) == [k \in Keys |-> IF journal[k] = sent[w][k] THEN None ELSE journal[k]]

-----------------------------------------------------------------------------
(* The start of a window: initializeWorkduckAppState *)

\* Two first starts at once could promote a default over a fresh edit; the first
\* start of the application is taken to be over before a second one begins.
FirstStartIsAlone(w) ==
    (\E k \in Keys : stored[k] = Absent) => \A v \in Windows \ {w} : life[v] = "down"

Boot(w) ==
    /\ life[w] \in {"down", "failed"}
    /\ FirstStartIsAlone(w)
    /\ life' = [life EXCEPT ![w] = "reading"]
    /\ sent' = [sent EXCEPT ![w] = journal]
    /\ read' = [read EXCEPT ![w] = [k \in Keys |-> Asked]]
    /\ UNCHANGED <<nativeVars, answer, cache, commit, deferred, notices, posted, edited, failures>>

\* A pending write comes before the row, and the row before the default; the
\* default is older than any edit.
Chosen_Raw(w, k) == IF sent[w][k] # None THEN sent[w][k] ELSE read[w][k]
Chosen(w, k) == IF sent[w][k] # None THEN sent[w][k]
                ELSE IF read[w][k] # Absent THEN read[w][k]
                ELSE [value |-> Initial(k), ts |-> 0]
Promoted(w) == {k \in Keys : sent[w][k] # None \/ read[w][k] = Absent}

BootAnswered(w) ==
    /\ life[w] = "reading"
    /\ \A k \in Keys : read[w][k] \notin {None, Asked}
    /\ cache' = [cache EXCEPT ![w] = [k \in Keys |-> Chosen(w, k)]]
    /\ sent' = [sent EXCEPT ![w] = [k \in Keys |-> IF k \in Promoted(w) THEN Chosen(w, k) ELSE None]]
    /\ read' = [read EXCEPT ![w] = Nothing]
    /\ IF Promoted(w) = {}
         THEN /\ life' = [life EXCEPT ![w] = "ready"]
              /\ notices' = [notices EXCEPT ![w] = Keys]
              /\ UNCHANGED answer
         ELSE /\ life' = [life EXCEPT ![w] = "writing"]
              /\ answer' = [answer EXCEPT ![w] = Asked]
              /\ UNCHANGED notices
    /\ UNCHANGED <<nativeVars, commit, deferred, posted, edited, failures>>

\* The replay is in the table; the interface is mounted and subscribes.
BootWritten(w) ==
    /\ life[w] = "writing"
    /\ answer[w] \notin {None, Asked, Failed}
    /\ cache' = [cache EXCEPT ![w] = Reconciled(w)]
    /\ journal' = Cleared(w)
    /\ life' = [life EXCEPT ![w] = "ready"]
    /\ notices' = [notices EXCEPT ![w] = Keys]
    /\ sent' = [sent EXCEPT ![w] = Nothing]
    /\ answer' = [answer EXCEPT ![w] = None]
    /\ UNCHANGED <<stored, clock, read, commit, deferred, posted, edited, failures>>

\* The read or the write failed; the screen offers to try again.
BootFails(w) ==
    /\ \/ life[w] = "reading" /\ Failure
       \/ life[w] = "writing" /\ answer[w] = Failed /\ UNCHANGED failures
       \/ life[w] = "writing" /\ answer[w] \notin {Asked, Failed} /\ Failure
    /\ life' = [life EXCEPT ![w] = "failed"]
    /\ cache' = [cache EXCEPT ![w] = Nothing]
    /\ read' = [read EXCEPT ![w] = Nothing]
    /\ sent' = [sent EXCEPT ![w] = Nothing]
    /\ answer' = [answer EXCEPT ![w] = None]
    /\ UNCHANGED <<nativeVars, commit, deferred, notices, posted, edited>>

-----------------------------------------------------------------------------
(* Settings: journal first, flush later *)

\* flushPendingWrites sends everything that is pending, whoever wrote it.
StartFlush(w, j) ==
    /\ sent' = [sent EXCEPT ![w] = j]
    /\ answer' = [answer EXCEPT ![w] = Asked]

\* writeWorkduckAppStateValue, and the flush in its microtask.  Browsers post the
\* event to the other windows; an older one that is under way has no effect any
\* more, so the latest is enough.
Edit(w, k, v) ==
    LET rec == [value |-> v, ts |-> Stamp] IN
    /\ Ready(w)
    /\ Room
    /\ clock' = Stamp
    /\ journal' = [journal EXCEPT ![k] = rec]
    /\ edited' = [edited EXCEPT ![k] = rec]
    /\ cache' = [cache EXCEPT ![w][k] = rec]
    /\ read' = [read EXCEPT ![w][k] = None]
    /\ posted' = [u \in Windows |-> IF u # w /\ Ready(u) THEN [posted[u] EXCEPT ![k] = rec]
                                                         ELSE posted[u]]
    /\ IF answer[w] = None THEN StartFlush(w, journal') ELSE UNCHANGED <<sent, answer>>
    /\ UNCHANGED <<stored, life, commit, deferred, notices, failures>>

-----------------------------------------------------------------------------
(* The registry: commitWorkduckAppStateValueWithNativeTransaction *)

\* Once the flush is over, the change is compared with what is cached then; an
\* import is not.
Unmoved(base, shown) == base \in {None, shown[Registry].value}

Proposed(base, shown) ==
    [at |-> "sent", base |-> base, expected |-> shown[Registry].value,
     next |-> [value |-> IF base = None THEN Payload ELSE base \cup {Stamp}, ts |-> Stamp]]

\* The flush ended (well or not) with journal j, and the window shows this.
Continue(w, base, ok, j, shown) ==
    LET goes == ok /\ Unmoved(base, shown)
        again == IF ok /\ ~goes THEN {Registry} ELSE {}
    IN
    /\ clock' = Stamp
    /\ commit' = [commit EXCEPT ![w] = IF goes THEN Proposed(base, shown) ELSE NoCommit]
    /\ Refresh(w, deferred[w] \cup again, Voided(w, shown), j, commit'[w])

\* Somebody registers a workspace in the registry that is shown, or in one that
\* was shown before a dialog opened, or imports a registry (no base).  The lease
\* is taken, and the flush that is under way or a new one awaited.
Submit(w) ==
    /\ Ready(w)
    /\ Room
    /\ commit[w] = NoCommit
    /\ \E base \in {cache[w][Registry].value, Outdated, None} :
           IF answer[w] = None /\ Pending(journal) = {}
             THEN /\ Continue(w, base, TRUE, journal, cache[w])
                  /\ UNCHANGED <<sent, answer>>
             ELSE /\ commit' = [commit EXCEPT ![w] = [NoCommit EXCEPT !.at = "flushing", !.base = base]]
                  /\ IF answer[w] = None THEN StartFlush(w, journal) ELSE UNCHANGED <<sent, answer>>
                  /\ UNCHANGED <<clock, read, deferred>>
    /\ UNCHANGED <<stored, journal, life, cache, notices, posted, edited, failures>>

\* The end of flushPendingWrites: whoever waited goes on, what was deferred is
\* asked for again.
EndFlush(w, ok, j, shown) ==
    /\ sent' = [sent EXCEPT ![w] = Nothing]
    /\ answer' = [answer EXCEPT ![w] = None]
    /\ IF commit[w].at = "flushing"
         THEN Continue(w, commit[w].base, ok, j, shown)
         ELSE Refresh(w, deferred[w], Voided(w, shown), j, commit[w]) /\ UNCHANGED <<clock, commit>>

\* One turn of its loop.
FlushAnswered(w) ==
    /\ Ready(w)
    /\ answer[w] \notin {None, Asked, Failed}
    /\ cache' = [cache EXCEPT ![w] = Reconciled(w)]
    /\ \/ /\ journal' = Cleared(w)
          /\ UNCHANGED failures
          /\ IF Pending(journal') = {}
               THEN EndFlush(w, TRUE, journal', cache'[w])
               ELSE /\ StartFlush(w, journal')
                    /\ read' = [read EXCEPT ![w] = Voided(w, cache'[w])]
                    /\ UNCHANGED <<clock, commit, deferred>>
       \/ /\ Failure    \* the journal entry cannot be removed
          /\ UNCHANGED journal
          /\ EndFlush(w, FALSE, journal, cache'[w])
    /\ UNCHANGED <<stored, life, notices, posted, edited>>

FlushFails(w) ==
    /\ Ready(w)
    /\ answer[w] = Failed
    /\ EndFlush(w, FALSE, journal, cache[w])
    /\ UNCHANGED <<stored, journal, life, cache, notices, posted, edited, failures>>

\* compare_and_write_app_state_record, write_sync_workspace_registry: the row has
\* the value that was cached when the transaction began, and no younger stamp.
Matches_ByAge(w) == stored[Registry].ts <= commit[w].next.ts
Matches(w) == /\ stored[Registry].value = commit[w].expected
              /\ stored[Registry].ts <= commit[w].next.ts

NativeCommit(w) ==
    /\ commit[w].at = "sent"
    /\ \/ /\ Matches(w)
          /\ stored' = [stored EXCEPT ![Registry] = commit[w].next]
          /\ notices' = [notices EXCEPT ![w] = @ \cup {Registry}]
          /\ commit' = [commit EXCEPT ![w].at = "done"]
          /\ UNCHANGED failures
       \/ /\ ~Matches(w)
          /\ commit' = [commit EXCEPT ![w].at = "conflict"]
          /\ UNCHANGED <<stored, notices, failures>>
       \/ /\ Failure
          /\ commit' = [commit EXCEPT ![w].at = "failed"]
          /\ UNCHANGED <<stored, notices>>
    /\ UNCHANGED <<journal, clock, bootVars, cache, read, deferred, posted, edited>>

\* What the window shows after a transaction.
Outcome(w) == IF commit[w].at = "done" THEN commit[w].next ELSE cache[w][Registry]

\* The lease ends; after a conflict the registry is read again, not by an import.
CommitAnswered(w) ==
    /\ commit[w].at \in {"done", "conflict", "failed"}
    /\ cache' = [cache EXCEPT ![w][Registry] = Outcome(w)]
    /\ commit' = [commit EXCEPT ![w] = NoCommit]
    /\ LET again == IF commit[w].at = "conflict" /\ commit[w].base # None THEN {Registry} ELSE {}
       IN  Refresh(w, deferred[w] \cup again, Voided(w, cache'[w]), journal, NoCommit)
    /\ UNCHANGED <<nativeVars, bootVars, notices, posted, edited, failures>>

-----------------------------------------------------------------------------

\* An instance dies; what its native calls did stays done.
Crash(w) ==
    /\ life[w] # "down"
    /\ Failure
    /\ life' = [life EXCEPT ![w] = "down"]
    /\ cache' = [cache EXCEPT ![w] = Nothing]
    /\ read' = [read EXCEPT ![w] = Nothing]
    /\ sent' = [sent EXCEPT ![w] = Nothing]
    /\ answer' = [answer EXCEPT ![w] = None]
    /\ commit' = [commit EXCEPT ![w] = NoCommit]
    /\ deferred' = [deferred EXCEPT ![w] = {}]
    /\ notices' = [notices EXCEPT ![w] = {}]
    /\ posted' = [posted EXCEPT ![w] = Nothing]
    /\ UNCHANGED <<nativeVars, edited>>

\* The steps that follow by themselves from what is under way in a window.
Work(w) ==
    \/ NoticeArrives(w) \/ NativeWrite(w) \/ BootAnswered(w) \/ BootWritten(w)
    \/ (life[w] = "writing" /\ BootFails(w)) \/ FlushAnswered(w) \/ FlushFails(w)
    \/ NativeCommit(w) \/ CommitAnswered(w)
    \/ NativeRead(w) \/ RefreshAnswered(w)
    \/ \E k \in Settings : StorageEvent(w, k)

Next ==
    \E w \in Windows :
        \/ Work(w)
        \/ Boot(w) \/ Focus(w) \/ Submit(w) \/ Crash(w)
        \/ BootFails(w) \/ NativeWriteFails(w) \/ RefreshFails(w)
        \/ \E k \in Settings, v \in Values : Edit(w, k, v)

Spec == Init /\ [][Next]_vars

-----------------------------------------------------------------------------
(* Properties *)

\* The state has these shapes: journals and rows hold records with stamps that
\* were given, refreshes and flushes are absent, asked for, or answered.
TypeOK ==
    LET Maybe == Record \cup {None} IN
    /\ stored \in [Keys -> Record \cup {Absent}]
    /\ journal \in [Keys -> Maybe]
    /\ clock \in Stamps
    /\ life \in [Windows -> {"down", "reading", "writing", "ready", "failed"}]
    /\ cache \in [Windows -> [Keys -> Maybe]]
    /\ read \in [Windows -> [Keys -> Maybe \cup {Asked, Absent}]]
    /\ sent \in [Windows -> [Keys -> Maybe]]
    /\ answer \in [Windows -> [Keys -> Maybe] \cup {None, Asked, Failed}]
    /\ commit \in [Windows -> [at : {"idle", "flushing", "sent", "done", "conflict", "failed"},
                               base : (SUBSET Stamps) \cup {None, Outdated},
                               expected : (SUBSET Stamps) \cup {None},
                               next : Maybe]]
    /\ deferred \in [Windows -> SUBSET Keys]
    /\ notices \in [Windows -> SUBSET Keys]
    /\ posted \in [Windows -> [Keys -> Maybe]]
    /\ edited \in [Keys -> Maybe]
    /\ failures \in 0..MaxFailures
    /\ \A k \in Keys : journal[k] # None => journal[k].ts <= clock
    /\ \A k \in Keys : stored[k] # Absent => stored[k].ts <= clock

\* The last edit that was acknowledged is in the journal or in the table, whatever
\* other windows flush, replay or clean up meanwhile and whoever dies
\* (removeFlushedPendingWrites, write_records_to_connection).
EditsAreKept ==
    \A k \in Settings : edited[k] # None => edited[k] \in {journal[k], stored[k]}

\* While a transaction on the registry is under way, its window does not replace
\* the snapshot the transaction was checked against (transactionKeys).
LeaseKeepsTheSnapshot ==
    \A w \in Windows :
        commit[w].at = "sent" => cache[w][Registry].value = commit[w].expected

\* No commit drops a workspace somebody else registered; only an import replaces
\* the registry (compare_and_write_app_state_record).
RegistrationsStay ==
    [][\/ stored[Registry] = Absent
       \/ stored'[Registry] = stored[Registry]
       \/ stored[Registry].value \subseteq stored'[Registry].value
       \/ \E w \in Windows : /\ commit[w].at = "sent" /\ commit[w].base = None
                             /\ stored'[Registry] = commit[w].next]_vars

\* A window that has started never goes back to an older value than it shows, of a
\* setting or of the registry, in whatever order answers and events arrive: a
\* refresh is void once something newer was shown, a storage event once the entry
\* is gone.  One case is excepted, where the code compares values and not stamps:
\* a superseded answer to a flush of the value that is shown again since.
SupersededAnswer(w, k) ==
    /\ answer[w] \notin {None, Asked, Failed}
    /\ answer[w][k] # None
    /\ journal[k] = None
    /\ cache[w][k].ts > sent[w][k].ts

ShownNeverGoesBack ==
    [][\A w \in Windows, k \in Keys :
          Ready(w) /\ life'[w] = "ready" /\ ~SupersededAnswer(w, k)
              => cache'[w][k].ts >= cache[w][k].ts]_vars

=============================================================================
