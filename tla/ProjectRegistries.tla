------------------------- MODULE ProjectRegistries -------------------------
(***************************************************************************)
(* The project registry of one workspace: a row of the application's       *)
(* database, shown and edited by the project board of every window.  A     *)
(* registry is the set of edits it holds.  Each window orders its writes   *)
(* and its promotions of legacy data in one queue, compares the row with   *)
(* what the editor had accepted before it writes, and rereads the row when *)
(* it hears of a commit.  Commands run one at a time in the native         *)
(* process; the answers of a window's commands arrive in the order they    *)
(* ran, the committed event at any time after the commit.                  *)
(***************************************************************************)
EXTENDS ProjectRegistriesState

CONSTANTS
    Windows,        \* the windows modelled in full; others commit as CommitElsewhere
    Legacy,         \* the registry left in local storage by earlier versions
    MaxVisits,      \* bound: views of the workspace, per window
    MaxInputs,      \* bound: what users do
    MaxFailures     \* bound: commands that fail or whose answer is lost

VARIABLES
    migrated,   \* the migration marker in local storage
    accepted,   \* acceptedRegistry of each view of each window
    answers,    \* answers on their way to each window
    events,     \* committed events on their way to each window
    task,       \* a dialog or repository operation awaiting native work
    failures

vars == <<row, migrated, board, accepted, writes, answers, events, task, overtaken, edits, failures>>

Registry == SUBSET (Legacy \cup 1..MaxInputs)
Readers == {"initial", "subscription", "reload"}

\* by: the write that owns the draft, 0 once it has failed.
Drafts == [by : 0..MaxInputs, registry : Registry]

\* A dialog or repository operation, the registry it began with and the edit it makes.
Tasks == [kind : {"dialog", "captured"}, view : 1..MaxVisits, base : Registry,
          edit : 1..MaxInputs]

\* What the constants must be.
RegistryConstants ==
    /\ MaxVisits \in Nat \ {0} /\ {MaxInputs, MaxFailures} \subseteq Nat
    /\ Legacy \cap 1..MaxInputs = {}
    /\ Unset \notin Readers /\ \A x \in Registry \cup Drafts \cup Tasks : x # Unset

\* view: the current view, 0 while another workspace is shown. reads: the reads
\* whose answer counts.
Board == [view : 0..MaxVisits, visits : 0..MaxVisits, registry : Registry, ready : BOOLEAN,
          conflicted : BOOLEAN, reloading : BOOLEAN, reads : SUBSET Readers,
          draft : {Unset} \cup Drafts]

Operation == [kind : {"write", "import", "promotion"}, by : 0..MaxInputs,
              view : 0..MaxVisits, next : Registry, guard : {Unset} \cup Registry,
              reader : Readers \cup {Unset}, seen : {Unset} \cup Registry,
              phase : {"queued", "checked", "confirming", "answered"}]

Answers == [reader : Readers \cup {Unset}, done : BOOLEAN, registry : Registry,
            result : {"ok", "unread", "unwritten", "conflict"}]

Input == edits < MaxInputs /\ edits' = edits + 1
Failure == failures < MaxFailures /\ failures' = failures + 1

-----------------------------------------------------------------------------
(* Reading                                                                   *)

\* The answers of superseded reads no longer count, nor those of their promotions.
Unread(q, readers) ==
    [i \in DOMAIN q |-> IF q[i].reader \in readers THEN [q[i] EXCEPT !.reader = Unset] ELSE q[i]]

\* reloadRegistry
Reread(w) ==
    /\ board' = [board EXCEPT ![w].reads = @ \cup {"subscription"}]
    /\ answers' = [answers EXCEPT ![w] = Unread(@, {"subscription"})]
    /\ writes' = [writes EXCEPT ![w] = Unread(@, {"subscription"})]

\* The read command has not run yet; a reload waits for the last write of its view.
MayRead(w, r) ==
    /\ r \in board[w].reads
    /\ \A i \in DOMAIN answers[w] : answers[w][i].reader # r
    /\ \A i \in DOMAIN writes[w] :
          writes[w][i].reader # r /\ (r = "reload" => writes[w][i].view # board[w].view)

Answer(w, r, ok, registry) ==
    answers' = [answers EXCEPT ![w] = Append(@,
        [reader |-> r, done |-> FALSE, result |-> IF ok THEN "ok" ELSE "unread",
         registry |-> registry])]

\* readProjectRegistryNow: a read that must promote legacy data queues itself.
Read(w, r) ==
    /\ MayRead(w, r)
    /\ IF row = Unset /\ ~migrated /\ Legacy # {}
       THEN /\ writes' = [writes EXCEPT ![w] = Append(@,
                  [kind |-> "promotion", by |-> 0, view |-> 0, next |-> Legacy, guard |-> Unset,
                   reader |-> r, seen |-> Unset, phase |-> "queued"])]
            /\ UNCHANGED <<answers, migrated>>
       ELSE /\ Answer(w, r, TRUE, Content(row))
            /\ migrated' = (migrated \/ row # Unset)
            /\ UNCHANGED writes
    /\ UNCHANGED <<row, board, accepted, events, task, overtaken, edits, failures>>

\* The last of the three attempts fails.
ReadFails(w, r) ==
    /\ Failure
    /\ MayRead(w, r)
    /\ Answer(w, r, FALSE, {})
    /\ UNCHANGED <<row, migrated, board, accepted, writes, events, task, overtaken, edits>>

\* The callback of the subscription: a published registry supersedes the first read.
Publish(b, r) == [b EXCEPT !.registry = r, !.ready = TRUE, !.reads = @ \ {"initial"}]

\* What the answer of a read does to the board that waits for it.
Receive(b, r, ok, registry) ==
    LET c == [b EXCEPT !.reads = @ \ {r}] IN
    CASE r = Unset -> b
      [] r = "initial" -> [c EXCEPT !.ready = ok, !.registry = IF ok THEN registry ELSE @]
      [] r = "subscription" -> IF ok THEN Publish(c, registry) ELSE c
      [] r = "reload" ->
             IF ok THEN [c EXCEPT !.registry = registry, !.ready = TRUE, !.draft = Unset,
                                  !.conflicted = FALSE, !.reloading = FALSE]
             ELSE [c EXCEPT !.ready = FALSE, !.reloading = FALSE]

HearCommit(w) ==
    /\ events[w] > 0
    /\ events' = [events EXCEPT ![w] = @ - 1]
    /\ IF Shown(w) THEN Reread(w) ELSE UNCHANGED <<board, answers, writes>>
    /\ UNCHANGED <<row, migrated, accepted, task, overtaken, edits, failures>>

Focus(w) ==
    /\ Input
    /\ Shown(w)
    /\ Reread(w)
    /\ UNCHANGED <<row, migrated, accepted, events, task, overtaken, failures>>

-----------------------------------------------------------------------------
(* The operations of a window, one at a time                                 *)

Phase(w, p, s) == writes' = [writes EXCEPT ![w][1] = [@ EXCEPT !.phase = p, !.seen = s]]

\* The operation ends with this result for its caller.
Settle(w, result, registry) ==
    /\ Phase(w, "answered", Unset)
    /\ answers' = [answers EXCEPT ![w] = Append(@,
          [reader |-> Op(w).reader, done |-> TRUE, result |-> result, registry |-> registry])]

\* What a write expects: a captured registry, or what its view last accepted.
Expected(w) ==
    IF Op(w).guard = Unset THEN accepted[w][Op(w).view] ELSE Op(w).guard

\* The operation reads the row: a write compares, an import takes it as it is, a
\* promotion that finds a row has nothing to do. A missing row matches an empty one.
Check(w) ==
    /\ Operating(w, "queued")
    /\ CASE Op(w).kind = "write" /\ Content(row) # Expected(w) ->
              Settle(w, "conflict", {})
         [] Op(w).kind = "promotion" /\ row # Unset -> Settle(w, "ok", row)
         [] OTHER -> Phase(w, "checked", row) /\ UNCHANGED answers
    /\ UNCHANGED <<row, migrated, board, accepted, events, task, overtaken, edits, failures>>

CheckFails(w) ==
    /\ Failure
    /\ Operating(w, "queued")
    /\ Settle(w, "unread", {})
    /\ UNCHANGED <<row, migrated, board, accepted, events, task, overtaken, edits>>

Write_Unguarded(w) ==
    /\ Operating(w, "checked")
    /\ row' = Op(w).next
    /\ events' = [v \in Windows |-> events[v] + 1]
    /\ Settle(w, "ok", Op(w).next)
    /\ UNCHANGED <<migrated, board, accepted, task, overtaken, edits, failures>>

\* write_project_registries: the row must still be what the check saw.
Write(w) ==
    /\ Operating(w, "checked")
    /\ IF row = Op(w).seen
       THEN /\ row' = Op(w).next
            /\ events' = [v \in Windows |-> events[v] + 1]
            /\ Settle(w, "ok", Op(w).next)
       ELSE Settle(w, "conflict", {}) /\ UNCHANGED <<row, events>>
    /\ UNCHANGED <<migrated, board, accepted, task, overtaken, edits, failures>>

\* The write commits and its answer is lost; an import looks what became of it.
WriteUnanswered(w) ==
    /\ Failure
    /\ Operating(w, "checked")
    /\ row = Op(w).seen
    /\ row' = Op(w).next
    /\ events' = [v \in Windows |-> events[v] + 1]
    /\ IF Op(w).kind = "import"
       THEN Phase(w, "confirming", Unset) /\ UNCHANGED answers
       ELSE Settle(w, "unwritten", {})
    /\ UNCHANGED <<migrated, board, accepted, task, overtaken, edits>>

WriteFails(w) ==
    /\ Failure
    /\ Operating(w, "checked")
    /\ Settle(w, "unwritten", {})
    /\ UNCHANGED <<row, migrated, board, accepted, events, task, overtaken, edits>>

Confirm(w) ==
    /\ Operating(w, "confirming")
    /\ Settle(w, IF row = Op(w).next THEN "ok" ELSE "unwritten", Op(w).next)
    /\ UNCHANGED <<row, migrated, board, accepted, events, task, overtaken, edits, failures>>

\* dispatchProjectRegistryChanged: a board that is shown takes over what was saved
\* and forgets the rereads under way.
Dispatch(b, r) ==
    IF b.view = 0 THEN b ELSE [Publish(b, r) EXCEPT !.reads = @ \ {"subscription"}]

Feedback_Latest(b, op, result) ==
    [b EXCEPT !.conflicted = @ \/ (result = "conflict" /\ b.view = op.view),
              !.draft = IF @ = Unset \/ b.view # op.view THEN @
                        ELSE IF result = "ok" THEN Unset ELSE [@ EXCEPT !.by = 0]]
\* The view that saved hears how it went; its latest draft goes or keeps the error.
Feedback(b, op, result) ==
    LET own == b.view = op.view /\ b.draft # Unset /\ b.draft.by = op.by
    IN  [b EXCEPT
            !.conflicted = @ \/ (result = "conflict" /\ b.view = op.view),
            !.ready = @ /\ ~(own /\ result = "unread"),
            !.draft = IF ~own THEN @ ELSE IF result = "ok" THEN Unset ELSE [@ EXCEPT !.by = 0]]

\* The operation at work was a save, and it is saved.
Saves(w, a) == a.done /\ a.result = "ok" /\ Op(w).kind # "promotion"

\* The reads that an answer supersedes: what is published counts for the first read, and
\* what was saved here for a reread too.
Superseded(w, a) ==
    IF Saves(w, a) THEN {"initial", "subscription"}
    ELSE IF a.reader = "subscription" /\ a.result = "ok" THEN {"initial"} ELSE {}

\* A board that is read again accepts what it is given.
Accepts(w, a) ==
    accepted' = IF Saves(w, a) /\ Op(w).view # 0
                THEN [accepted EXCEPT ![w][Op(w).view] = Op(w).next] ELSE
                IF a.reader = "reload" /\ a.result = "ok"
                THEN [accepted EXCEPT ![w][board[w].view] = a.registry] ELSE accepted

\* The next answer reaches the window: of a read, or of the operation at work.
ReadAnswered(w) ==
    LET a == Head(answers[w]) IN
    /\ answers[w] # <<>> /\ ~a.done
    /\ board' = [board EXCEPT ![w] = Receive(@, a.reader, a.result = "ok", a.registry)]
    /\ Accepts(w, a)
    /\ writes' = [writes EXCEPT ![w] = Unread(@, Superseded(w, a))]
    /\ answers' = [answers EXCEPT ![w] = Unread(Tail(@), Superseded(w, a))]
    /\ UNCHANGED <<row, migrated, events, task, overtaken, edits, failures>>

OperationAnswered(w) ==
    LET a == Head(answers[w])
        b == IF Saves(w, a) THEN Dispatch(board[w], Op(w).next) ELSE board[w]
    IN  /\ answers[w] # <<>> /\ a.done
        /\ board' = [board EXCEPT ![w] =
              IF Op(w).kind = "promotion" THEN Receive(b, a.reader, a.result = "ok", a.registry)
              ELSE IF Op(w).kind = "import" THEN b
              ELSE Feedback(b, Op(w), a.result)]
        /\ migrated' = (migrated \/ a.result = "ok")
        /\ Accepts(w, a)
        /\ writes' = [writes EXCEPT ![w] = Unread(Tail(@), Superseded(w, a))]
        /\ answers' = [answers EXCEPT ![w] = Unread(Tail(@), Superseded(w, a))]
        /\ UNCHANGED <<row, events, task, overtaken, edits, failures>>

-----------------------------------------------------------------------------
(* The project board                                                         *)

EmptyBoard(n, v) ==
    [view |-> v, visits |-> n, registry |-> {}, ready |-> FALSE, conflicted |-> FALSE,
     reloading |-> FALSE, reads |-> IF v = 0 THEN {} ELSE {"initial", "subscription"},
     draft |-> Unset]

\* A board that has read the empty row and listens.
LoadedBoard == [EmptyBoard(1, 1) EXCEPT !.ready = TRUE, !.reads = {}]

\* The board of the workspace is shown: it reads, subscribes, and rereads once the
\* listener is registered.
Enter(w) ==
    /\ Input
    /\ ~Shown(w)
    /\ board[w].visits < MaxVisits
    /\ LET v == board[w].visits + 1 IN board' = [board EXCEPT ![w] = EmptyBoard(v, v)]
    /\ UNCHANGED <<row, migrated, accepted, writes, answers, events, task, overtaken, failures>>

Leave(w) ==
    /\ Input
    /\ Shown(w)
    /\ board' = [board EXCEPT ![w] = EmptyBoard(@.visits, 0)]
    /\ answers' = [answers EXCEPT ![w] = Unread(@, Readers)]
    /\ writes' = [writes EXCEPT ![w] = Unread(@, Readers)]
    /\ UNCHANGED <<row, migrated, accepted, events, task, overtaken, failures>>

Admits(w) == Shown(w) /\ board[w].ready /\ ~board[w].reloading /\ ~board[w].conflicted

\* persistRegistryInScope: the draft is shown and the write joins the queue.
Enqueue(w, kind, e, view, next, guard) ==
    writes' = [writes EXCEPT ![w] = Append(@,
        [kind |-> kind, by |-> e, view |-> view, next |-> next, guard |-> guard,
         reader |-> Unset, seen |-> Unset, phase |-> "queued"])]
Draft(w, e, next) == board' = [board EXCEPT ![w].draft = [by |-> e, registry |-> next]]

\* persistRegistry: with no draft pending, the editor accepts what the board shows.
Persist(w, e, next) ==
    /\ accepted' = IF board[w].draft = Unset
                   THEN [accepted EXCEPT ![w][board[w].view] = board[w].registry] ELSE accepted
    /\ Draft(w, e, next)
    /\ Enqueue(w, "write", e, board[w].view, next, Unset)

\* A field, tag or favourite edit builds on what the board shows.
Edit(w) ==
    /\ Input
    /\ Admits(w)
    /\ Persist(w, edits', Visible(w) \cup {edits'})
    /\ UNCHANGED <<row, migrated, answers, events, task, overtaken, failures>>

\* A dialog that creates or deletes a folder keeps the registry it began with; a
\* repository operation captures its view too.
Begin(w, kind) ==
    /\ Input
    /\ Shown(w) /\ board[w].ready
    /\ task[w] = Unset
    /\ task' = [task EXCEPT ![w] = [kind |-> kind, view |-> board[w].view, base |-> Visible(w),
                                    edit |-> edits']]
    /\ UNCHANGED <<row, migrated, board, accepted, writes, answers, events, overtaken, failures>>

\* The folder is there: the dialog saves in the view that is shown now.
FinishDialog(w) ==
    /\ task[w] # Unset /\ task[w].kind = "dialog"
    /\ task' = [task EXCEPT ![w] = Unset]
    /\ IF Admits(w)
       THEN Persist(w, task[w].edit, task[w].base \cup {task[w].edit})
       ELSE UNCHANGED <<board, accepted, writes>>
    /\ overtaken' = (overtaken \/ (Admits(w) /\ Visible(w) # task[w].base))
    /\ UNCHANGED <<row, migrated, answers, events, edits, failures>>

\* The repository operation ends: a view that has moved on is in conflict, a view
\* that was left is saved without feedback.
FinishCaptured(w) ==
    LET t == task[w]
        next == t.base \cup {t.edit}
        here == board[w].view = t.view
    IN  /\ t # Unset /\ t.kind = "captured"
        /\ task' = [task EXCEPT ![w] = Unset]
        /\ IF here /\ Visible(w) # t.base
           THEN board' = [board EXCEPT ![w].conflicted = TRUE] /\ UNCHANGED writes
           ELSE IF here /\ ~Admits(w)
           THEN UNCHANGED <<board, writes>>
           ELSE /\ Enqueue(w, "write", t.edit, t.view, next, t.base)
                /\ IF here THEN Draft(w, t.edit, next) ELSE UNCHANGED board
        /\ UNCHANGED <<row, migrated, accepted, answers, events, overtaken, edits, failures>>

\* The user reloads after a conflict or a failed read.
Reload(w) ==
    /\ Input
    /\ Shown(w) /\ ~board[w].reloading
    /\ board[w].conflicted \/ (~board[w].ready /\ "initial" \notin board[w].reads)
    /\ board' = [board EXCEPT ![w].reloading = TRUE, ![w].reads = @ \cup {"reload"}]
    /\ UNCHANGED <<row, migrated, accepted, writes, answers, events, task, overtaken, failures>>

\* The settings page imports a registry from the sync repository.
Import(w) ==
    /\ Input
    /\ ~Shown(w)
    /\ Enqueue(w, "import", edits', 0, {edits'}, Unset)
    /\ UNCHANGED <<row, migrated, board, accepted, answers, events, task, overtaken, failures>>

\* A window outside the model commits: an edit of the row it saw, its promotion of
\* the legacy data, or its import.
CommitElsewhere ==
    /\ Input
    /\ row' \in {IF row = Unset THEN Legacy ELSE row \cup {edits'}, {edits'}}
    /\ migrated' = (migrated \/ row' = Legacy)
    /\ events' = [w \in Windows |-> events[w] + 1]
    /\ UNCHANGED <<board, accepted, writes, answers, task, overtaken, failures>>

-----------------------------------------------------------------------------
Init ==
    /\ row \in {Unset, {}}
    /\ migrated = (row # Unset)
    /\ board \in [Windows -> {EmptyBoard(0, 0), LoadedBoard}]
    /\ row = Unset => board = [w \in Windows |-> EmptyBoard(0, 0)]
    /\ accepted = [w \in Windows |-> [v \in 1..MaxVisits |-> {}]]
    /\ writes = [w \in Windows |-> <<>>]
    /\ answers = [w \in Windows |-> <<>>]
    /\ events = [w \in Windows |-> 0]
    /\ task = [w \in Windows |-> Unset]
    /\ overtaken = FALSE
    /\ edits = 0
    /\ failures = 0

Next == CommitElsewhere \/ \E w \in Windows :
    \/ \E r \in Readers : Read(w, r) \/ ReadFails(w, r)
    \/ ReadAnswered(w) \/ OperationAnswered(w) \/ HearCommit(w)
    \/ Check(w) \/ CheckFails(w) \/ Write(w) \/ WriteUnanswered(w) \/ WriteFails(w) \/ Confirm(w)
    \/ Enter(w) \/ Leave(w) \/ Focus(w) \/ Reload(w) \/ Import(w)
    \/ Edit(w) \/ FinishDialog(w) \/ FinishCaptured(w)
    \/ \E kind \in {"dialog", "captured"} : Begin(w, kind)

Spec == Init /\ [][Next]_vars

-----------------------------------------------------------------------------
\* Every variable keeps its type.
TypeOK ==
    /\ row \in {Unset} \cup Registry
    /\ migrated \in BOOLEAN
    /\ board \in [Windows -> Board]
    /\ accepted \in [Windows -> [1..MaxVisits -> Registry]]
    /\ writes \in [Windows -> Seq(Operation)]
    /\ answers \in [Windows -> Seq(Answers)]
    /\ events \in [Windows -> Nat]
    /\ task \in [Windows -> {Unset} \cup Tasks]
    /\ overtaken \in BOOLEAN
    /\ edits \in 0..MaxInputs
    /\ failures \in 0..MaxFailures
=============================================================================
