-------------------------- MODULE QueuePanelState --------------------------
(***************************************************************************)
(* What the queue panel shows and has under way, and what is promised about  *)
(* it.  What users, answers and the timer do with it is in QueuePanel.       *)
(***************************************************************************)
EXTENDS Integers, FiniteSets

CONSTANT Null   \* a work order, a result or a dialog that is not there

VARIABLES
    file,     \* the work orders on disk: revision, revision of the body, status
    lock,     \* who holds the execution lock of an order: an execution, Elsewhere, Null
    panel,    \* what the page shows
    ids,      \* activeExecutions: the execution started for an order
    calls,    \* operations under way
    refreshes,\* refreshes under way
    clicked,  \* history: the order clicked last
    inputs, outside

-----------------------------------------------------------------------------
Mine(cs) == {c \in cs : c.mine}
WriteKinds == {"execute", "complete", "edit", "create", "delete"}
\* What keeps a button disabled: a call, or the refresh that ends one.
Keeping(kinds, frees) ==
    {c \in Mine(calls) : c.kind \in kinds} \cup {r \in Mine(refreshes) : r.frees = frees}

\* The page is busy with exactly what it has under way: at most one write, one
\* cancellation and one refresh, and no button stays disabled, or is enabled too
\* early, because a workspace was left, an answer came late or a refresh was dropped.
BusyIsExact ==
    /\ panel.writing = (Keeping(WriteKinds, "writing") # {})
    /\ panel.cancelling = (Keeping({"cancel"}, "cancelling") # {})
    /\ panel.refreshing = (Mine(refreshes) # {})
    /\ Cardinality(Keeping(WriteKinds, "writing")) <= 1
    /\ Cardinality(Keeping({"cancel"}, "cancelling")) <= 1
    /\ Cardinality(Mine(refreshes)) <= 1
    /\ panel.reading = (\E c \in calls : c.kind = "read" /\ c.sel)
    /\ panel.previewing = (\E c \in calls : c.kind = "preview" /\ c.sel)

\* The panel shows the order that was clicked last, whatever else is answered after
\* the click, and while it is selected never an older state of it, except what a call
\* about it brings: the sending and the answer of a run, the answer of its cancellation
\* and that of an edit may cross with each other and with a refresh.
ShownIsClicked == panel.shown # Null => panel.shown.o = clicked
Brings(c, w) ==
    /\ c.kind \in {"execute", "cancel", "edit"} /\ c.o = panel.shown.o
    /\ w.n = c.base.n \/ (c.result # Null /\ w.n = c.result.n)
DisplayFollowsClicks ==
    [][/\ ShownIsClicked'
       /\ panel.shown # Null /\ panel'.shown # Null
            => \/ panel'.shown.w.n >= panel.shown.w.n
               \/ \E c \in calls : Brings(c, panel'.shown.w)]_<<panel, clicked>>

\* While a run that this page started is under way, its identifier stays with its order,
\* so that cancelling reaches it, until the order is started again or the page is closed.
Executing == {c.id : c \in {d \in calls : d.kind = "execute"}}
IdentifiersStay ==
    [][\A o \in DOMAIN ids :
        ids[o] \in Executing /\ ids'[o] # ids[o]
            => ids'[o] = inputs' \/ ids[o] \notin Executing' \/ panel'.at = "closed"]_ids
=============================================================================
