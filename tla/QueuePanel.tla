----------------------------- MODULE QueuePanel -----------------------------
(***************************************************************************)
(* The queue panel of one workspace: its list, the work order it shows, the *)
(* buttons it disables, and the calls it has in flight while the user goes  *)
(* on. Answers come in any order, also after the panel has shown something  *)
(* else, another workspace was selected or the page was left. What native   *)
(* commands do with a file is one step here; QueueExecution has their locks *)
(* and their interleavings.                                                 *)
(*                                                                         *)
(* The code discards late answers by generations that it compares; a call   *)
(* has a flag per comparison instead, which a step that advances the        *)
(* generation clears: mine (target.isCurrent), sel (artifactReadGeneration, *)
(* promptPreviewGeneration), same (the identity of selectedWorkOrder).      *)
(***************************************************************************)
EXTENDS QueuePanelState, FiniteSetsExt, TLC

CONSTANTS
    Orders,      \* work orders, named by their files
    Begin,       \* the statuses that the orders may have in the beginning
    Acts,        \* what the user does, of AllActs
    MaxInputs,   \* bound on what the user does
    MaxOutside   \* bound on what other programs and failing calls do

Statuses == {"unwritten", "active", "running", "failed", "archived", "deleted"}

AllActs == {"select", "run", "cancel", "complete", "edit", "create", "delete", "leave"}
QueuePanelConstants ==
    /\ Acts \subseteq AllActs
    /\ IsFiniteSet(Orders) /\ Null \notin Orders \cup Nat
    /\ Begin \subseteq [Orders -> {"unwritten", "active"}]
    /\ MaxInputs \in Nat /\ MaxOutside \in Nat

vars == <<file, lock, panel, ids, calls, refreshes, clicked, inputs, outside>>

Elsewhere == 0   \* another program; executions of this one have identifiers from 1
Exists(w) == w.status \notin {"unwritten", "deleted"}
Written(w, status) == [w EXCEPT !.n = @ + 1, !.status = status]
Edited(w) == [w EXCEPT !.n = @ + 1, !.body = w.n + 1]
\* Files are compared by content: who wrote it and how often does not show.
Same(v, w) == v.body = w.body /\ v.status = w.status
Startable == {"active", "failed"}
Card(w) == IF Exists(w) THEN w.status ELSE Null

-----------------------------------------------------------------------------
\* The page as the workspace effect leaves it, and while something else is shown.
EmptyPanel(at) ==
    [at |-> at, list |-> [o \in Orders |-> Null], shown |-> Null, editing |-> Null,
     estimate |-> Null, refreshing |-> FALSE, reading |-> FALSE, writing |-> FALSE,
     cancelling |-> FALSE, previewing |-> FALSE]

Here == panel.at = "here"
NoDialog == panel.editing = Null /\ panel.estimate = Null
Input(act) == Here /\ act \in Acts /\ inputs < MaxInputs /\ inputs' = inputs + 1
Fails == outside < MaxOutside /\ outside' = outside + 1

\* What a work order on display adds to its content: its name, and whether its path is known.
Display(o, w, path) == [o |-> o, w |-> w, path |-> path]
PathKnown(p) == p.shown # Null /\ p.shown.path

\* Another object is selected: whoever compares with the former one will notice.
Reassigned(cs) == {[c EXCEPT !.same = FALSE] : c \in cs}
\* The selection is reset: answers for it come too late, a preview is closed.
Superseded(cs) == {[c EXCEPT !.sel = FALSE] : c \in cs}
PreviewClosed(cs) == {IF c.kind = "preview" THEN [c EXCEPT !.sel = FALSE] ELSE c : c \in cs}

NewCall(kind, o, base, at) ==
    [kind |-> kind, o |-> o, base |-> base, at |-> at, id |-> inputs', token |-> Null, path |-> PathKnown(panel),
     mine |-> TRUE, sel |-> TRUE, same |-> TRUE, seen |-> Null, result |-> Null]

\* A refresh: frees names the button that is enabled when it ends, run the execution.
NewRefresh(p, frees, run) ==
    [at |-> "list", mine |-> TRUE, same |-> TRUE, recover |-> ~p.writing /\ ~p.cancelling,
     cards |-> [o \in Orders |-> Null], stale |-> {}, seen |-> Null, fixed |-> {},
     failed |-> FALSE, frees |-> frees, run |-> run]

\* finally of an execution: only its own identifier goes.
Forget(is, run) ==
    IF run = Null THEN is ELSE [is EXCEPT ![run.o] = IF @ = run.id THEN Null ELSE @]
Released(p, frees) ==
    [p EXCEPT !.writing = @ /\ frees # "writing", !.cancelling = @ /\ frees # "cancelling"]

Moved(c, d) == calls' = (calls \ {c}) \cup {d}

\* The caller waits for a refresh, which returns at once if one is under way.
\* rs are the refreshes with what the caller has changed of them.
ThenRefresh(p, rs, frees, run) ==
    IF p.refreshing
    THEN panel' = Released(p, frees) /\ refreshes' = rs /\ ids' = Forget(ids, run)
    ELSE /\ panel' = [p EXCEPT !.refreshing = TRUE]
         /\ refreshes' = rs \cup {NewRefresh(p, frees, run)}
         /\ ids' = ids

Init ==
    /\ \E b \in Begin : file = [o \in Orders |-> [n |-> 0, body |-> 0, status |-> b[o]]]
    /\ lock = [o \in Orders |-> Null]
    /\ panel = [EmptyPanel("here") EXCEPT !.refreshing = TRUE]
    /\ refreshes = {NewRefresh(EmptyPanel("here"), "nothing", Null)}
    /\ ids = [o \in Orders |-> Null] /\ calls = {}
    /\ clicked = Null /\ inputs = 0 /\ outside = 0

-----------------------------------------------------------------------------
(* Refreshes: by a timer, the focus, F5, a signal of the shell. One that is asked *)
(* for while another is under way is dropped.                                *)
Refresh ==
    /\ Here /\ ~panel.refreshing
    /\ panel' = [panel EXCEPT !.refreshing = TRUE]
    /\ refreshes' = refreshes \cup {NewRefresh(panel, "nothing", Null)}
    /\ UNCHANGED <<file, lock, ids, calls, clicked, inputs, outside>>

OnlyRefreshes == UNCHANGED <<lock, panel, ids, calls, clicked, inputs>>
Goes(r, s) == refreshes' = (refreshes \ {r}) \cup {s}

RefreshFails(r) ==
    /\ r.at = "list" /\ Fails
    /\ Goes(r, [r EXCEPT !.at = "answer", !.failed = TRUE])
    /\ OnlyRefreshes /\ UNCHANGED file

\* The files that are there and the status each has. (Names and contents are read one
\* after the other: a file that goes in between leaves a card without status.)
Cards == [o \in Orders |-> Card(file[o])]

RefreshReads(r) ==
    /\ r.at = "list"
    /\ LET stale == {o \in Orders : r.recover /\ Cards[o] = "running"} IN
       Goes(r, [r EXCEPT !.at = IF stale = {} THEN "answer" ELSE "inspect",
                         !.cards = Cards, !.stale = stale])
    /\ OnlyRefreshes /\ UNCHANGED <<file, outside>>

\* Runs of this program are not stale; of other programs' runs it knows nothing.
OwnRuns == {o \in Orders : lock[o] \notin {Null, Elsewhere}}
NextMark(stale, fixed) ==
    IF stale # {} THEN "mark" ELSE IF fixed # {} THEN "reread" ELSE "answer"

RefreshInspects(r) ==
    /\ r.at = "inspect"
    /\ LET stale == r.stale \ OwnRuns IN
       Goes(r, [r EXCEPT !.at = NextMark(stale, {}), !.stale = stale])
    /\ OnlyRefreshes /\ UNCHANGED <<file, outside>>

RefreshReadsStale(r, o) ==
    /\ r.at = "mark" /\ o \in r.stale
    /\ LET rest == r.stale \ {o} IN
       Goes(r, IF file[o].status = "running"
               THEN [r EXCEPT !.at = "write", !.seen = [o |-> o, w |-> file[o]]]
               ELSE [r EXCEPT !.at = NextMark(rest, r.fixed), !.stale = rest])
    /\ OnlyRefreshes /\ UNCHANGED <<file, outside>>

\* A guarded write: of exactly what was read, and of an order that nobody runs.
Replaceable(o, seen) == Exists(file[o]) /\ Same(file[o], seen) /\ lock[o] = Null

RefreshMarks(r) ==
    /\ r.at = "write"
    /\ LET o == r.seen.o
           done == Replaceable(o, r.seen.w)
           fixed == IF done THEN r.fixed \cup {[o |-> o, w |-> Written(file[o], "failed")]}
                    ELSE r.fixed
       IN /\ file' = IF done THEN [file EXCEPT ![o] = Written(@, "failed")] ELSE file
          /\ Goes(r, [r EXCEPT !.at = NextMark(r.stale \ {o}, fixed), !.stale = @ \ {o},
                               !.seen = Null, !.fixed = fixed])
    /\ OnlyRefreshes /\ UNCHANGED outside

RefreshRereads(r) ==
    /\ r.at = "reread"
    /\ Goes(r, [r EXCEPT !.at = "answer", !.cards = [o \in Orders |-> IF @[o] = Null THEN Null ELSE Cards[o]]])
    /\ OnlyRefreshes /\ UNCHANGED <<file, outside>>

\* The work order on display is replaced only by what the refresh itself made of it.
Recovered(r) ==
    {f \in r.fixed : r.same /\ panel.shown # Null /\ f.o = panel.shown.o}
RefreshAnswers(r) ==
    /\ r.at = "answer"
    /\ ids' = Forget(ids, r.run)
    /\ IF r.mine
       THEN LET p == Released([panel EXCEPT !.refreshing = FALSE], r.frees)
                q == IF r.failed THEN p ELSE [p EXCEPT !.list = r.cards] IN
            IF ~r.failed /\ Recovered(r) # {}
            THEN /\ \E f \in Recovered(r) :
                       panel' = [q EXCEPT !.shown.w = f.w]
                 /\ calls' = Reassigned(calls)
                 /\ refreshes' = Reassigned(refreshes \ {r})
            ELSE panel' = q /\ refreshes' = refreshes \ {r} /\ calls' = calls
       ELSE refreshes' = refreshes \ {r} /\ UNCHANGED <<panel, calls>>
    /\ UNCHANGED <<file, lock, clicked, inputs, outside>>

-----------------------------------------------------------------------------
(* Selecting a work order, and previewing its prompt.                         *)
Deselected(p) ==
    [p EXCEPT !.shown = Null, !.reading = FALSE, !.estimate = Null, !.previewing = FALSE]

Click(o) ==
    /\ Input("select") /\ NoDialog /\ panel.list[o] # Null
    /\ IF PathKnown(panel) /\ panel.shown.o = o
       THEN panel' = Deselected(panel) /\ calls' = Superseded(calls) /\ clicked' = Null
       ELSE /\ panel' = [Deselected(panel) EXCEPT !.reading = TRUE]
            /\ calls' = Superseded(calls) \cup {NewCall("read", o, Null, "native")}
            /\ clicked' = o
    /\ UNCHANGED <<file, lock, ids, refreshes, outside>>

ReadAtNative(c) ==
    /\ c.kind = "read" /\ c.at = "native"
    /\ Moved(c, [c EXCEPT !.at = "answer", !.result = IF Exists(file[c.o]) THEN file[c.o] ELSE Null])
    /\ UNCHANGED <<file, lock, panel, ids, refreshes, clicked, inputs, outside>>

ReadAnswers(c) ==
    /\ c.kind = "read" /\ c.at = "answer"
    /\ IF c.mine /\ c.sel /\ c.result # Null
       THEN /\ panel' = [panel EXCEPT !.shown = Display(c.o, c.result, TRUE), !.reading = FALSE]
            /\ calls' = Reassigned(calls \ {c}) /\ refreshes' = Reassigned(refreshes)
       ELSE /\ panel' = [panel EXCEPT !.reading = @ /\ ~(c.mine /\ c.sel)]
            /\ calls' = calls \ {c} /\ UNCHANGED refreshes
    /\ UNCHANGED <<file, lock, ids, clicked, inputs, outside>>

Preview ==
    /\ Here /\ "run" \in Acts /\ inputs < MaxInputs /\ inputs' = inputs
    /\ NoDialog /\ panel.shown # Null /\ panel.shown.w.status \in Startable
    /\ ~panel.writing /\ ~panel.previewing
    /\ panel' = [panel EXCEPT !.previewing = TRUE]
    /\ calls' = calls \cup {NewCall("preview", panel.shown.o, panel.shown.w, "answer")}
    /\ UNCHANGED <<file, lock, ids, refreshes, clicked, outside>>

\* The estimate is shown in a dialog; its token is good for this body.
PreviewAnswers(c) ==
    /\ c.kind = "preview"
    /\ panel' = [panel EXCEPT
                    !.estimate = IF c.mine /\ c.sel /\ c.same THEN c.base.body ELSE @,
                    !.previewing = @ /\ ~(c.mine /\ c.sel)]
    /\ calls' = calls \ {c}
    /\ UNCHANGED <<file, lock, ids, refreshes, clicked, inputs, outside>>

ClosePreview ==
    /\ panel.estimate # Null /\ inputs' = inputs
    /\ panel' = [panel EXCEPT !.estimate = Null, !.previewing = FALSE]
    /\ calls' = PreviewClosed(calls)
    /\ UNCHANGED <<file, lock, ids, refreshes, clicked, outside>>

-----------------------------------------------------------------------------
(* A run, from the confirmation of its estimate to its answer.                *)
Confirm ==
    /\ Input("run") /\ panel.estimate # Null /\ panel.editing = Null
    /\ PathKnown(panel) /\ panel.shown.w.status \in Startable /\ ~panel.writing
    /\ LET o == panel.shown.o IN
       /\ ids' = [ids EXCEPT ![o] = inputs']
       /\ calls' = PreviewClosed(calls)
                    \cup {[NewCall("execute", o, panel.shown.w, "context")
                              EXCEPT !.token = panel.estimate]}
    /\ panel' = [panel EXCEPT !.writing = TRUE, !.estimate = Null, !.previewing = FALSE]
    /\ UNCHANGED <<file, lock, refreshes, clicked, outside>>

\* The agents and references have been read; the panel shows a running order before
\* the native side has looked at the file.
RunSends(c) ==
    /\ c.kind = "execute" /\ c.at = "context"
    /\ LET d == [c EXCEPT !.at = "native"] IN
       IF c.mine /\ PathKnown(panel) /\ panel.shown.o = c.o
       THEN /\ panel' = [panel EXCEPT !.shown.w = [c.base EXCEPT !.status = "running"]]
            /\ calls' = Reassigned((calls \ {c}) \cup {d})
            /\ refreshes' = Reassigned(refreshes)
       ELSE Moved(c, d) /\ UNCHANGED <<panel, refreshes>>
    /\ UNCHANGED <<file, lock, ids, clicked, inputs, outside>>

\* The native side begins the run of exactly what was sent and approved, or refuses.
RunBegins(c) ==
    /\ c.kind = "execute" /\ c.at = "native"
    /\ IF /\ Exists(file[c.o]) /\ file[c.o].status # "archived" /\ lock[c.o] = Null
          /\ file[c.o].body = c.base.body /\ c.token = c.base.body
       THEN /\ lock' = [lock EXCEPT ![c.o] = c.id]
            /\ file' = [file EXCEPT ![c.o] = Written(@, "running")]
            /\ Moved(c, [c EXCEPT !.at = "running"])
       ELSE Moved(c, [c EXCEPT !.at = "answer"]) /\ UNCHANGED <<file, lock>>
    /\ UNCHANGED <<panel, ids, refreshes, clicked, inputs, outside>>

\* It ends; a disk that fails leaves the file as it is and the answer without a work order.
RunEnds(c) ==
    /\ c.kind = "execute" /\ c.at = "running"
    /\ lock' = [lock EXCEPT ![c.o] = Null]
    /\ \/ \E s \in {"archived", "failed"} :
              /\ file' = [file EXCEPT ![c.o] = Written(@, s)]
              /\ Moved(c, [c EXCEPT !.at = "answer", !.result = file'[c.o]])
              /\ UNCHANGED outside
       \/ Fails /\ Moved(c, [c EXCEPT !.at = "answer"]) /\ UNCHANGED file
    /\ UNCHANGED <<panel, ids, refreshes, clicked, inputs>>

\* An answer without a work order brings back the one that was sent.
RunAnswers(c) ==
    /\ c.kind = "execute" /\ c.at = "answer"
    /\ LET run == [o |-> c.o, id |-> c.id]
           w == IF c.result = Null THEN c.base ELSE c.result IN
       IF ~c.mine
       THEN calls' = calls \ {c} /\ ids' = Forget(ids, run) /\ UNCHANGED <<panel, refreshes>>
       ELSE IF panel.shown # Null /\ panel.shown.o = c.o
       THEN /\ calls' = Reassigned(calls \ {c})
            /\ ThenRefresh([panel EXCEPT !.shown.w = w], Reassigned(refreshes), "writing", run)
       ELSE calls' = calls \ {c} /\ ThenRefresh(panel, refreshes, "writing", run)
    /\ UNCHANGED <<file, lock, clicked, inputs, outside>>

-----------------------------------------------------------------------------
(* Cancelling: by the identifier of the run; for a run this page has not started, *)
(* or that is not known, by marking its order as failed.                        *)
Cancel ==
    /\ Input("cancel") /\ NoDialog /\ panel.shown # Null /\ panel.shown.w.status = "running"
    /\ ~panel.cancelling
    /\ LET c == NewCall("cancel", panel.shown.o, panel.shown.w, "native") IN
       calls' = calls \cup {[c EXCEPT !.token = ids[c.o]]}
    /\ panel' = [panel EXCEPT !.cancelling = TRUE]
    /\ UNCHANGED <<file, lock, ids, refreshes, clicked, outside>>

CancelAtNative(c) ==
    /\ c.kind = "cancel" /\ c.at = "native"
    /\ Moved(c, [c EXCEPT !.at = IF (c.token # Null /\ lock[c.o] = c.token) \/ ~c.path
                                 THEN "answer" ELSE "read"])
    /\ UNCHANGED <<file, lock, panel, ids, refreshes, clicked, inputs, outside>>

CancelReads(c) ==
    /\ c.kind = "cancel" /\ c.at = "read"
    /\ Moved(c, IF file[c.o].status = "running"
                THEN [c EXCEPT !.at = "write", !.seen = file[c.o]]
                ELSE [c EXCEPT !.at = "answer"])
    /\ UNCHANGED <<file, lock, panel, ids, refreshes, clicked, inputs, outside>>

CancelMarks(c) ==
    /\ c.kind = "cancel" /\ c.at = "write"
    /\ IF Replaceable(c.o, c.seen)
       THEN /\ file' = [file EXCEPT ![c.o] = Written(@, "failed")]
            /\ Moved(c, [c EXCEPT !.at = "answer", !.result = file'[c.o]])
       ELSE Moved(c, [c EXCEPT !.at = "answer"]) /\ UNCHANGED file
    /\ UNCHANGED <<lock, panel, ids, refreshes, clicked, inputs, outside>>

\* The selection it is for is the one in which the user asked.
X_SelectionIsCurrent(c) == c.mine   \* Mutant: the selection is not compared.
SelectionIsCurrent(c) == c.mine /\ c.sel

\* The path on display is left as it is, also if a deletion has taken it away.
CancelAnswers(c) ==
    /\ c.kind = "cancel" /\ c.at = "answer"
    /\ LET cs == calls \ {c} IN
       IF ~c.mine THEN calls' = cs /\ UNCHANGED <<panel, ids, refreshes>>
       ELSE IF c.result = Null
       THEN calls' = cs /\ panel' = Released(panel, "cancelling") /\ UNCHANGED <<ids, refreshes>>
       ELSE IF SelectionIsCurrent(c)
       THEN /\ calls' = Reassigned(cs)
            /\ ThenRefresh([panel EXCEPT !.shown = Display(c.o, c.result, PathKnown(panel))],
                           Reassigned(refreshes), "cancelling", Null)
       ELSE calls' = cs /\ ThenRefresh(panel, refreshes, "cancelling", Null)
    /\ UNCHANGED <<file, lock, clicked, inputs, outside>>

-----------------------------------------------------------------------------
(* Writes of the panel: completing, editing, creating and deleting an order.    *)
Writes(kind, o, base, at) ==
    /\ ~panel.writing
    /\ panel' = [panel EXCEPT !.writing = TRUE]
    /\ calls' = calls \cup {NewCall(kind, o, base, at)}
    /\ UNCHANGED <<file, lock, ids, refreshes, clicked, outside>>

Complete ==
    /\ Input("complete") /\ NoDialog /\ PathKnown(panel)
    /\ panel.shown.w.status \notin {"archived", "running"}
    /\ Writes("complete", panel.shown.o, panel.shown.w, "check")

OpenEdit ==
    /\ Input("edit") /\ NoDialog /\ PathKnown(panel)
    /\ panel.shown.w.status \notin {"archived", "running"}
    /\ panel' = [panel EXCEPT !.editing = Display(panel.shown.o, panel.shown.w, TRUE)]
    /\ UNCHANGED <<file, lock, ids, calls, refreshes, clicked, outside>>

CloseEdit ==
    /\ Input("edit") /\ panel.editing # Null /\ ~panel.writing
    /\ panel' = [panel EXCEPT !.editing = Null]
    /\ UNCHANGED <<file, lock, ids, calls, refreshes, clicked, outside>>

\* What is saved builds on the work order the dialog was opened with.
SubmitEdit ==
    /\ Input("edit") /\ panel.editing # Null /\ PathKnown(panel) /\ panel.shown.o = panel.editing.o
    /\ Writes("edit", panel.editing.o, panel.editing.w, "check")

Create(o) ==
    /\ Input("create") /\ NoDialog /\ file[o].status = "unwritten"
    /\ \A c \in calls : c.kind = "create" => c.o # o
    /\ Writes("create", o, Null, "native")

Delete(o) ==
    /\ Input("delete") /\ NoDialog /\ panel.list[o] # Null
    /\ Writes("delete", o, Null, "native")

\* The snapshot that was on display, or in the dialog, is still what the file says.
SaveChecks(c) ==
    /\ c.kind \in {"complete", "edit"} /\ c.at = "check"
    /\ Moved(c, IF Exists(file[c.o]) /\ Same(file[c.o], c.base)
                THEN [c EXCEPT !.at = "native", !.seen = file[c.o]]
                ELSE [c EXCEPT !.at = "answer"])
    /\ UNCHANGED <<file, lock, panel, ids, refreshes, clicked, inputs, outside>>

Saved(c) ==
    CASE c.kind = "complete" -> Written(file[c.o], "archived")
      [] c.kind = "edit" -> Edited(file[c.o])
      [] c.kind = "create" -> Written(file[c.o], "active")
      [] c.kind = "delete" -> Written(file[c.o], "deleted")
CanSave(c) ==
    CASE c.kind \in {"complete", "edit"} -> Replaceable(c.o, c.seen)
      [] c.kind = "create" -> file[c.o].status = "unwritten"
      [] c.kind = "delete" -> Exists(file[c.o]) /\ lock[c.o] = Null

Save(c) ==
    /\ c.kind \in {"complete", "edit", "create", "delete"} /\ c.at = "native"
    /\ \/ /\ CanSave(c)
          /\ file' = [file EXCEPT ![c.o] = Saved(c)]
          /\ Moved(c, [c EXCEPT !.at = "answer", !.result = file'[c.o]])
          /\ UNCHANGED outside
       \/ /\ IF CanSave(c) THEN Fails ELSE UNCHANGED outside
          /\ Moved(c, [c EXCEPT !.at = "answer"]) /\ UNCHANGED file
    /\ UNCHANGED <<lock, panel, ids, refreshes, clicked, inputs>>

Shows(p, c) ==
    CASE c.kind = "complete" /\ SelectionIsCurrent(c) ->
            [p EXCEPT !.shown = Display(c.o, c.result, PathKnown(p))]
      [] c.kind = "edit" -> [p EXCEPT !.shown = Display(c.o, c.result, TRUE), !.editing = Null]
      [] OTHER -> p

SaveAnswers(c) ==
    /\ c.kind \in {"complete", "edit", "create"} /\ c.at = "answer"
    /\ LET cs == calls \ {c} IN
       IF ~c.mine THEN calls' = cs /\ UNCHANGED <<panel, ids, refreshes>>
       ELSE IF c.result = Null
       THEN calls' = cs /\ panel' = Released(panel, "writing") /\ UNCHANGED <<ids, refreshes>>
       ELSE IF Shows(panel, c) # panel
       THEN calls' = Reassigned(cs)
            /\ ThenRefresh(Shows(panel, c), Reassigned(refreshes), "writing", Null)
       ELSE calls' = cs /\ ThenRefresh(panel, refreshes, "writing", Null)
    /\ UNCHANGED <<file, lock, clicked, inputs, outside>>

\* A deleted order goes from the list and from display; a read of it is not called off.
DeleteAnswers(c) ==
    /\ c.kind = "delete" /\ c.at = "answer"
    /\ LET p == [panel EXCEPT !.writing = FALSE]
           q == [p EXCEPT !.list[c.o] = Null]
           gone == PathKnown(panel) /\ panel.shown.o = c.o IN
       IF ~c.mine THEN panel' = panel /\ calls' = calls \ {c}
       ELSE IF c.result = Null THEN panel' = p /\ calls' = calls \ {c}
       ELSE IF gone
       THEN /\ panel' = [q EXCEPT !.shown = Null, !.estimate = Null, !.previewing = FALSE]
            /\ calls' = PreviewClosed(Reassigned(calls \ {c}))
       ELSE panel' = q /\ calls' = calls \ {c}
    /\ refreshes' = IF panel'.shown = panel.shown THEN refreshes ELSE Reassigned(refreshes)
    /\ UNCHANGED <<file, lock, ids, clicked, inputs, outside>>

-----------------------------------------------------------------------------
\* activeExecutions belongs to the page, not to the workspace it shows.
X_Kept(at) == [o \in Orders |-> Null]   \* Mutant: it is emptied with the rest.
Kept(at) == IF at = "closed" THEN [o \in Orders |-> Null] ELSE ids

\* Mutant: the write that is under way still disables the buttons of the next workspace.
X_Leave(at) ==
    /\ Input("leave")
    /\ panel' = [EmptyPanel(at) EXCEPT !.writing = panel.writing] /\ clicked' = Null
    /\ ids' = Kept(at)
    /\ calls' = {[c EXCEPT !.mine = FALSE, !.sel = FALSE, !.same = FALSE] : c \in calls}
    /\ refreshes' = {[r EXCEPT !.mine = FALSE, !.same = FALSE] : r \in refreshes}
    /\ UNCHANGED <<file, lock, outside>>

\* Another workspace, or another page: that takes the identifiers along.
Leave(at) ==
    /\ Input("leave")
    /\ panel' = EmptyPanel(at) /\ clicked' = Null
    /\ ids' = Kept(at)
    /\ calls' = {[c EXCEPT !.mine = FALSE, !.sel = FALSE, !.same = FALSE] : c \in calls}
    /\ refreshes' = {[r EXCEPT !.mine = FALSE, !.same = FALSE] : r \in refreshes}
    /\ UNCHANGED <<file, lock, outside>>

\* Mutant: the page that is shown again still waits for the refresh it had under way.
X_Return ==
    /\ ~Here
    /\ panel' = [EmptyPanel("here") EXCEPT !.refreshing = TRUE]
    /\ refreshes' = IF refreshes = {} THEN {NewRefresh(EmptyPanel("here"), "nothing", Null)}
                    ELSE refreshes
    /\ UNCHANGED <<file, lock, ids, calls, clicked, inputs, outside>>

Return ==
    /\ ~Here
    /\ panel' = [EmptyPanel("here") EXCEPT !.refreshing = TRUE]
    /\ refreshes' = refreshes \cup {NewRefresh(EmptyPanel("here"), "nothing", Null)}
    /\ UNCHANGED <<file, lock, ids, calls, clicked, inputs, outside>>

\* Other programs keep to the execution lock: they edit, run, end a run or die in it.
Outside(o) ==
    /\ Fails /\ Exists(file[o])
    /\ \/ /\ lock[o] = Null /\ file[o].status \in Startable
          /\ \/ file' = [file EXCEPT ![o] = Edited(@)] /\ UNCHANGED lock
             \/ /\ file' = [file EXCEPT ![o] = Written(@, "running")]
                /\ lock' = [lock EXCEPT ![o] = Elsewhere]
       \/ /\ lock[o] = Elsewhere
          /\ lock' = [lock EXCEPT ![o] = Null]
          /\ \/ \E s \in {"archived", "failed"} : file' = [file EXCEPT ![o] = Written(@, s)]
             \/ UNCHANGED file
    /\ UNCHANGED <<panel, ids, calls, refreshes, clicked, inputs>>

User ==
    \/ \E o \in Orders : Click(o) \/ Create(o) \/ Delete(o)
    \/ Preview \/ ClosePreview \/ Confirm \/ Cancel
    \/ Complete \/ OpenEdit \/ CloseEdit \/ SubmitEdit
    \/ (\E at \in {"elsewhere", "closed"} : Leave(at)) \/ Return

CallStep(c) ==
    \/ ReadAtNative(c) \/ ReadAnswers(c) \/ PreviewAnswers(c)
    \/ RunSends(c) \/ RunBegins(c) \/ RunEnds(c) \/ RunAnswers(c)
    \/ CancelAtNative(c) \/ CancelReads(c) \/ CancelMarks(c) \/ CancelAnswers(c)
    \/ SaveChecks(c) \/ Save(c) \/ SaveAnswers(c) \/ DeleteAnswers(c)

RefreshStep(r) ==
    \/ RefreshFails(r) \/ RefreshReads(r) \/ RefreshInspects(r)
    \/ (\E o \in Orders : RefreshReadsStale(r, o))
    \/ RefreshMarks(r) \/ RefreshRereads(r) \/ RefreshAnswers(r)

Next ==
    \/ User \/ Refresh \/ \E o \in Orders : Outside(o)
    \/ \E c \in calls : CallStep(c)
    \/ \E r \in refreshes : RefreshStep(r)

\* The timer of the panel fires and its calls are answered; users owe nothing.
Progress == Refresh \/ \E r \in refreshes : RefreshStep(r)
Spec == Init /\ [][Next]_vars /\ WF_vars(Progress)

-----------------------------------------------------------------------------
Content == [n : Nat, body : Nat, status : Statuses]

\* Types of the state.
TypeOK ==
    /\ file \in [Orders -> Content]
    /\ lock \in [Orders -> Nat \cup {Null}]
    /\ ids \in [Orders -> Nat \cup {Null}]
    /\ DOMAIN panel.list = Orders
    /\ panel.shown # Null => panel.shown.o \in Orders /\ panel.shown.w \in Content

\* The list comes to tell what is in the folder, whatever was dropped, failed or discarded.
ListCatchesUp == []<>(Here => panel.list = Cards)
=============================================================================
