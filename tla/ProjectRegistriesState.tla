----------------------- MODULE ProjectRegistriesState -----------------------
(***************************************************************************)
(* The project registry of a workspace, the boards that show it and the    *)
(* writes they have queued, and what is promised of edits.  Commands,      *)
(* their answers and what users do are in ProjectRegistries.               *)
(***************************************************************************)
EXTENDS Integers, Sequences

CONSTANT Unset  \* no row, no draft, no guard, no reader, no task

VARIABLES
    row,        \* registry_json of the workspace, or Unset
    board,      \* the project board of each window
    writes,     \* workspaceOperationTails: the operations of each window
    overtaken,  \* history: a dialog saved in a board that had moved on
    edits       \* what users did so far; an edit is known by its number

-----------------------------------------------------------------------------
Content(r) == IF r = Unset THEN {} ELSE r
Shown(w) == board[w].view # 0
Visible(w) == IF board[w].draft = Unset THEN board[w].registry ELSE board[w].draft.registry

Op(w) == writes[w][1]
Operating(w, p) == writes[w] # <<>> /\ Op(w).phase = p

\* No save drops what another window or a promotion has committed since its editor
\* looked: an edit leaves the row only with an import, unless a dialog that awaited
\* its folder has saved the registry it began with over a board that had moved on.
SavedEditsSurvive ==
    [][\/ overtaken
       \/ Content(row) \subseteq Content(row')
       \/ edits' # edits      \* an import elsewhere
       \/ \E w \in DOMAIN writes :
             Operating(w, "checked") /\ Op(w).kind = "import" /\ row' = Op(w).next]_row

\* What the writes of the view that is shown have yet to save.
Pending(w) ==
    UNION {writes[w][i].next :
              i \in {j \in DOMAIN writes[w] : Shown(w) /\ writes[w][j].view = board[w].view}}
Lasting(w) == Content(row) \cup Pending(w)

\* An edit that a board shows, and that the row holds or a queued write will save,
\* stays on the board: no late answer, reread, notification or older save takes it back.
BoardNeverGoesBack ==
    [][\A w \in DOMAIN board :
          board[w].view = board'[w].view /\ ~overtaken'
              => Visible(w) \cap Lasting(w) \cap Lasting(w)' \subseteq Visible(w)']_board

\* A board's own edits and those of others survive, in the row and on display
\* (project-storage.ts, project-board-registry-writer.svelte.ts).
EditsSurvive == SavedEditsSurvive /\ BoardNeverGoesBack
=============================================================================
