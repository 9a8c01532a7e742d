--------------------------- MODULE WorkspaceSync ---------------------------
(***************************************************************************)
(* Sending and receiving the workspace data of this computer through a     *)
(* file, in a plain folder or in a Git clone whose remote other computers  *)
(* push to.  A workflow of the sync panel is a chain of awaited calls; the *)
(* panel's settings stay editable meanwhile, every call uses the settings  *)
(* of its own moment, and only a busy flag, which every call clears when   *)
(* it ends, keeps workflows apart.  Inspections of the folder supersede    *)
(* one another.  A panel that was left goes on with what it was doing.     *)
(*                                                                         *)
(* Git operations on one folder hold a lock (with_workspace_sync_git_path_ *)
(* lock), so each is one step, with the partial outcomes of a failure.     *)
(* The file is written without it; a write amid a push falls before or     *)
(* after the push, because the commit takes the content of its own moment. *)
(***************************************************************************)
EXTENDS FiniteSets, WorkspaceSyncState

CONSTANTS
    Panels,         \* instances of the panel, 1..n in the order they are opened
    Slots,          \* bound: workflows at once in one panel
    PlainFiles,     \* sync files outside a Git repository
    None,
    MaxMade,        \* bound: versions of the data made here or elsewhere
    MaxInputs,      \* bound: what the user does in the panels
    MaxFaults       \* bound: calls that fail

VARIABLES
    file,           \* the content of every sync file
    tracked,        \* the versions last fetched into the clone
    stored,         \* the stored sync settings: which file
    panel,          \* the state of every panel
    mounted,        \* the panel on screen
    made, inputs,
    errors          \* calls that failed so far

vars == <<local, file, head, tracked, upstream, remote, stored, panel, flow, mounted, lost,
          made, inputs, errors>>
gitVars == <<head, tracked, upstream, remote>>

SyncConstants ==
    /\ 1 \in Panels /\ Panels \subseteq Nat
    /\ IsFiniteSet(Slots) /\ Slots # {} /\ Slots \subseteq Nat \ {0}
    /\ IsFiniteSet(PlainFiles) /\ "git" \notin PlainFiles
    /\ MaxMade \in Nat /\ MaxInputs \in Nat /\ MaxFaults \in Nat
    /\ None \notin Nat \cup {"fetch", "pull"}

Files == {"git"} \cup PlainFiles
Versions == 0..MaxMade
Kinds == {"save", "send", "load", "receive", "fetch", "pull", "push"}

\* What an inspection tells (WorkspaceSyncGitInspection).
Info == [ready : BOOLEAN, behind : BOOLEAN, ahead : BOOLEAN, changed : BOOLEAN]

Display == 0

\* An inspection in flight: for a workflow or for display, what it has seen.
NoLook == [by |-> None, file |-> "git", seen |-> None]
Glance(f) == [NoLook EXCEPT !.by = Display, !.file = f]

\* astray is history: the settings were edited meanwhile, or the inspection that the
\* workflow waits for was superseded or failed.
NoFlow == [kind |-> None, step |-> "idle", action |-> None, file |-> "git", content |-> None,
           astray |-> FALSE, tip |-> 0, ok |-> FALSE]

Input == inputs < MaxInputs /\ inputs' = inputs + 1
Fault == errors < MaxFaults /\ errors' = errors + 1
Make == made < MaxMade /\ made' = made + 1

Dirty == file["git"] # Last(head)
Behind == ~IsPrefix(tracked, head)
Ahead == ~IsPrefix(head, tracked)

\* syncGitInspection says that Git operations may be tried; isSyncGitRemoteReady.
MayTry(p) == p.info # None /\ p.info.ready
Ready(p) == p.look.by = None /\ MayTry(p)

-----------------------------------------------------------------------------
(* The world beyond the panel                                                *)

LocalEdit ==
    /\ Make
    /\ local' = made'
    /\ UNCHANGED <<file, gitVars, stored, panel, flow, mounted, lost, inputs, errors>>

OtherPush ==
    /\ Make
    /\ remote' = Append(remote, made')
    /\ UNCHANGED <<local, file, head, tracked, upstream, stored, panel, flow, mounted, lost,
                   inputs, errors>>

-----------------------------------------------------------------------------
(* Settings and inspections                                                  *)

\* inspectSyncGitRepository without anybody who waits for the answer.
Glances(p) == [p EXCEPT !.look = Glance(p.file)]

\* Another folder or file name is entered, here or in another window whose settings this
\* one follows, whatever the panel is doing.
EditSettings(f) ==
    /\ Input
    /\ f # panel[mounted].file
    /\ stored' = f
    /\ panel' = [panel EXCEPT ![mounted] = Glances([@ EXCEPT !.file = f])]
    /\ flow' = [flow EXCEPT ![mounted] = [s \in Slots |-> IF @[s] = NoFlow THEN NoFlow
                                                          ELSE [@[s] EXCEPT !.astray = TRUE]]]
    /\ UNCHANGED <<local, file, gitVars, mounted, lost, made, errors>>

CheckStatus ==
    /\ Input
    /\ ~panel[mounted].busy /\ panel[mounted].look.by = None
    /\ panel' = [panel EXCEPT ![mounted] = Glances(@)]
    /\ UNCHANGED <<local, file, gitVars, stored, flow, mounted, lost, made, errors>>

\* The user leaves the page and comes back to a new panel.
Reopen ==
    /\ Input
    /\ mounted + 1 \in Panels
    /\ mounted' = mounted + 1
    /\ panel' = [panel EXCEPT ![mounted'] = Glances([@ EXCEPT !.file = stored])]
    /\ UNCHANGED <<local, file, gitVars, stored, flow, lost, made, errors>>

\* inspect_workspace_sync_git; failed counts are zero, and so they are without upstream.
Seen(f, counted) ==
    LET git == f = "git" IN
    [ready |-> git, behind |-> git /\ counted /\ upstream /\ Behind,
     ahead |-> git /\ counted /\ upstream /\ Ahead, changed |-> git /\ Dirty]

InspectRuns(i) ==
    LET look == panel[i].look IN
    /\ look.by # None /\ look.seen = None
    /\ \/ /\ panel' = [panel EXCEPT ![i].look.seen = Seen(look.file, TRUE)]
          /\ UNCHANGED <<flow, errors>>
       \/ /\ Fault /\ panel' = [panel EXCEPT ![i].look.seen = Seen(look.file, FALSE)]
          /\ flow' = IF look.by = Display THEN flow
                     ELSE [flow EXCEPT ![i][look.by].astray = TRUE]
    /\ UNCHANGED <<local, file, gitVars, stored, mounted, lost, made, inputs>>

-----------------------------------------------------------------------------
(* The stages of a workflow                                                  *)

\* runLoadFile and runGitSyncAction begin: a stage of a workflow, and the panel is busy.
Loads(fl, p) == [fl EXCEPT !.step = "load", !.file = p.file]
Gits(fl, action) == [fl EXCEPT !.step = "credential", !.action = action]

Become(i, s, p, fl) ==
    /\ panel' = [panel EXCEPT ![i] = p]
    /\ flow' = [flow EXCEPT ![i][s] = fl]

Busy(p) == [p EXCEPT !.busy = TRUE]
Free(p) == [p EXCEPT !.busy = FALSE]
Ends(i, s, p) == Become(i, s, Free(p), NoFlow)

\* A Git stage is begun, unless the last inspection is against it.
GoesGit(i, s, p, fl, action) ==
    IF MayTry(p) THEN Become(i, s, Busy(p), Gits(fl, action)) ELSE Become(i, s, p, NoFlow)

\* What the buttons ask of the last inspection.
Enabled(p, kind) ==
    CASE kind = "fetch" -> Ready(p)
      [] kind = "pull"  -> Ready(p) /\ p.info.behind
      [] kind = "push"  -> Ready(p) /\ (p.info.ahead \/ p.info.changed)
      [] OTHER          -> TRUE

\* confirmDangerAction, or the fetch button.
Confirm(s, kind) ==
    LET p == panel[mounted]
        fl == [NoFlow EXCEPT !.kind = kind]
    IN  /\ Input
        /\ ~p.busy /\ flow[mounted][s] = NoFlow /\ Enabled(p, kind)
        /\ CASE kind \in {"save", "send"} ->
                    Become(mounted, s, Busy(p), [fl EXCEPT !.step = "read"])
             [] kind = "load" -> Become(mounted, s, Busy(p), Loads(fl, p))
             [] kind = "receive" ->
                    IF Ready(p) THEN GoesGit(mounted, s, p, fl, "fetch")
                    ELSE Become(mounted, s, Busy(p), Loads(fl, p))
             [] OTHER -> GoesGit(mounted, s, p, fl, kind)
        /\ UNCHANGED <<local, file, gitVars, stored, mounted, lost, made, errors>>

\* createEncryptedRegistryPayload: the registries are read, then encrypted; the file is
\* written where the settings point after that.
ReadsRegistries(i, s) ==
    /\ flow[i][s].step = "read"
    /\ \/ /\ flow' = [flow EXCEPT ![i][s].step = "encrypt", ![i][s].content = local]
          /\ UNCHANGED <<panel, errors>>
       \/ Fault /\ Ends(i, s, panel[i])
    /\ UNCHANGED <<local, file, gitVars, stored, mounted, lost, made, inputs>>

Encrypts(i, s) ==
    /\ flow[i][s].step = "encrypt"
    /\ Become(i, s, Busy(panel[i]), [flow[i][s] EXCEPT !.step = "write", !.file = panel[i].file])
    /\ UNCHANGED <<local, file, gitVars, stored, mounted, lost, made, inputs, errors>>

\* What a replaced content leaves behind if no commit has it.
Overwritten(f, new) ==
    IF f = "git" /\ Dirty /\ file[f] # new THEN lost \cup {file[f]} ELSE lost

\* write_workspace_sync_file and the rest of runSaveFile; runSendSync goes on to push.
Writes(i, s) ==
    LET fl == flow[i][s] IN
    LET p == Free(panel[i]) IN
    /\ fl.step = "write"
    /\ \/ /\ file' = [file EXCEPT ![fl.file] = fl.content]
          /\ lost' = Overwritten(fl.file, fl.content)
          /\ IF fl.kind = "send" /\ Ready(p) THEN GoesGit(i, s, p, fl, "push")
             ELSE Become(i, s, Glances(p), NoFlow)
          /\ UNCHANGED errors
       \/ Fault /\ Ends(i, s, p) /\ UNCHANGED <<file, lost>>
    /\ UNCHANGED <<local, gitVars, stored, mounted, made, inputs>>

\* The credential is resolved; the operation takes the settings as they are then.
Credential(i, s) ==
    /\ flow[i][s].step = "credential"
    /\ flow' = [flow EXCEPT ![i][s].step = "git", ![i][s].file = panel[i].file]
    /\ UNCHANGED <<local, file, gitVars, stored, panel, mounted, lost, made, inputs, errors>>

Answers(i, s, ok) ==
    flow' = [flow EXCEPT ![i][s].step = "answered", ![i][s].ok = ok,
                         ![i][s].tip = IF flow[i][s].action = "fetch" /\ ok THEN Last(remote) ELSE @]

Fetch(i, s) ==
    /\ tracked' = remote
    /\ Answers(i, s, TRUE)
    /\ UNCHANGED <<file, head, upstream, remote, lost>>

\* git pull --ff-only: it refuses a history that forked and a file that would be lost.
Pull(i, s) ==
    LET forwards == IsPrefix(head, remote) /\ (head = remote \/ ~Dirty) IN
    /\ tracked' = remote
    /\ head' = IF forwards THEN remote ELSE head
    /\ file' = IF forwards /\ head # remote THEN [file EXCEPT !["git"] = Last(remote)] ELSE file
    /\ Answers(i, s, forwards \/ IsPrefix(remote, head))
    /\ UNCHANGED <<upstream, remote, lost>>

\* Mutant: commits that wait to be pushed keep the file from being committed.
Push_WhatWaits(i, s, accepted, ok) ==
    LET mine == IF Dirty /\ ~Ahead THEN Append(head, file["git"]) ELSE head
        up == accepted /\ IsPrefix(remote, mine)
    IN  /\ head' = mine
        /\ remote' = IF up THEN mine ELSE remote
        /\ tracked' = IF up THEN mine ELSE tracked
        /\ upstream' = (upstream \/ up)
        /\ Answers(i, s, ok /\ up)
        /\ UNCHANGED <<file, lost>>

\* run_workspace_sync_push: the file is committed if it changed; the push is refused if
\* the remote has commits of others. accepted: the push reaches the remote.
Push(i, s, accepted, ok) ==
    LET mine == IF Dirty THEN Append(head, file["git"]) ELSE head
        up == accepted /\ IsPrefix(remote, mine)
    IN  /\ head' = mine
        /\ remote' = IF up THEN mine ELSE remote
        /\ tracked' = IF up THEN mine ELSE tracked
        /\ upstream' = (upstream \/ up)
        /\ Answers(i, s, ok /\ up)
        /\ UNCHANGED <<file, lost>>

\* run_workspace_sync_git; a failure is told as such although part may have been done.
GitRuns(i, s) ==
    LET fl == flow[i][s] IN
    LET git == fl.file = "git" IN
    /\ fl.step = "git"
    /\ \/ git /\ fl.action = "fetch" /\ Fetch(i, s) /\ UNCHANGED errors
       \/ git /\ fl.action = "pull" /\ Pull(i, s) /\ UNCHANGED errors
       \/ git /\ fl.action = "push" /\ Push(i, s, TRUE, TRUE) /\ UNCHANGED errors
       \/ git /\ fl.action = "push" /\ Fault /\ \E up \in BOOLEAN : Push(i, s, up, FALSE)
       \/ /\ Fault \/ (~git /\ UNCHANGED errors)
          /\ Answers(i, s, FALSE)
          /\ tracked' \in {tracked, IF git /\ fl.action \in {"fetch", "pull"} THEN remote ELSE tracked}
          /\ UNCHANGED <<file, head, upstream, remote, lost>>
    /\ UNCHANGED <<local, stored, panel, mounted, made, inputs>>

\* runGitSyncAction resumes: the panel is free, and the folder is inspected anew. A
\* receive inspects it once more, for itself, and loads after its pull.
GitAnswered(i, s) ==
    LET fl == flow[i][s] IN
    LET p == IF fl.ok THEN Glances(Free(panel[i])) ELSE Free(panel[i]) IN
    /\ fl.step = "answered"
    /\ CASE fl.ok /\ fl.kind = "receive" /\ fl.action = "fetch" ->
                Become(i, s, [p EXCEPT !.look.by = s], [fl EXCEPT !.step = "look"])
         [] fl.ok /\ fl.kind = "receive" /\ fl.action = "pull" ->
                Become(i, s, Busy(p), Loads(fl, p))
         [] OTHER -> Become(i, s, p, NoFlow)
    /\ UNCHANGED <<local, file, gitVars, stored, mounted, lost, made, inputs, errors>>

\* Mutant: the receive decides by what the panel showed before its fetch.
InspectAnswered_ByPanel(i) ==
    LET look == panel[i].look IN
    LET p == [panel[i] EXCEPT !.info = look.seen, !.look = NoLook] IN
    /\ look.by # None /\ look.seen # None
    /\ IF look.by = Display THEN panel' = [panel EXCEPT ![i] = p] /\ UNCHANGED flow
       ELSE LET s == look.by IN
            IF MayTry(panel[i]) /\ panel[i].info.behind THEN GoesGit(i, s, p, flow[i][s], "pull")
            ELSE Become(i, s, Busy(p), Loads(flow[i][s], p))
    /\ UNCHANGED <<local, file, gitVars, stored, mounted, lost, made, inputs, errors>>

\* inspectSyncGitRepository resumes; the receive that asked pulls if it is behind.
InspectAnswered(i) ==
    LET look == panel[i].look IN
    LET p == [panel[i] EXCEPT !.info = look.seen, !.look = NoLook] IN
    /\ look.by # None /\ look.seen # None
    /\ IF look.by = Display THEN panel' = [panel EXCEPT ![i] = p] /\ UNCHANGED flow
       ELSE LET s == look.by IN
            IF look.seen.ready /\ look.seen.behind THEN GoesGit(i, s, p, flow[i][s], "pull")
            ELSE Become(i, s, Busy(p), Loads(flow[i][s], p))
    /\ UNCHANGED <<local, file, gitVars, stored, mounted, lost, made, inputs, errors>>

\* A superseded inspection answers null: the receive loads without a pull.
Superseded(i, s) ==
    /\ flow[i][s].step = "look" /\ panel[i].look.by # s
    /\ Become(i, s, Busy(panel[i]), Loads([flow[i][s] EXCEPT !.astray = TRUE], panel[i]))
    /\ UNCHANGED <<local, file, gitVars, stored, mounted, lost, made, inputs, errors>>

\* read_workspace_sync_file; the content is then decrypted and imported.
LoadsFile(i, s) ==
    LET fl == flow[i][s] IN
    /\ fl.step = "load"
    /\ \/ /\ file[fl.file] # None
          /\ Become(i, s, Busy(panel[i]), [fl EXCEPT !.step = "import", !.content = file[fl.file]])
          /\ UNCHANGED errors
       \/ /\ Fault \/ (file[fl.file] = None /\ UNCHANGED errors)
          /\ Ends(i, s, panel[i])
    /\ UNCHANGED <<local, file, gitVars, stored, mounted, lost, made, inputs>>

\* writeWorkspaceSyncRegistries replaces all registries in one transaction or none.
Imports(i, s) ==
    /\ flow[i][s].step = "import"
    /\ \/ local' = flow[i][s].content /\ Ends(i, s, Glances(panel[i])) /\ UNCHANGED errors
       \/ Fault /\ Ends(i, s, panel[i]) /\ UNCHANGED local
    /\ UNCHANGED <<file, gitVars, stored, mounted, lost, made, inputs>>

-----------------------------------------------------------------------------
Init ==
    /\ local = 0
    /\ file = [f \in Files |-> IF f = "git" THEN 0 ELSE None]
    /\ head = <<0>> /\ tracked = <<0>> /\ remote = <<0>>
    /\ upstream \in BOOLEAN
    /\ stored = "git"
    /\ panel = [i \in Panels |-> [busy |-> FALSE, file |-> stored, info |-> None,
                                  look |-> IF i = 1 THEN Glance(stored) ELSE NoLook]]
    /\ flow = [i \in Panels |-> [s \in Slots |-> NoFlow]]
    /\ mounted = 1
    /\ lost = {}
    /\ made = 0 /\ inputs = 0 /\ errors = 0

Next ==
    \/ LocalEdit \/ OtherPush \/ CheckStatus \/ Reopen
    \/ \E f \in Files : EditSettings(f)
    \/ \E s \in Slots, kind \in Kinds : Confirm(s, kind)
    \/ \E i \in Panels : InspectRuns(i) \/ InspectAnswered(i)
    \/ \E i \in Panels, s \in Slots :
          \/ ReadsRegistries(i, s) \/ Encrypts(i, s) \/ Writes(i, s)
          \/ Credential(i, s) \/ GitRuns(i, s) \/ GitAnswered(i, s)
          \/ Superseded(i, s) \/ LoadsFile(i, s) \/ Imports(i, s)

Spec == Init /\ [][Next]_vars

-----------------------------------------------------------------------------
PanelStates ==
    [busy : BOOLEAN, file : Files, info : Info \cup {None},
     look : [by : Slots \cup {Display, None}, file : Files, seen : Info \cup {None}]]
Workflows ==
    [kind : Kinds \cup {None},
     step : {"idle", "read", "encrypt", "write", "credential", "git", "answered", "look",
             "load", "import"},
     action : {"fetch", "pull", "push", None}, file : Files, content : Versions \cup {None},
     astray : BOOLEAN, tip : Versions, ok : BOOLEAN]

TypeOK ==
    /\ local \in Versions
    /\ file \in [Files -> Versions \cup {None}] /\ file["git"] # None
    /\ \A h \in {head, tracked, remote} : h \in Seq(Versions) /\ h # <<>>
    /\ upstream \in BOOLEAN /\ stored \in Files /\ mounted \in Panels
    /\ panel \in [Panels -> PanelStates] /\ flow \in [Panels -> [Slots -> Workflows]]
    /\ lost \subseteq Versions
    /\ made \in Versions /\ inputs \in 0..MaxInputs /\ errors \in 0..MaxFaults
=============================================================================
