------------------------ MODULE WorkspaceRegistries ------------------------
(***************************************************************************)
(* The agent and persona registries of one workspace (agents.json and      *)
(* personas.json), the journal that makes one update of both survive a     *)
(* crash, and the programs that write them: desktop windows (evaluation of *)
(* a result report, agents panel, personas panel) and the command line.    *)
(*                                                                         *)
(* Every native command holds the workspace registry lock, replays a       *)
(* journal it finds, and then does its work; between two commands of one   *)
(* desktop workflow anybody else may run.  Each file operation is a step,  *)
(* so that a crash or a failing disk can come between any two.             *)
(***************************************************************************)
EXTENDS Naturals, Sequences, FiniteSets, Functions

CONSTANTS
    Desktops, Clis,      \* windows of the desktop application, command lines
    Agents, Personas,    \* identifiers, those not yet created included
    Keys,                \* evaluation keys: the tasks of one result report
    NoPersona,           \* personaId is null
    Unborn, Gone,        \* an identifier never used, a record removed
    Nobody,
    MaxOps, MaxFaults, MaxCrashes  \* bounds: workflows, failing calls, crashes

Processes == Desktops \cup Clis

ASSUME ProcessAssumption ==
    Desktops \cap Clis = {} /\ Nobody \notin Processes /\ IsFiniteSet(Agents) /\ IsFiniteSet(Keys)
ASSUME BoundAssumption == {MaxOps, MaxFaults, MaxCrashes} \subseteq Nat

\* resets: evaluationResetAt, as the number of resets it stands for.
AgentRecord == [keys : SUBSET Keys, count : Nat, persona : Personas \cup {NoPersona}, resets : Nat]
AgentFile == [rev : Nat, of : [Agents -> AgentRecord \cup {Unborn, Gone}]]
PersonaFile == [rev : Nat, of : [Personas -> Nat \cup {Unborn, Gone}]]
Pair == [agents : AgentFile, personas : PersonaFile]

\* What a window shows: the agents of the agents and queue panels, and both
\* registries as the personas panel has them.  unsaved is history: this board
\* holds what a pair that could not be saved left on display.
View == [agents : AgentFile, board : Pair, unsaved : BOOLEAN]

ASSUME RecordAssumption ==
    /\ Unborn # Gone /\ {Unborn, Gone} \cap (AgentRecord \cup Nat) = {}
    /\ NoPersona \notin Personas

VARIABLES
    files,    \* agents.json and personas.json
    pending,  \* is there a .registry-transaction.json?
    journal,  \* the pair it holds
    marks,    \* the evaluations written into the result report
    lock,     \* the process that holds the registry lock
    at,       \* where each process is
    op,       \* the workflow it runs
    todo,     \* the native commands that are left of it
    mine,     \* the registries the workflow works on
    saw,      \* the report as the workflow read it
    view,     \* the registries the panels of a window show
    spent     \* how much of each bound is used up

vars == <<files, pending, journal, marks, lock, at, op, todo, mine, saw, view, spent>>

Born(of, i) == of[i] \notin {Unborn, Gone}
Empty == [agents   |-> [rev |-> 0, of |-> [a \in Agents |-> Unborn]],
          personas |-> [rev |-> 0, of |-> [q \in Personas |-> Unborn]]]
Blank == [agents |-> Empty.agents, board |-> Empty, unsaved |-> FALSE]
NewAgent(q) == [keys |-> {}, count |-> 0, persona |-> q, resets |-> 0]
NoOp == [kind |-> "none", items |-> {}]

\* What a reader that replays the journal finds.
Committed == IF pending THEN journal ELSE files

---------------------------------------------------------------------------
(* The pure parts: evaluations, and the persona summaries made from them.  *)

RecordAll_Again(of, items) ==
    [a \in Agents |->
        IF ~Born(of, a) THEN of[a]
        ELSE LET new == {k \in Keys : <<a, k>> \in items}
             IN [of[a] EXCEPT !.keys = @ \cup new, !.count = @ + Cardinality(new)]]
RecordAll(of, items) ==
    [a \in Agents |->
        IF ~Born(of, a) THEN of[a]
        ELSE LET new == {k \in Keys : <<a, k>> \in items} \ of[a].keys
             IN [of[a] EXCEPT !.keys = @ \cup new, !.count = @ + Cardinality(new)]]

Assigned(of, q) == {a \in Agents : Born(of, a) /\ of[a].persona = q}
Summary(of, q) == SumFunction([a \in Assigned(of, q) |-> of[a].count])

Sync(personas, of) ==
    [personas EXCEPT !.of = [q \in Personas |-> IF Born(@, q) THEN Summary(of, q) ELSE @[q]]]

Bumped_Same(file) == file
Bumped(file) == [file EXCEPT !.rev = @ + 1]

---------------------------------------------------------------------------
\* Registries this version wrote before, still without evaluations, and windows
\* that have loaded them or not.
Init ==
    /\ \E hired \in SUBSET Agents, known \in SUBSET Personas :
       \E persona \in [hired -> known \cup {NoPersona}] :
          files = [agents   |-> [rev |-> 1, of |-> [a \in Agents |->
                                   IF a \in hired THEN NewAgent(persona[a]) ELSE Unborn]],
                   personas |-> [rev |-> 1, of |-> [q \in Personas |->
                                   IF q \in known THEN 0 ELSE Unborn]]]
    /\ pending = FALSE
    /\ journal = Empty
    /\ marks = {}
    /\ lock = Nobody
    /\ at = [p \in Processes |-> "idle"]
    /\ op = [p \in Processes |-> NoOp]
    /\ todo = [p \in Processes |-> <<>>]
    /\ mine = [p \in Processes |-> Empty]
    /\ saw = [p \in Processes |-> {}]
    /\ view \in [Desktops -> {Blank, [agents |-> files.agents, board |-> files, unsaved |-> FALSE]}]
    /\ spent = [ops |-> 0, faults |-> 0, crashes |-> 0]

---------------------------------------------------------------------------
(* Workflows, each a sequence of native commands.                          *)

Begin(p, kind, items, pair, commands) ==
    /\ at[p] \in {"idle", "failed"}
    /\ spent.ops < MaxOps
    /\ spent' = [spent EXCEPT !.ops = @ + 1]
    /\ at' = [at EXCEPT ![p] = "asks"]
    /\ op' = [op EXCEPT ![p] = [kind |-> kind, items |-> items]]
    /\ todo' = [todo EXCEPT ![p] = commands]
    /\ mine' = [mine EXCEPT ![p] = pair]
    /\ saw' = [saw EXCEPT ![p] = marks]
    /\ UNCHANGED <<files, pending, journal, marks, lock, view>>

\* The panels are mounted and read both registries.
Load(d) == Begin(d, "load", {}, Empty, <<"loadAgents", "loadPersonas">>)

\* The evaluation dialog opens only for a key that the agent, as the panel shows
\* it, does not have yet.  (The panel's copy of the report may be any old one.)
SaveEvaluation_MarkFirst == <<"readAgents", "mark", "readPersonas", "writePair">>
SaveEvaluation == <<"readAgents", "readPersonas", "writePair", "mark">>
Evaluate(d, a, k) ==
    /\ Born(view[d].agents.of, a)
    /\ k \notin view[d].agents.of[a].keys
    /\ Begin(d, "evaluate", {<<a, k>>}, Empty, SaveEvaluation)

\* A failed save leaves the dialog open: the same evaluation again.
Retry(d) ==
    /\ at[d] = "failed"
    /\ Begin(d, "evaluate", op[d].items, Empty, SaveEvaluation)

\* Panels change the registries they show, and submit the result.
EditAgent(d, a, record) ==
    Begin(d, "agent", {}, [Empty EXCEPT !.agents = [view[d].agents EXCEPT !.of[a] = record]],
          <<"readPersonas", "writePair">>)

\* The agents panel has a list of personas of its own, as it once read or saved them.
SaveAgent(d, a) ==
    \E q \in {r \in Personas : files.personas.of[r] # Unborn} \cup {NoPersona} :
        \/ Born(view[d].agents.of, a) /\ EditAgent(d, a, [view[d].agents.of[a] EXCEPT !.persona = q])
        \/ view[d].agents.of[a] = Unborn /\ files.agents.of[a] = Unborn /\ EditAgent(d, a, NewAgent(q))

RemoveAgent(d, a) == Born(view[d].agents.of, a) /\ EditAgent(d, a, Gone)

ResetAgent(d, a) ==
    /\ Born(view[d].agents.of, a) /\ view[d].agents.of[a].count > 0
    /\ EditAgent(d, a, [view[d].agents.of[a] EXCEPT !.keys = {}, !.count = 0, !.resets = @ + 1])

\* A persona is saved alone, or with the free agents that are to have it.
Give(of, S, q) == [a \in Agents |-> IF a \in S THEN [of[a] EXCEPT !.persona = q] ELSE of[a]]

SavePersona(d, q) ==
    LET board == view[d].board
        saved == [board.personas EXCEPT !.of[q] = IF @ = Unborn THEN 0 ELSE @]
    IN /\ \/ Born(board.personas.of, q)
          \/ board.personas.of[q] = Unborn /\ files.personas.of[q] = Unborn
       /\ \E S \in SUBSET Assigned(board.agents.of, NoPersona) :
             LET of == Give(board.agents.of, S, q) IN
             IF S = {} THEN Begin(d, "persona", {}, [board EXCEPT !.personas = saved], <<"writePersonas">>)
             ELSE Begin(d, "persona", {}, [agents   |-> [board.agents EXCEPT !.of = of],
                                           personas |-> Sync(saved, of)], <<"writePair">>)

RemovePersona(d, q) ==
    LET board == view[d].board
        orphans == Assigned(board.agents.of, q)
    IN /\ Born(board.personas.of, q)
       /\ Begin(d, "persona", {}, [board EXCEPT !.agents.of = Give(@, orphans, NoPersona),
                                                !.personas.of[q] = Gone],
                IF orphans = {} THEN <<"writePersonas">> ELSE <<"writePair">>)

\* workduck agent evaluate, and evaluate-batch.
EvaluateBatch(c, items) == Begin(c, "batch", items, Empty, <<"commit">>)

---------------------------------------------------------------------------
(* A native command: lock, replay, work, unlock.                           *)

Move(p, to) == at' = [at EXCEPT ![p] = to]
Unlock_Leaks(p) == lock' = IF lock = p /\ at[p] # "commitUnlink" THEN Nobody ELSE lock
Unlock(p) == lock' = IF lock = p THEN Nobody ELSE lock

\* A workflow that ends forgets what it worked on; a dialog stays open after a
\* failure and remembers the evaluation.
Leave(p, to) ==
    /\ Move(p, to)
    /\ op' = [op EXCEPT ![p] = [NoOp EXCEPT !.items = IF to = "failed" THEN op[p].items ELSE {}]]
    /\ saw' = [saw EXCEPT ![p] = {}]

Acquire_NoReplay(p) ==
    /\ at[p] = "asks"
    /\ lock = Nobody
    /\ lock' = p
    /\ Move(p, "inside")
    /\ UNCHANGED <<files, pending, journal, marks, op, todo, mine, saw, view, spent>>
Acquire(p) ==
    /\ at[p] = "asks"
    /\ lock = Nobody
    /\ lock' = p
    /\ Move(p, IF pending THEN "replayAgents" ELSE "inside")
    /\ UNCHANGED <<files, pending, journal, marks, op, todo, mine, saw, view, spent>>

\* The journal's two contents replace the files, and the journal is removed.
PutAgents(p) ==
    /\ at[p] \in {"replayAgents", "commitAgents"}
    /\ files' = [files EXCEPT !.agents = journal.agents]
    /\ Move(p, IF at[p] = "replayAgents" THEN "replayPersonas" ELSE "commitPersonas")
    /\ UNCHANGED <<pending, journal, marks, lock, op, todo, mine, saw, view, spent>>

PutPersonas_Skips(p) ==
    /\ at[p] \in {"replayPersonas", "commitPersonas"}
    /\ Move(p, IF at[p] = "replayPersonas" THEN "replayUnlink" ELSE "commitUnlink")
    /\ UNCHANGED <<files, pending, journal, marks, lock, op, todo, mine, saw, view, spent>>
PutPersonas(p) ==
    /\ at[p] \in {"replayPersonas", "commitPersonas"}
    /\ files' = [files EXCEPT !.personas = journal.personas]
    /\ Move(p, IF at[p] = "replayPersonas" THEN "replayUnlink" ELSE "commitUnlink")
    /\ UNCHANGED <<pending, journal, marks, lock, op, todo, mine, saw, view, spent>>

Unlink == pending' = FALSE /\ journal' = Empty
Replayed(p) ==
    /\ at[p] = "replayUnlink"
    /\ Unlink
    /\ Move(p, "inside")
    /\ UNCHANGED <<files, marks, lock, op, todo, mine, saw, view, spent>>

\* The command answers, and its workflow goes on with the commands left.
Answer(p, left, pair) ==
    /\ Unlock(p)
    /\ todo' = [todo EXCEPT ![p] = left]
    /\ IF left = <<>> THEN Leave(p, "idle") ELSE Move(p, "asks") /\ UNCHANGED <<op, saw>>
    /\ mine' = [mine EXCEPT ![p] = IF left = <<>> THEN Empty ELSE pair]
Continue(p) == Answer(p, Tail(todo[p]), mine[p])

\* The command or the workflow fails.  What a panel could not save it shows
\* all the same; a registry that could not be loaded is shown as empty.
Failed(p) ==
    LET command == Head(todo[p])
        shown == CASE command = "loadAgents" -> [view[p] EXCEPT !.agents = Empty.agents,
                                                                !.board.agents = Empty.agents]
                   [] command = "loadPersonas" -> [view[p] EXCEPT !.board.personas = Empty.personas,
                                                                  !.unsaved = FALSE]
                   [] command = "writePersonas" -> [view[p] EXCEPT !.board.personas = mine[p].personas]
                   [] command = "writePair" /\ op[p].kind = "persona" -> [view[p] EXCEPT !.board = mine[p], !.unsaved = TRUE]
                   [] command = "writePair" /\ op[p].kind = "agent" -> [view[p] EXCEPT !.agents = mine[p].agents]
                   [] OTHER -> view[p]
    IN /\ Unlock(p)
       /\ view' = IF p \in Desktops THEN [view EXCEPT ![p] = shown] ELSE view
       /\ IF command = "loadAgents"
          THEN todo' = [todo EXCEPT ![p] = Tail(@)] /\ Move(p, "asks") /\ UNCHANGED <<op, mine, saw>>
          ELSE /\ Leave(p, IF op[p].kind = "evaluate" THEN "failed" ELSE "idle")
               /\ todo' = [todo EXCEPT ![p] = <<>>]
               /\ mine' = [mine EXCEPT ![p] = Empty]

Inside(p, command) == at[p] = "inside" /\ Head(todo[p]) = command

---------------------------------------------------------------------------
(* The work of each command.                                               *)

LoadAgents(d) ==
    /\ Inside(d, "loadAgents")
    /\ view' = [view EXCEPT ![d].agents = files.agents, ![d].board.agents = files.agents]
    /\ Continue(d)
    /\ UNCHANGED <<files, pending, journal, marks, spent>>

LoadPersonas(d) ==
    /\ Inside(d, "loadPersonas")
    /\ view' = [view EXCEPT ![d].board.personas = files.personas, ![d].unsaved = FALSE]
    /\ Continue(d)
    /\ UNCHANGED <<files, pending, journal, marks, spent>>

\* recordAgentEvaluationOnce, on the agents just read: the pair is to be written
\* when the key was new.
ReadAgents(d) ==
    LET of == RecordAll(files.agents.of, op[d].items) IN
    /\ Inside(d, "readAgents")
    /\ IF \A i \in op[d].items : Born(of, i[1])
       THEN /\ Answer(d, IF of # files.agents.of THEN Tail(todo[d]) ELSE <<"readPersonas", "mark">>,
                      [mine[d] EXCEPT !.agents = [files.agents EXCEPT !.of = of]])
            /\ UNCHANGED view
       ELSE Failed(d)
    /\ UNCHANGED <<files, pending, journal, marks, spent>>

\* The summaries follow the agents of the workflow; a change of them alone is
\* written too.  An evaluation that the report already holds is not marked.
ReadPersonas(d) ==
    LET synced == Sync(files.personas, mine[d].agents.of)
        write == todo[d][2] = "writePair" \/ synced # files.personas
        mark == op[d].kind = "evaluate" /\ ~(op[d].items \subseteq saw[d])
    IN /\ Inside(d, "readPersonas")
       /\ Answer(d, (IF write THEN <<"writePair">> ELSE <<>>) \o (IF mark THEN <<"mark">> ELSE <<>>),
                 [mine[d] EXCEPT !.personas = synced])
       /\ UNCHANGED <<files, pending, journal, marks, view, spent>>

\* write_workspace_registry_file: one registry, if its revision is still the
\* one the panel started from.
Current(file, copy) == file.rev = copy.rev

WritePersonas(d) ==
    LET next == Bumped(mine[d].personas) IN
    /\ Inside(d, "writePersonas")
    /\ IF Current(files.personas, mine[d].personas)
       THEN /\ files' = [files EXCEPT !.personas = next]
            /\ view' = [view EXCEPT ![d].board.personas = next]
            /\ Continue(d)
       ELSE Failed(d) /\ UNCHANGED files
    /\ UNCHANGED <<pending, journal, marks, spent>>

\* The journal with both new contents is written first.
Publish(pair) == pending' = TRUE /\ journal' = pair

\* write_workspace_registry_pair: both revisions are checked before the journal
\* is published; the files and the end of the journal follow (PutAgents ...).
WritePair_Rebases(d) ==
    /\ Inside(d, "writePair")
    /\ Publish([agents   |-> [mine[d].agents EXCEPT !.rev = files.agents.rev + 1],
                personas |-> [mine[d].personas EXCEPT !.rev = files.personas.rev + 1]])
    /\ Move(d, "commitAgents")
    /\ UNCHANGED <<files, marks, lock, todo, op, mine, saw, view, spent>>
WritePair(d) ==
    /\ Inside(d, "writePair")
    /\ IF Current(files.agents, mine[d].agents) /\ Current(files.personas, mine[d].personas)
       THEN /\ Publish([agents |-> Bumped(mine[d].agents), personas |-> Bumped(mine[d].personas)])
            /\ Move(d, "commitAgents")
            /\ UNCHANGED <<lock, todo, op, mine, saw, view>>
       ELSE Failed(d) /\ UNCHANGED <<pending, journal>>
    /\ UNCHANGED <<files, marks, spent>>

\* The pair is complete; a window shows what was persisted.
PairWritten(p) ==
    /\ at[p] = "commitUnlink"
    /\ view' = IF p \in Desktops
                THEN [view EXCEPT ![p] = [agents |-> journal.agents, board |-> journal, unsaved |-> FALSE]]
                ELSE view
    /\ Unlink
    /\ Continue(p)
    /\ UNCHANGED <<files, marks, spent>>

\* update_queue_result_report_file: only over the report that was read.
Mark(d) ==
    /\ Inside(d, "mark")
    /\ IF marks = saw[d]
       THEN /\ marks' = marks \cup op[d].items
            /\ Continue(d)
            /\ UNCHANGED view
       ELSE Failed(d) /\ UNCHANGED marks
    /\ UNCHANGED <<files, pending, journal, spent>>

\* EvaluationRegistryTransaction: read, record all, sync and write under the
\* one lock; agents alone when no summary changes.
Commit(c) ==
    LET of == RecordAll(files.agents.of, op[c].items)
        applied == of # files.agents.of
        agents == IF applied THEN Bumped([files.agents EXCEPT !.of = of]) ELSE files.agents
        synced == Sync(files.personas, of)
    IN /\ Inside(c, "commit")
       /\ \/ \E i \in op[c].items : ~Born(of, i[1]) /\ Failed(c) /\ UNCHANGED <<files, pending, journal>>
          \/ /\ \A i \in op[c].items : Born(of, i[1])
             /\ synced = files.personas
             /\ files' = [files EXCEPT !.agents = agents]
             /\ Continue(c)
             /\ UNCHANGED <<pending, journal, view>>
          \/ /\ \A i \in op[c].items : Born(of, i[1])
             /\ synced # files.personas
             /\ Publish([agents |-> agents, personas |-> Bumped(synced)])
             /\ Move(c, "commitAgents")
             /\ UNCHANGED <<files, lock, todo, op, mine, saw, view>>
       /\ UNCHANGED <<marks, spent>>

---------------------------------------------------------------------------
(* What may go wrong at any step.                                          *)

\* The lock cannot be opened, or a read, write or removal fails; whatever was
\* written before stays.
Fault(p) ==
    /\ at[p] \notin {"idle", "failed"}
    /\ spent.faults < MaxFaults
    /\ spent' = [spent EXCEPT !.faults = @ + 1]
    /\ Failed(p)
    /\ UNCHANGED <<files, pending, journal, marks>>

\* The process dies: the system frees its lock, its memory is gone.
Crash(p) ==
    /\ at[p] # "idle"
    /\ spent.crashes < MaxCrashes
    /\ spent' = [spent EXCEPT !.crashes = @ + 1]
    /\ Unlock(p)
    /\ Move(p, "idle")
    /\ op' = [op EXCEPT ![p] = NoOp]
    /\ todo' = [todo EXCEPT ![p] = <<>>]
    /\ mine' = [mine EXCEPT ![p] = Empty]
    /\ saw' = [saw EXCEPT ![p] = {}]
    /\ view' = [d \in Desktops |-> IF d = p THEN Blank ELSE view[d]]
    /\ UNCHANGED <<files, pending, journal, marks>>

---------------------------------------------------------------------------
Start(p) ==
    \/ /\ p \in Desktops
       /\ \/ Load(p)
          \/ Retry(p)
          \/ \E a \in Agents : SaveAgent(p, a) \/ RemoveAgent(p, a) \/ ResetAgent(p, a)
          \/ \E a \in Agents, k \in Keys : Evaluate(p, a, k)
          \/ \E q \in Personas : SavePersona(p, q) \/ RemovePersona(p, q)
    \/ p \in Clis /\ \E items \in SUBSET (Agents \X Keys) : items # {} /\ EvaluateBatch(p, items)

Run(p) ==
    \/ Acquire(p)
    \/ PutAgents(p) \/ PutPersonas(p) \/ Replayed(p) \/ PairWritten(p)
    \/ LoadAgents(p) \/ LoadPersonas(p)
    \/ ReadAgents(p) \/ ReadPersonas(p)
    \/ WritePersonas(p) \/ WritePair(p) \/ Mark(p)
    \/ Commit(p)

Next == \E p \in Processes : Start(p) \/ Run(p) \/ Fault(p) \/ Crash(p)

Spec == Init /\ [][Next]_vars

\* Every program goes on with the call it is in; nobody is sure to start one.
FairSpec == Spec /\ \A p \in Processes : SF_vars(Acquire(p)) /\ WF_vars(Run(p))

---------------------------------------------------------------------------
(* Properties.                                                             *)

\* The state is well formed, and only a process that has asked for it and has
\* not been answered holds the registry lock (acquire_workspace_registry_lock).
TypeOK ==
    /\ files \in Pair /\ pending \in BOOLEAN /\ journal \in Pair
    /\ marks \subseteq Agents \X Keys
    /\ lock \in Processes \cup {Nobody}
    /\ at \in [Processes -> {"idle", "failed", "asks", "inside", "replayAgents", "replayPersonas",
                             "replayUnlink", "commitAgents", "commitPersonas", "commitUnlink"}]
    /\ \A p \in Processes : (at[p] \in {"idle", "failed", "asks"}) = (lock # p)
    /\ mine \in [Processes -> Pair] /\ view \in [Desktops -> View]
    /\ \A p \in Processes : at[p] \in {"idle", "failed"} \/ todo[p] # <<>>

\* Whatever crashes, fails or is replayed, what the registries stand for changes
\* by one revision at a time: a revision names one content, a replay never brings
\* back what a later write replaced, and no update is applied twice
\* (write_workspace_registry_pair, recover_workspace_registry_transaction_under_lock).
OneRevisionAtATime(old, new) == new = old \/ new.rev = old.rev + 1
RegistriesAdvance ==
    [][/\ OneRevisionAtATime(Committed.agents, Committed'.agents)
       /\ OneRevisionAtATime(Committed.personas, Committed'.personas)
       /\ OneRevisionAtATime(files.agents, files'.agents)
       /\ OneRevisionAtATime(files.personas, files'.personas)]_vars

\* No writer, however old the registries it works on, loses an evaluation that
\* somebody else recorded: evaluations disappear only with their agent or by a
\* reset of it (the revision checks of write_workspace_registry_pair, the lock of
\* EvaluationRegistryTransaction).
EvaluationsStay ==
    [][\A a \in Agents : Born(Committed.agents.of, a) =>
          LET old == Committed.agents.of[a]
              new == Committed'.agents.of[a]
          IN \/ new = Gone
             \/ new # Unborn /\ (old.keys \subseteq new.keys \/ new.resets > old.resets)]_vars

\* An evaluation key counts once, however often it is retried from the window or the
\* command line (recordAgentEvaluationOnce and its Rust counterpart), and the report never
\* claims one that was not counted: its mark follows the commit of the scores
\* (saveQueuePanelEvaluation).
CountedOnce ==
    /\ \A a \in Agents : Born(Committed.agents.of, a) =>
          Committed.agents.of[a].count = Cardinality(Committed.agents.of[a].keys)
    /\ \A m \in marks :
          LET agent == Committed.agents.of[m[1]] IN
          \/ agent = Gone
          \/ agent # Unborn /\ (m[2] \in agent.keys \/ agent.resets > 0)

\* The evaluation summary of a persona is the sum over the agents that have it,
\* although agents and personas live in two files and windows edit both from
\* copies (syncPersonaEvaluationSummariesFromAgents and its Rust counterpart).
\* The one accident: a window whose personas panel still shows a pair that could
\* not be saved saves its personas alone, with the summaries of that pair.
Agree(pair) ==
    \A q \in Personas : Born(pair.personas.of, q) =>
        pair.personas.of[q] = Summary(pair.agents.of, q)
SavesUnsaved(d) == view[d].unsaved /\ Inside(d, "writePersonas")
SummariesAgree ==
    [][Agree(Committed) => Agree(Committed') \/ \E d \in Desktops : SavesUnsaved(d)]_vars

\* No call hangs: the registry lock is always given back, and every workflow that
\* was started comes to an end (the lock is the only thing anybody waits for).
WorkflowsEnd ==
    \A p \in Processes : at[p] \notin {"idle", "failed"} ~> at[p] \in {"idle", "failed"}
=============================================================================
