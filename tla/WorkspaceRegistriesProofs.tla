----------------------- MODULE WorkspaceRegistriesProofs -----------------------
(* Proofs about WorkspaceRegistries, for any number of windows, command lines, *)
(* agents, personas and keys and any number of workflows, faults and crashes:  *)
(* first the lock, the journal and the revisions of the two files, then what   *)
(* they record: evaluations, marks in reports and summaries of personas.       *)
EXTENDS WorkspaceRegistries, FiniteSetTheorems, WellFoundedInduction, TLAPS

\* A registry file has a revision and a content, a pair two registry files.
IsFile(f) == f = [rev |-> f.rev, of |-> f.of]
IsPair(x) == x = [agents |-> x.agents, personas |-> x.personas] /\ IsFile(x.agents) /\ IsFile(x.personas)
IsView(x) ==
    /\ x = [agents |-> x.agents, board |-> x.board, unsaved |-> x.unsaved]
    /\ IsFile(x.agents) /\ IsPair(x.board)

MineShape == mine = [p \in Processes |-> mine[p]] /\ \A p \in Processes : IsPair(mine[p])
ViewShape == view = [d \in Desktops |-> view[d]] /\ \A d \in Desktops : IsView(view[d])
AtShape == at = [p \in Processes |-> at[p]]
Shapes == IsPair(files) /\ IsPair(journal) /\ MineShape /\ ViewShape /\ AtShape

Holding == {"inside", "replayAgents", "replayPersonas", "replayUnlink",
            "commitAgents", "commitPersonas", "commitUnlink"}

\* Only the process that is inside a command holds the lock.
LockIsHeld == \A p \in Processes : (at[p] \in Holding) = (lock = p)

\* How far the journal of a process that writes it out has come.
Progress(p) ==
    /\ at[p] = "inside" => ~pending
    /\ at[p] \in Holding \ {"inside"} => pending
    /\ at[p] \in {"replayPersonas", "commitPersonas"} => files.agents = journal.agents
    /\ at[p] \in {"replayUnlink", "commitUnlink"} => files = journal
Progresses == \A p \in Processes : Progress(p)

\* A journal is at most one revision ahead of each file.
JournalIsNext ==
    pending => /\ OneRevisionAtATime(files.agents, journal.agents)
               /\ OneRevisionAtATime(files.personas, journal.personas)

IInv == Shapes /\ LockIsHeld /\ Progresses /\ JournalIsNext

-----------------------------------------------------------------------------
(* Shapes *)

LEMMA FileUpdates ==
    ASSUME NEW f, IsFile(f), NEW c
    PROVE  /\ IsFile([f EXCEPT !.of = c]) /\ [f EXCEPT !.of = c].rev = f.rev
           /\ IsFile([f EXCEPT !.rev = c]) /\ [f EXCEPT !.rev = c].rev = c
  BY DEF IsFile

LEMMA BumpedIsNext ==
    ASSUME NEW f, IsFile(f)
    PROVE  IsFile(Bumped(f)) /\ Bumped(f).rev = f.rev + 1
  BY DEF IsFile, Bumped

LEMMA SyncKeepsRevision ==
    ASSUME NEW f, IsFile(f), NEW of
    PROVE  IsFile(Sync(f, of)) /\ Sync(f, of).rev = f.rev
  BY FileUpdates DEF Sync

LEMMA EmptyShape == IsPair(Empty) /\ IsView(Blank)
  BY DEF IsPair, IsFile, IsView, Empty, Blank

LEMMA PairUpdates ==
    ASSUME NEW x, IsPair(x), NEW f, IsFile(f)
    PROVE  /\ IsPair([x EXCEPT !.agents = f]) /\ [x EXCEPT !.agents = f].agents = f
           /\ [x EXCEPT !.agents = f].personas = x.personas
           /\ IsPair([x EXCEPT !.personas = f]) /\ [x EXCEPT !.personas = f].personas = f
           /\ [x EXCEPT !.personas = f].agents = x.agents
  BY DEF IsPair, IsFile

\* What the updates of a view come to.
LEMMA EmptiedView ==
    ASSUME NEW v, IsView(v), NEW f
    PROVE  [v EXCEPT !.agents = f, !.board.agents = f]
              = [agents |-> f, board |-> [v.board EXCEPT !.agents = f], unsaved |-> v.unsaved]
<1> DEFINE b == v.board
           n == v.unsaved
           w == [agents |-> f, board |-> b, unsaved |-> n]
<1>1. v = [agents |-> v.agents, board |-> b, unsaved |-> n] BY DEF IsView
<1> HIDE DEF b, n
<1>2. [v EXCEPT !.agents = f] = w BY <1>1
<1>3. [v EXCEPT !.agents = f, !.board.agents = f] = [[v EXCEPT !.agents = f] EXCEPT !.board.agents = f]
  BY <1>1
<1>4. [w EXCEPT !.board.agents = f] = [agents |-> f, board |-> [b EXCEPT !.agents = f], unsaved |-> n] OBVIOUS
<1> QED BY <1>2, <1>3, <1>4 DEF b, n

LEMMA PersonasView ==
    ASSUME NEW v, IsView(v), NEW f
    PROVE  [v EXCEPT !.board.personas = f]
              = [agents |-> v.agents, board |-> [v.board EXCEPT !.personas = f], unsaved |-> v.unsaved]
  BY DEF IsView

LEMMA ReloadedView ==
    ASSUME NEW v, IsView(v), NEW f, NEW u
    PROVE  [v EXCEPT !.board.personas = f, !.unsaved = u]
              = [agents |-> v.agents, board |-> [v.board EXCEPT !.personas = f], unsaved |-> u]
<1> DEFINE g == v.agents
           b == [v.board EXCEPT !.personas = f]
           w == [v EXCEPT !.board.personas = f]
<1>1. w = [agents |-> g, board |-> b, unsaved |-> v.unsaved] BY PersonasView
<1>2. [v EXCEPT !.board.personas = f, !.unsaved = u] = [w EXCEPT !.unsaved = u] BY DEF IsView
<1> HIDE DEF g, b, w
<1>3. [w EXCEPT !.unsaved = u] = [agents |-> g, board |-> b, unsaved |-> u] BY <1>1
<1> QED BY <1>2, <1>3 DEF g, b

LEMMA BoardView ==
    ASSUME NEW v, IsView(v), NEW x, NEW u
    PROVE  [v EXCEPT !.board = x, !.unsaved = u] = [agents |-> v.agents, board |-> x, unsaved |-> u]
<1> DEFINE g == v.agents
           w == [v EXCEPT !.board = x]
<1>1. w = [agents |-> g, board |-> x, unsaved |-> v.unsaved] BY DEF IsView
<1>2. [v EXCEPT !.board = x, !.unsaved = u] = [w EXCEPT !.unsaved = u] BY DEF IsView
<1> HIDE DEF g, w
<1>3. [w EXCEPT !.unsaved = u] = [agents |-> g, board |-> x, unsaved |-> u] BY <1>1
<1> QED BY <1>2, <1>3 DEF g

LEMMA AgentsView ==
    ASSUME NEW v, IsView(v), NEW f
    PROVE  [v EXCEPT !.agents = f] = [agents |-> f, board |-> v.board, unsaved |-> v.unsaved]
  BY DEF IsView

LEMMA ViewUpdates ==
    ASSUME NEW v, IsView(v), NEW f, IsFile(f), NEW x, IsPair(x), NEW u
    PROVE  /\ IsView([v EXCEPT !.agents = f, !.board.agents = f])
           /\ IsView([v EXCEPT !.board.personas = f])
           /\ IsView([v EXCEPT !.board.personas = f, !.unsaved = u])
           /\ IsView([v EXCEPT !.board = x, !.unsaved = u])
           /\ IsView([v EXCEPT !.agents = f])
           /\ IsView([agents |-> f, board |-> x, unsaved |-> u])
<1>1. IsFile(v.agents) /\ IsPair(v.board) BY DEF IsView
<1>2. IsPair([v.board EXCEPT !.agents = f]) /\ IsPair([v.board EXCEPT !.personas = f])
  BY <1>1, PairUpdates
<1>3. ASSUME NEW h, IsFile(h), NEW y, IsPair(y), NEW n
      PROVE  IsView([agents |-> h, board |-> y, unsaved |-> n])
  BY <1>3 DEF IsView
<1>4. IsView([v EXCEPT !.agents = f, !.board.agents = f])
  <2>1. [v EXCEPT !.agents = f, !.board.agents = f]
           = [agents |-> f, board |-> [v.board EXCEPT !.agents = f], unsaved |-> v.unsaved]
    BY EmptiedView
  <2> QED BY <1>1, <1>2, <1>3, <2>1
<1>5. IsView([v EXCEPT !.board.personas = f])
  <2>1. [v EXCEPT !.board.personas = f]
           = [agents |-> v.agents, board |-> [v.board EXCEPT !.personas = f], unsaved |-> v.unsaved]
    BY PersonasView
  <2> QED BY <1>1, <1>2, <1>3, <2>1
<1>6. IsView([v EXCEPT !.board.personas = f, !.unsaved = u])
  <2>1. [v EXCEPT !.board.personas = f, !.unsaved = u]
           = [agents |-> v.agents, board |-> [v.board EXCEPT !.personas = f], unsaved |-> u]
    BY ReloadedView
  <2> QED BY <1>1, <1>2, <1>3, <2>1
<1>7. IsView([v EXCEPT !.board = x, !.unsaved = u])
  <2>1. [v EXCEPT !.board = x, !.unsaved = u]
           = [agents |-> v.agents, board |-> x, unsaved |-> u]
    BY BoardView
  <2> QED BY <1>1, <1>2, <1>3, <2>1
<1>8. IsView([v EXCEPT !.agents = f])
  <2>1. [v EXCEPT !.agents = f]
           = [agents |-> f, board |-> v.board, unsaved |-> v.unsaved]
    BY AgentsView
  <2> QED BY <1>1, <1>2, <1>3, <2>1
<1> QED BY <1>3, <1>4, <1>5, <1>6, <1>7, <1>8

-----------------------------------------------------------------------------
(* Where a process is, and the lock *)

Advance == /\ OneRevisionAtATime(Committed.agents, Committed'.agents)
           /\ OneRevisionAtATime(Committed.personas, Committed'.personas)
           /\ OneRevisionAtATime(files.agents, files'.agents)
           /\ OneRevisionAtATime(files.personas, files'.personas)

\* Who gives an answer leaves nobody inside a command.
LEMMA LeaveCommand ==
    ASSUME AtShape, LockIsHeld, NEW p \in Processes, at[p] \in Holding, Unlock(p),
           NEW x, x \notin Holding, at' = [at EXCEPT ![p] = x]
    PROVE  AtShape' /\ LockIsHeld' /\ Progresses'
<1>1. AtShape' BY DEF AtShape
<1>2. Nobody \notin Processes BY ProcessAssumption
<1>3. lock = p /\ lock' = Nobody BY DEF LockIsHeld, Unlock
<1>4. \A q \in Processes : at'[q] \notin Holding BY <1>3 DEF AtShape, LockIsHeld
<1>5. LockIsHeld' BY <1>2, <1>3, <1>4 DEF LockIsHeld, Holding
<1>6. Progresses' BY <1>4 DEF Progresses, Progress, Holding
<1> QED BY <1>1, <1>5, <1>6

\* Who is not inside a command may go to another place outside.
LEMMA StayOutside ==
    ASSUME AtShape, LockIsHeld, Progresses, NEW p \in Processes, at[p] \notin Holding,
           lock' = lock, UNCHANGED <<files, pending, journal>>,
           NEW x, x \notin Holding, at' = [at EXCEPT ![p] = x]
    PROVE  AtShape' /\ LockIsHeld' /\ Progresses'
<1>1. AtShape' BY DEF AtShape
<1>2. \A q \in Processes : at'[q] = IF q = p THEN x ELSE at[q] BY DEF AtShape
<1>3. LockIsHeld' BY <1>2 DEF LockIsHeld, Holding
<1>4. ASSUME NEW q \in Processes PROVE Progress(q)'
  <2>1. CASE q = p BY <1>2, <2>1 DEF Progress, Holding
  <2>2. CASE q # p BY <1>2, <2>2 DEF Progresses, Progress, Holding
  <2> QED BY <2>1, <2>2
<1> QED BY <1>1, <1>3, <1>4 DEF Progresses

\* Who is inside a command goes on while everybody else is outside.
LEMMA StepInside ==
    ASSUME AtShape, LockIsHeld, NEW p \in Processes, at[p] \in Holding, lock' = lock,
           NEW x, x \in Holding, at' = [at EXCEPT ![p] = x], Progress(p)'
    PROVE  AtShape' /\ LockIsHeld' /\ Progresses'
<1>1. AtShape' BY DEF AtShape
<1>2. \A q \in Processes : at'[q] = IF q = p THEN x ELSE at[q] BY DEF AtShape
<1>3. lock = p BY DEF LockIsHeld
<1>4. LockIsHeld' BY <1>2, <1>3 DEF LockIsHeld, Holding
<1>5. ASSUME NEW q \in Processes, q # p PROVE Progress(q)'
  <2>1. at'[q] \notin Holding BY <1>2, <1>3, <1>5 DEF LockIsHeld
  <2> QED BY <2>1 DEF Progress, Holding
<1> QED BY <1>1, <1>4, <1>5 DEF Progresses

\* Steps that touch neither the files nor the journal.
LEMMA NothingWritten ==
    ASSUME JournalIsNext, UNCHANGED <<files, pending, journal>>
    PROVE  JournalIsNext' /\ Advance
  BY DEF JournalIsNext, Advance, OneRevisionAtATime, Committed

-----------------------------------------------------------------------------
(* Beginning, answering and failing *)

LEMMA BeginStep ==
    ASSUME IInv, NEW p \in Processes, NEW kind, NEW items, NEW pair, IsPair(pair), NEW commands,
           Begin(p, kind, items, pair, commands)
    PROVE  IInv' /\ Advance
<1>1. /\ at[p] \notin Holding /\ at' = [at EXCEPT ![p] = "asks"]
      /\ mine' = [mine EXCEPT ![p] = pair]
      /\ UNCHANGED <<files, pending, journal, lock, view>>
  BY DEF Begin, Holding
<1>2. "asks" \notin Holding BY DEF Holding
<1>3. AtShape' /\ LockIsHeld' /\ Progresses' BY <1>1, <1>2, StayOutside DEF IInv, Shapes
<1>4. MineShape' BY <1>1 DEF IInv, Shapes, MineShape
<1>5. ViewShape' BY <1>1 DEF IInv, Shapes, ViewShape
<1>6. JournalIsNext' /\ Advance BY <1>1, NothingWritten DEF IInv
<1> QED BY <1>1, <1>3, <1>4, <1>5, <1>6 DEF IInv, Shapes

LEMMA AnswerStep ==
    ASSUME MineShape, AtShape, LockIsHeld, NEW p \in Processes, at[p] \in Holding,
           NEW left, NEW pair, IsPair(pair), Answer(p, left, pair)
    PROVE  MineShape' /\ AtShape' /\ LockIsHeld' /\ Progresses'
<1> DEFINE to == IF left = <<>> THEN "idle" ELSE "asks"
           x == IF left = <<>> THEN Empty ELSE pair
<1>1. Unlock(p) /\ at' = [at EXCEPT ![p] = to] /\ mine' = [mine EXCEPT ![p] = x]
  BY DEF Answer, Leave, Move
<1>2. to \notin Holding BY DEF Holding
<1>3. IsPair(x) BY EmptyShape
<1> HIDE DEF to, x
<1>4. MineShape' BY <1>1, <1>3 DEF MineShape
<1> QED BY <1>1, <1>2, <1>4, LeaveCommand

LEMMA FailedStep ==
    ASSUME MineShape, ViewShape, AtShape, LockIsHeld, Progresses, NEW p \in Processes, Failed(p),
           UNCHANGED <<files, pending, journal>>
    PROVE  MineShape' /\ ViewShape' /\ AtShape' /\ LockIsHeld' /\ Progresses'
<1>1. PICK x \in {"asks", "failed", "idle"} : at' = [at EXCEPT ![p] = x] BY DEF Failed, Leave, Move
<1>2. x \notin Holding /\ Unlock(p) BY DEF Holding, Failed
<1>3. AtShape' /\ LockIsHeld' /\ Progresses'
  <2>1. CASE at[p] \in Holding BY <1>1, <1>2, <2>1, LeaveCommand
  <2>2. CASE at[p] \notin Holding
    <3>1. lock' = lock BY <1>2, <2>2 DEF Unlock, LockIsHeld
    <3> QED BY <1>1, <1>2, <2>2, <3>1, StayOutside
  <2> QED BY <2>1, <2>2
<1>4. MineShape'
  <2>1. mine' = mine \/ mine' = [mine EXCEPT ![p] = Empty] BY DEF Failed
  <2> QED BY <2>1, EmptyShape DEF MineShape
<1>5. ViewShape'
  <2>1. CASE p \notin Desktops BY <2>1 DEF Failed, ViewShape
  <2>2. CASE p \in Desktops
    <3> DEFINE loose == [view[p] EXCEPT !.agents = Empty.agents, !.board.agents = Empty.agents]
               blind == [view[p] EXCEPT !.board.personas = Empty.personas, !.unsaved = FALSE]
               alone == [view[p] EXCEPT !.board.personas = mine[p].personas]
               both  == [view[p] EXCEPT !.board = mine[p], !.unsaved = TRUE]
               some  == [view[p] EXCEPT !.agents = mine[p].agents]
    <3>1. \E v \in {loose, blind, alone, both, some, view[p]} : view' = [view EXCEPT ![p] = v]
      BY <2>2 DEF Failed
    <3>2. IsView(view[p]) /\ IsPair(mine[p]) /\ IsPair(Empty)
      BY <2>2, EmptyShape DEF ViewShape, MineShape
    <3>3. IsFile(mine[p].agents) /\ IsFile(mine[p].personas) /\ IsFile(Empty.agents) /\ IsFile(Empty.personas)
      BY <3>2 DEF IsPair
    <3>4. IsView(loose) /\ IsView(blind) BY <3>2, <3>3, ViewUpdates
    <3>5. IsView(alone) /\ IsView(both) /\ IsView(some) BY <3>2, <3>3, ViewUpdates
    <3> HIDE DEF loose, blind, alone, both, some
    <3>6. PICK v : IsView(v) /\ view' = [view EXCEPT ![p] = v] BY <3>1, <3>2, <3>4, <3>5
    <3> QED BY <2>2, <3>6 DEF ViewShape
  <2> QED BY <2>1, <2>2
<1> QED BY <1>3, <1>4, <1>5

-----------------------------------------------------------------------------
(* The steps of Next *)

LEMMA StartStep ==
    ASSUME IInv, NEW p \in Processes, Start(p)
    PROVE  IInv' /\ Advance
<1> USE DEF Shapes
<1>0. IsPair(Empty) BY EmptyShape
<1>1. CASE p \notin Desktops
  <2>1. PICK items : EvaluateBatch(p, items) BY <1>1 DEF Start
  <2> QED BY <2>1, <1>0, BeginStep DEF EvaluateBatch
<1>2. CASE p \in Desktops
  <2>0. p \notin Clis BY <1>2, ProcessAssumption
  <2> DEFINE board == view[p].board
             shown == view[p].agents
  <2>1. IsView(view[p]) BY <1>2 DEF IInv, ViewShape
  <2>2. IsPair(board) /\ IsFile(shown) /\ IsFile(board.agents) /\ IsFile(board.personas)
    BY <2>1 DEF IsView, IsPair
  <2>3. CASE Load(p) BY <2>3, <1>0, BeginStep DEF Load
  <2>4. CASE Retry(p) BY <2>4, <1>0, BeginStep DEF Retry
  <2>5. ASSUME NEW a \in Agents, SaveAgent(p, a) \/ RemoveAgent(p, a) \/ ResetAgent(p, a)
        PROVE  IInv' /\ Advance
    <3>1. PICK record : EditAgent(p, a, record) BY <2>5 DEF SaveAgent, RemoveAgent, ResetAgent
    <3>2. [shown EXCEPT !.of[a] = record] = [shown EXCEPT !.of = [@ EXCEPT ![a] = record]]
      BY <2>2 DEF IsFile
    <3>3. IsFile([shown EXCEPT !.of[a] = record]) BY <2>2, <3>2, FileUpdates
    <3>4. IsPair([Empty EXCEPT !.agents = [shown EXCEPT !.of[a] = record]]) BY <1>0, <3>3, PairUpdates
    <3> QED BY <3>1, <3>4, BeginStep DEF EditAgent
  <2>6. ASSUME NEW a \in Agents, NEW k \in Keys, Evaluate(p, a, k) PROVE IInv' /\ Advance
    BY <2>6, <1>0, BeginStep DEF Evaluate
  <2>7. ASSUME NEW q \in Personas, SavePersona(p, q) PROVE IInv' /\ Advance
    <3> DEFINE saved == [board.personas EXCEPT !.of[q] = IF @ = Unborn THEN 0 ELSE @]
    <3>1. IsFile(saved) BY <2>2 DEF IsFile
    <3> DEFINE alone == [board EXCEPT !.personas = saved]
               given(S) == [agents   |-> [board.agents EXCEPT !.of = Give(board.agents.of, S, q)],
                            personas |-> Sync(saved, Give(board.agents.of, S, q))]
    <3>2. \/ Begin(p, "persona", {}, alone, <<"writePersonas">>)
          \/ \E S : Begin(p, "persona", {}, given(S), <<"writePair">>)
      BY <2>7 DEF SavePersona
    <3>3. IsPair(alone) BY <2>2, <3>1, PairUpdates
    <3>4. ASSUME NEW S PROVE IsPair(given(S))
      <4>1. IsFile([board.agents EXCEPT !.of = Give(board.agents.of, S, q)]) BY <2>2, FileUpdates
      <4>2. IsFile(Sync(saved, Give(board.agents.of, S, q))) BY <3>1, SyncKeepsRevision
      <4> QED BY <4>1, <4>2 DEF IsPair
    <3> HIDE DEF alone, given
    <3> QED BY <3>2, <3>3, <3>4, BeginStep
  <2>8. ASSUME NEW q \in Personas, RemovePersona(p, q) PROVE IInv' /\ Advance
    <3> DEFINE orphans == Assigned(board.agents.of, q)
               left == [board EXCEPT !.agents.of = Give(@, orphans, NoPersona), !.personas.of[q] = Gone]
    <3>1. \E c : Begin(p, "persona", {}, left, c) BY <2>8 DEF RemovePersona
    <3>2. IsPair(left)
      <4> DEFINE b == board
      <4>1. b = [agents |-> b.agents, personas |-> b.personas] BY <2>2 DEF IsPair
      <4>2. left = [agents |-> [b.agents EXCEPT !.of = Give(@, orphans, NoPersona)],
                    personas |-> [b.personas EXCEPT !.of[q] = Gone]]
        <5> DEFINE f == [b.agents EXCEPT !.of = Give(@, orphans, NoPersona)]
                   g == b.personas
                   w == [agents |-> f, personas |-> g]
        <5>1. [b EXCEPT !.agents.of = Give(@, orphans, NoPersona)] = w BY <4>1
        <5>2. left = [[b EXCEPT !.agents.of = Give(@, orphans, NoPersona)] EXCEPT !.personas.of[q] = Gone]
          BY <4>1
        <5> HIDE DEF f, g, left
        <5>3. [w EXCEPT !.personas.of[q] = Gone] = [agents |-> f, personas |-> [g EXCEPT !.of[q] = Gone]]
          OBVIOUS
        <5> QED BY <5>1, <5>2, <5>3 DEF f, g
      <4>3. IsFile([b.agents EXCEPT !.of = Give(@, orphans, NoPersona)]) BY <2>2, FileUpdates
      <4>4. IsFile([b.personas EXCEPT !.of[q] = Gone]) BY <2>2 DEF IsFile
      <4> QED BY <4>2, <4>3, <4>4 DEF IsPair
    <3> HIDE DEF left
    <3> QED BY <3>1, <3>2, BeginStep
  <2> QED BY <1>2, <2>0, <2>3, <2>4, <2>5, <2>6, <2>7, <2>8 DEF Start
<1> QED BY <1>1, <1>2

LEMMA AcquireStep ==
    ASSUME IInv, NEW p \in Processes, Acquire(p)
    PROVE  IInv' /\ Advance
<1> USE DEF Shapes
<1>1. UNCHANGED <<files, pending, journal, mine, view>> BY DEF Acquire
<1>2. MineShape' /\ ViewShape' BY <1>1 DEF IInv, MineShape, ViewShape
<1>3. AtShape' /\ LockIsHeld'
  <2>1. PICK x \in Holding : at' = [at EXCEPT ![p] = x] BY DEF Acquire, Move, Holding
  <2>2. \A q \in Processes : at'[q] = IF q = p THEN x ELSE at[q] BY <2>1 DEF IInv, AtShape
  <2>3. lock = Nobody /\ lock' = p /\ Nobody \notin Processes BY ProcessAssumption DEF Acquire
  <2>4. \A q \in Processes : at[q] \notin Holding BY <2>3 DEF IInv, LockIsHeld
  <2>5. LockIsHeld' BY <2>2, <2>3, <2>4 DEF LockIsHeld
  <2> QED BY <2>1, <2>5 DEF IInv, AtShape
<1>4. Progresses'
  <2>1. at'[p] = IF pending THEN "replayAgents" ELSE "inside" BY DEF Acquire, Move, IInv, AtShape
  <2>2. Progress(p)' BY <2>1, <1>1 DEF Progress
  <2>3. ASSUME NEW q \in Processes, q # p PROVE Progress(q)'
    <3>1. at'[q] \notin Holding BY <1>3, <2>3 DEF LockIsHeld, Acquire
    <3> QED BY <3>1 DEF Progress, Holding
  <2> QED BY <2>2, <2>3 DEF Progresses
<1>5. JournalIsNext' /\ Advance BY <1>1, NothingWritten DEF IInv
<1> QED BY <1>1, <1>2, <1>3, <1>4, <1>5 DEF IInv

\* The journal's contents are put in the place of the files.
LEMMA PutStep ==
    ASSUME IInv, NEW p \in Processes, PutAgents(p) \/ PutPersonas(p)
    PROVE  IInv' /\ Advance
<1> USE DEF Shapes
<1>1. UNCHANGED <<pending, journal, mine, view, lock>> BY DEF PutAgents, PutPersonas
<1>2. MineShape' /\ ViewShape' BY <1>1 DEF IInv, MineShape, ViewShape
<1>3. at[p] \in Holding \ {"inside"} /\ pending BY DEF PutAgents, PutPersonas, Holding, IInv, Progresses, Progress
<1>4. /\ OneRevisionAtATime(files.agents, journal.agents)
      /\ OneRevisionAtATime(files.personas, journal.personas)
      /\ IsPair(files) /\ IsPair(journal)
  BY <1>3 DEF IInv, JournalIsNext
<1>5. IsFile(journal.agents) /\ IsFile(journal.personas) BY <1>4 DEF IsPair
<1>6. CASE PutAgents(p)
  <2>0. files' = [files EXCEPT !.agents = journal.agents] BY <1>6 DEF PutAgents
  <2>1. IsPair(files') /\ files'.agents = journal.agents /\ files'.personas = files.personas
    <3> DEFINE f == journal.agents
    <3>1. IsPair(files) /\ IsFile(f) BY <1>4, <1>5
    <3> HIDE DEF f
    <3>2. /\ IsPair([files EXCEPT !.agents = f]) /\ [files EXCEPT !.agents = f].agents = f
          /\ [files EXCEPT !.agents = f].personas = files.personas
      BY <3>1, PairUpdates, ZenonT(60)
    <3> QED BY <2>0, <3>2 DEF f
  <2>2. PICK x \in {"replayPersonas", "commitPersonas"} : at' = [at EXCEPT ![p] = x]
    BY <1>6 DEF PutAgents, Move
  <2>3. Progress(p)' BY <1>1, <1>3, <2>1, <2>2 DEF IInv, AtShape, Progress, Holding
  <2>4. x \in Holding BY DEF Holding
  <2>5. AtShape' /\ LockIsHeld' /\ Progresses' BY <1>1, <1>3, <2>2, <2>3, <2>4, StepInside DEF IInv
  <2>6. JournalIsNext' BY <1>1, <1>4, <2>1 DEF JournalIsNext, OneRevisionAtATime
  <2>7. Advance BY <1>1, <1>3, <1>4, <2>1 DEF Advance, Committed, OneRevisionAtATime
  <2> QED BY <1>1, <1>2, <1>4, <2>1, <2>5, <2>6, <2>7 DEF IInv
<1>7. CASE PutPersonas(p)
  <2>0. files' = [files EXCEPT !.personas = journal.personas] BY <1>7 DEF PutPersonas
  <2>1. IsPair(files') /\ files'.personas = journal.personas /\ files'.agents = files.agents
    <3> DEFINE f == journal.personas
    <3>1. IsPair(files) /\ IsFile(f) BY <1>4, <1>5
    <3> HIDE DEF f
    <3>2. /\ IsPair([files EXCEPT !.personas = f]) /\ [files EXCEPT !.personas = f].personas = f
          /\ [files EXCEPT !.personas = f].agents = files.agents
      BY <3>1, PairUpdates
    <3> QED BY <2>0, <3>2 DEF f
  <2>2. PICK x \in {"replayUnlink", "commitUnlink"} : at' = [at EXCEPT ![p] = x]
    BY <1>7 DEF PutPersonas, Move
  <2>3. files.agents = journal.agents BY <1>7 DEF PutPersonas, IInv, Progresses, Progress
  <2>4. files' = journal BY <1>4, <2>1, <2>3 DEF IsPair
  <2>5. Progress(p)' BY <1>1, <1>3, <2>2, <2>4 DEF IInv, AtShape, Progress, Holding
  <2>6. x \in Holding BY DEF Holding
  <2>7. AtShape' /\ LockIsHeld' /\ Progresses' BY <1>1, <1>3, <2>2, <2>5, <2>6, StepInside DEF IInv
  <2>8. JournalIsNext' BY <1>1, <2>4 DEF JournalIsNext, OneRevisionAtATime
  <2>9. Advance BY <1>1, <1>3, <1>4, <2>1 DEF Advance, Committed, OneRevisionAtATime
  <2> QED BY <1>1, <1>2, <1>4, <2>1, <2>7, <2>8, <2>9 DEF IInv
<1> QED BY <1>6, <1>7

\* The journal that was written out is removed.
LEMMA UnlinkStep ==
    ASSUME IInv, NEW p \in Processes, at[p] \in {"replayUnlink", "commitUnlink"}, Unlink,
           UNCHANGED files
    PROVE  JournalIsNext' /\ Advance /\ IsPair(files') /\ IsPair(journal') /\ ~pending'
<1>1. pending /\ files = journal BY DEF IInv, Progresses, Progress, Holding
<1>2. IsPair(files') /\ IsPair(journal') /\ ~pending' BY EmptyShape DEF Unlink, IInv, Shapes
<1>3. JournalIsNext' BY <1>2 DEF JournalIsNext
<1>4. Advance BY <1>1, <1>2 DEF Advance, Committed, OneRevisionAtATime
<1> QED BY <1>2, <1>3, <1>4

LEMMA ReplayedStep ==
    ASSUME IInv, NEW p \in Processes, Replayed(p)
    PROVE  IInv' /\ Advance
<1> USE DEF Shapes
<1>1. at[p] = "replayUnlink" /\ Unlink /\ at' = [at EXCEPT ![p] = "inside"]
      /\ UNCHANGED <<files, mine, view, lock>>
  BY DEF Replayed, Move
<1>2. JournalIsNext' /\ Advance /\ IsPair(files') /\ IsPair(journal') /\ ~pending' BY <1>1, UnlinkStep
<1>3. MineShape' /\ ViewShape' BY <1>1 DEF IInv, MineShape, ViewShape
<1>4. Progress(p)' BY <1>1, <1>2 DEF IInv, AtShape, Progress, Holding
<1>5. at[p] \in Holding /\ "inside" \in Holding BY <1>1 DEF Holding
<1>6. AtShape' /\ LockIsHeld' /\ Progresses' BY <1>1, <1>4, <1>5, StepInside DEF IInv
<1> QED BY <1>2, <1>3, <1>6 DEF IInv

LEMMA PairWrittenStep ==
    ASSUME IInv, NEW p \in Processes, PairWritten(p)
    PROVE  IInv' /\ Advance
<1> USE DEF Shapes
<1>1. at[p] = "commitUnlink" /\ Unlink /\ Continue(p) /\ UNCHANGED files BY DEF PairWritten
<1>2. JournalIsNext' /\ Advance /\ IsPair(files') /\ IsPair(journal') /\ ~pending' BY <1>1, UnlinkStep
<1>3. ViewShape'
  <2>1. IsPair(journal) /\ IsFile(journal.agents) BY DEF IInv, IsPair
  <2>2. IsView([agents |-> journal.agents, board |-> journal, unsaved |-> FALSE]) BY <2>1 DEF IsView
  <2>3. view' = view \/ (p \in Desktops /\ view' = [view EXCEPT ![p] = [agents |-> journal.agents, board |-> journal,
                                                                       unsaved |-> FALSE]])
    BY DEF PairWritten
  <2> QED BY <2>2, <2>3 DEF IInv, ViewShape
<1>4. at[p] \in Holding /\ IsPair(mine[p]) BY <1>1 DEF Holding, IInv, MineShape
<1>5. MineShape' /\ AtShape' /\ LockIsHeld' /\ Progresses'
  BY <1>1, <1>4, AnswerStep DEF IInv, Continue
<1> QED BY <1>2, <1>3, <1>5 DEF IInv

\* Commands that only read, or write only the report.
LEMMA ReaderStep ==
    ASSUME IInv, NEW p \in Processes,
           \/ LoadAgents(p) \/ LoadPersonas(p) \/ ReadAgents(p) \/ ReadPersonas(p) \/ Mark(p)
    PROVE  IInv' /\ Advance
<1> USE DEF Shapes
<1>1. at[p] \in Holding /\ UNCHANGED <<files, pending, journal>>
  BY DEF LoadAgents, LoadPersonas, ReadAgents, ReadPersonas, Mark, Inside, Holding
<1>2. JournalIsNext' /\ Advance BY <1>1, NothingWritten DEF IInv
<1>3. IsPair(mine[p]) /\ IsFile(files.agents) /\ IsFile(files.personas) /\ IsPair(files)
  BY DEF IInv, MineShape, IsPair
<1>4. CASE Failed(p)
  <2>1. MineShape' /\ ViewShape' /\ AtShape' /\ LockIsHeld' /\ Progresses'
    BY <1>1, <1>4, FailedStep DEF IInv
  <2> QED BY <1>1, <1>2, <2>1 DEF IInv
<1>5. ASSUME ViewShape', NEW left, NEW pair, IsPair(pair), Answer(p, left, pair) PROVE IInv' /\ Advance
  <2>1. MineShape' /\ AtShape' /\ LockIsHeld' /\ Progresses' BY <1>1, <1>5, AnswerStep DEF IInv
  <2> QED BY <1>1, <1>2, <1>5, <2>1 DEF IInv
<1>6. CASE p \in Desktops /\ (LoadAgents(p) \/ LoadPersonas(p))
  <2>1. IsView(view[p]) BY <1>6 DEF IInv, ViewShape
  <2> DEFINE first == [view[p] EXCEPT !.agents = files.agents, !.board.agents = files.agents]
             second == [view[p] EXCEPT !.board.personas = files.personas, !.unsaved = FALSE]
  <2>2. IsView(first) /\ IsView(second) BY <1>3, <2>1, ViewUpdates
  <2>3. view' = [view EXCEPT ![p] = first] \/ view' = [view EXCEPT ![p] = second]
    <3>1. CASE LoadAgents(p)
      <4>1. view' = [view EXCEPT ![p].agents = files.agents, ![p].board.agents = files.agents]
        BY <3>1 DEF LoadAgents
      <4>2. view' = [[view EXCEPT ![p].agents = files.agents] EXCEPT ![p].board.agents = files.agents]
        BY <4>1
      <4> QED BY <1>6, <2>1, <4>2 DEF IInv, ViewShape, IsView
    <3>2. CASE LoadPersonas(p)
      <4>1. view' = [view EXCEPT ![p].board.personas = files.personas, ![p].unsaved = FALSE]
        BY <3>2 DEF LoadPersonas
      <4>2. view' = [[view EXCEPT ![p].board.personas = files.personas] EXCEPT ![p].unsaved = FALSE]
        BY <4>1
      <4> QED BY <1>6, <2>1, <4>2 DEF IInv, ViewShape, IsView
    <3> QED BY <1>6, <3>1, <3>2
  <2> HIDE DEF first, second
  <2>4. ViewShape' BY <2>2, <2>3 DEF IInv, ViewShape
  <2>5. Answer(p, Tail(todo[p]), mine[p]) BY <1>6 DEF LoadAgents, LoadPersonas, Continue
  <2> QED BY <1>3, <1>5, <2>4, <2>5
<1>7. CASE ReadAgents(p) /\ ~Failed(p)
  <2> DEFINE of == RecordAll(files.agents.of, op[p].items)
             f == [files.agents EXCEPT !.of = of]
  <2>1. PICK left : Answer(p, left, [mine[p] EXCEPT !.agents = f]) /\ view' = view BY <1>7 DEF ReadAgents
  <2>2. IsFile(f) BY <1>3, FileUpdates
  <2> HIDE DEF f
  <2>3. IsPair([mine[p] EXCEPT !.agents = f]) BY <1>3, <2>2, PairUpdates
  <2>4. ViewShape' BY <2>1 DEF IInv, ViewShape
  <2> QED BY <1>5, <2>1, <2>3, <2>4
<1>8. CASE ReadPersonas(p)
  <2> DEFINE f == Sync(files.personas, mine[p].agents.of)
  <2>1. PICK left : Answer(p, left, [mine[p] EXCEPT !.personas = f]) /\ view' = view BY <1>8 DEF ReadPersonas
  <2>2. IsFile(f) BY <1>3, SyncKeepsRevision
  <2> HIDE DEF f
  <2>3. IsPair([mine[p] EXCEPT !.personas = f]) BY <1>3, <2>2, PairUpdates
  <2>4. ViewShape' BY <2>1 DEF IInv, ViewShape
  <2> QED BY <1>5, <2>1, <2>3, <2>4
<1>9. CASE Mark(p) /\ ~Failed(p)
  <2>1. Answer(p, Tail(todo[p]), mine[p]) /\ view' = view BY <1>9 DEF Mark, Continue
  <2>2. ViewShape' BY <2>1 DEF IInv, ViewShape
  <2> QED BY <1>3, <1>5, <2>1, <2>2
<1>10. CASE p \notin Desktops /\ (LoadAgents(p) \/ LoadPersonas(p))
  <2>1. view' = view BY <1>10 DEF LoadAgents, LoadPersonas, IInv, ViewShape
  <2>2. Answer(p, Tail(todo[p]), mine[p]) BY <1>10 DEF LoadAgents, LoadPersonas, Continue
  <2>3. ViewShape' BY <2>1 DEF IInv, ViewShape
  <2> QED BY <1>3, <1>5, <2>2, <2>3
<1> QED BY <1>4, <1>6, <1>7, <1>8, <1>9, <1>10

\* One registry is replaced, and no journal is there.
LEMMA WritePersonasStep ==
    ASSUME IInv, NEW p \in Processes, WritePersonas(p)
    PROVE  IInv' /\ Advance
<1> USE DEF Shapes
<1> DEFINE next == Bumped(mine[p].personas)
<1>1. at[p] \in Holding /\ ~pending /\ UNCHANGED <<pending, journal>>
  BY DEF WritePersonas, Inside, Holding, IInv, Progresses, Progress
<1>2. IsPair(mine[p]) /\ IsFile(mine[p].personas) /\ IsPair(files) BY DEF IInv, MineShape, IsPair
<1>3. IsFile(next) /\ next.rev = mine[p].personas.rev + 1 BY <1>2, BumpedIsNext
<1>4. CASE Failed(p) /\ UNCHANGED files
  <2>1. MineShape' /\ ViewShape' /\ AtShape' /\ LockIsHeld' /\ Progresses'
    BY <1>1, <1>4, FailedStep DEF IInv
  <2>2. JournalIsNext' /\ Advance BY <1>1, <1>4, NothingWritten DEF IInv
  <2> QED BY <1>1, <1>4, <2>1, <2>2 DEF IInv
<1>5. CASE ~(Failed(p) /\ UNCHANGED files)
  <2>1. /\ Current(files.personas, mine[p].personas)
        /\ files' = [files EXCEPT !.personas = next]
        /\ view' = [view EXCEPT ![p].board.personas = next]
        /\ Answer(p, Tail(todo[p]), mine[p])
    BY <1>5 DEF WritePersonas, Continue
  <2> HIDE DEF next
  <2>2. IsPair([files EXCEPT !.personas = next]) /\ [files EXCEPT !.personas = next].personas = next
        /\ [files EXCEPT !.personas = next].agents = files.agents
    BY <1>2, <1>3, PairUpdates
  <2>3. IsPair(files') /\ files'.personas = next /\ files'.agents = files.agents BY <2>1, <2>2
  <2>4. ViewShape'
    <3>1. CASE p \in Desktops
      <4>1. IsView(view[p]) BY <3>1 DEF IInv, ViewShape
      <4>2. IsView([view[p] EXCEPT !.board.personas = next]) BY <1>2, <1>3, <4>1, ViewUpdates
      <4>3. view' = [view EXCEPT ![p] = [view[p] EXCEPT !.board.personas = next]]
        BY <2>1, <3>1 DEF IInv, ViewShape
      <4> QED BY <4>2, <4>3 DEF IInv, ViewShape
    <3>2. CASE p \notin Desktops BY <2>1, <3>2 DEF IInv, ViewShape
    <3> QED BY <3>1, <3>2
  <2>5. MineShape' /\ AtShape' /\ LockIsHeld' /\ Progresses' BY <1>1, <1>2, <2>1, AnswerStep DEF IInv
  <2>6. JournalIsNext' BY <1>1 DEF JournalIsNext
  <2>7. files'.personas.rev = files.personas.rev + 1 BY <1>3, <2>1, <2>3 DEF Current
  <2>8. Advance BY <1>1, <2>3, <2>7 DEF Advance, Committed, OneRevisionAtATime
  <2> QED BY <1>1, <2>3, <2>4, <2>5, <2>6, <2>8 DEF IInv
<1> QED BY <1>4, <1>5

\* A journal with the next revisions is published by who is inside a command.
LEMMA PublishStep ==
    ASSUME IInv, NEW p \in Processes, at[p] = "inside", NEW pair, IsPair(pair),
           OneRevisionAtATime(files.agents, pair.agents),
           OneRevisionAtATime(files.personas, pair.personas),
           Publish(pair), Move(p, "commitAgents"), UNCHANGED <<files, lock, mine, view>>
    PROVE  IInv' /\ Advance
<1> USE DEF Shapes
<1>1. ~pending /\ pending' /\ journal' = pair BY DEF Publish, IInv, Progresses, Progress
<1>2. MineShape' /\ ViewShape' BY DEF IInv, MineShape, ViewShape
<1>3. at' = [at EXCEPT ![p] = "commitAgents"] /\ at[p] \in Holding /\ "commitAgents" \in Holding
  BY DEF Move, Holding
<1>4. Progress(p)' BY <1>1, <1>3 DEF IInv, AtShape, Progress, Holding
<1>5. AtShape' /\ LockIsHeld' /\ Progresses' BY <1>3, <1>4, StepInside DEF IInv
<1>6. JournalIsNext' BY <1>1 DEF JournalIsNext
<1>7. Advance BY <1>1 DEF Advance, Committed, OneRevisionAtATime
<1> QED BY <1>1, <1>2, <1>5, <1>6, <1>7 DEF IInv

LEMMA WritePairStep ==
    ASSUME IInv, NEW p \in Processes, WritePair(p)
    PROVE  IInv' /\ Advance
<1> USE DEF Shapes
<1>1. CASE Failed(p) /\ UNCHANGED <<files, pending, journal>>
  <2>1. MineShape' /\ ViewShape' /\ AtShape' /\ LockIsHeld' /\ Progresses'
    BY <1>1, FailedStep DEF IInv
  <2>2. JournalIsNext' /\ Advance BY <1>1, NothingWritten DEF IInv
  <2> QED BY <1>1, <2>1, <2>2 DEF IInv
<1>2. CASE ~(Failed(p) /\ UNCHANGED <<files, pending, journal>>)
  <2> DEFINE a == Bumped(mine[p].agents)
             b == Bumped(mine[p].personas)
             pair == [agents |-> a, personas |-> b]
  <2>1. /\ Current(files.agents, mine[p].agents) /\ Current(files.personas, mine[p].personas)
        /\ at[p] = "inside" /\ Publish(pair) /\ Move(p, "commitAgents")
        /\ UNCHANGED <<files, lock, mine, view>>
    BY <1>2 DEF WritePair, Inside
  <2>2. IsFile(mine[p].agents) /\ IsFile(mine[p].personas) BY DEF IInv, MineShape, IsPair
  <2>3. IsFile(a) /\ a.rev = files.agents.rev + 1 /\ IsFile(b) /\ b.rev = files.personas.rev + 1
    BY <2>1, <2>2, BumpedIsNext DEF Current
  <2> HIDE DEF a, b
  <2>4. IsPair(pair) /\ OneRevisionAtATime(files.agents, pair.agents)
        /\ OneRevisionAtATime(files.personas, pair.personas)
    BY <2>3 DEF IsPair, OneRevisionAtATime
  <2> HIDE DEF pair
  <2> QED BY <2>1, <2>4, PublishStep
<1> QED BY <1>1, <1>2

LEMMA CommitStep ==
    ASSUME IInv, NEW p \in Processes, Commit(p)
    PROVE  IInv' /\ Advance
<1> USE DEF Shapes
<1> DEFINE of == RecordAll(files.agents.of, op[p].items)
           recorded == [files.agents EXCEPT !.of = of]
           agents == IF of # files.agents.of THEN Bumped(recorded) ELSE files.agents
           synced == Sync(files.personas, of)
           pair == [agents |-> agents, personas |-> Bumped(synced)]
<1>1. IsPair(files) /\ IsFile(files.agents) /\ IsFile(files.personas) BY DEF IInv, IsPair
<1>2. IsFile(agents) /\ OneRevisionAtATime(files.agents, agents)
  <2>1. IsFile(recorded) /\ recorded.rev = files.agents.rev BY <1>1, FileUpdates
  <2>2. IsFile(Bumped(recorded)) /\ Bumped(recorded).rev = files.agents.rev + 1 BY <2>1, BumpedIsNext
  <2> QED BY <1>1, <2>2 DEF OneRevisionAtATime
<1>3. IsFile(Bumped(synced)) /\ OneRevisionAtATime(files.personas, Bumped(synced))
  <2>1. IsFile(synced) /\ synced.rev = files.personas.rev BY <1>1, SyncKeepsRevision
  <2> QED BY <2>1, BumpedIsNext DEF OneRevisionAtATime
<1>4. at[p] = "inside" /\ at[p] \in Holding /\ ~pending
  BY DEF Commit, Inside, Holding, IInv, Progresses, Progress
<1>5. CASE Failed(p) /\ UNCHANGED <<files, pending, journal>>
  <2>1. MineShape' /\ ViewShape' /\ AtShape' /\ LockIsHeld' /\ Progresses'
    BY <1>5, FailedStep DEF IInv
  <2>2. JournalIsNext' /\ Advance BY <1>5, NothingWritten DEF IInv
  <2> QED BY <1>5, <2>1, <2>2 DEF IInv
<1>6. CASE files' = [files EXCEPT !.agents = agents] /\ Continue(p) /\ UNCHANGED <<pending, journal, view>>
  <2> HIDE DEF agents
  <2>0. IsPair([files EXCEPT !.agents = agents]) /\ [files EXCEPT !.agents = agents].agents = agents
        /\ [files EXCEPT !.agents = agents].personas = files.personas
    BY <1>1, <1>2, PairUpdates, ZenonT(60)
  <2>1. IsPair(files') /\ files'.agents = agents /\ files'.personas = files.personas BY <1>6, <2>0
  <2>2. IsPair(mine[p]) BY DEF IInv, MineShape
  <2>3. MineShape' /\ AtShape' /\ LockIsHeld' /\ Progresses'
    BY <1>4, <1>6, <2>2, AnswerStep DEF IInv, Continue
  <2>4. ViewShape' /\ JournalIsNext' BY <1>4, <1>6 DEF IInv, ViewShape, JournalIsNext
  <2>5. Advance BY <1>2, <1>4, <1>6, <2>1 DEF Advance, Committed, OneRevisionAtATime
  <2> QED BY <1>6, <2>1, <2>3, <2>4, <2>5 DEF IInv
<1>7. CASE Publish(pair) /\ Move(p, "commitAgents") /\ UNCHANGED <<files, lock, mine, view>>
  <2>1. IsPair(pair) BY <1>2, <1>3 DEF IsPair
  <2>2. OneRevisionAtATime(files.agents, pair.agents) /\ OneRevisionAtATime(files.personas, pair.personas)
    BY <1>2, <1>3
  <2> HIDE DEF pair
  <2> QED BY <1>4, <1>7, <2>1, <2>2, PublishStep
<1> QED BY <1>5, <1>6, <1>7 DEF Commit

LEMMA LossStep ==
    ASSUME IInv, NEW p \in Processes, Fault(p) \/ Crash(p)
    PROVE  IInv' /\ Advance
<1> USE DEF Shapes
<1>1. UNCHANGED <<files, pending, journal>> BY DEF Fault, Crash
<1>2. JournalIsNext' /\ Advance BY <1>1, NothingWritten DEF IInv
<1>3. CASE Fault(p)
  <2>1. Failed(p) BY <1>3 DEF Fault
  <2>2. MineShape' /\ ViewShape' /\ AtShape' /\ LockIsHeld' /\ Progresses'
    BY <1>1, <2>1, FailedStep DEF IInv
  <2> QED BY <1>1, <1>2, <2>2 DEF IInv
<1>4. CASE Crash(p)
  <2>1. Unlock(p) /\ at' = [at EXCEPT ![p] = "idle"] /\ "idle" \notin Holding BY <1>4 DEF Crash, Move, Holding
  <2>2. AtShape' /\ LockIsHeld' /\ Progresses'
    <3>1. CASE at[p] \in Holding BY <2>1, <3>1, LeaveCommand DEF IInv
    <3>2. CASE at[p] \notin Holding
      <4>1. lock' = lock BY <2>1, <3>2 DEF Unlock, IInv, LockIsHeld
      <4> QED BY <1>1, <2>1, <3>2, <4>1, StayOutside DEF IInv
    <3> QED BY <3>1, <3>2
  <2>3. MineShape'
    <3>1. mine' = [mine EXCEPT ![p] = Empty] BY <1>4 DEF Crash
    <3> QED BY <3>1, EmptyShape DEF IInv, MineShape
  <2>4. ViewShape'
    <3>1. view' = [d \in Desktops |-> IF d = p THEN Blank ELSE view[d]] BY <1>4 DEF Crash
    <3> QED BY <3>1, EmptyShape DEF IInv, ViewShape
  <2> QED BY <1>1, <1>2, <2>2, <2>3, <2>4 DEF IInv
<1> QED BY <1>3, <1>4

-----------------------------------------------------------------------------
LEMMA InitEstablishes == Init => IInv
<1> SUFFICES ASSUME Init PROVE IInv OBVIOUS
<1>1. IsPair(files) /\ IsFile(files.agents) BY DEF Init, IsPair, IsFile
<1>2. IsPair(journal) /\ ~pending BY EmptyShape DEF Init
<1>3. MineShape BY EmptyShape DEF Init, MineShape
<1>4. ViewShape
  <2>1. IsView([agents |-> files.agents, board |-> files, unsaved |-> FALSE]) BY <1>1 DEF IsView
  <2>2. view \in [Desktops -> {Blank, [agents |-> files.agents, board |-> files, unsaved |-> FALSE]}] BY DEF Init
  <2> QED BY <2>1, <2>2, EmptyShape DEF ViewShape
<1>5. AtShape /\ \A p \in Processes : at[p] \notin Holding BY DEF Init, AtShape, Holding
<1>6. LockIsHeld BY <1>5, ProcessAssumption DEF LockIsHeld, Init
<1>7. Progresses BY <1>5 DEF Progresses, Progress, Holding
<1>8. JournalIsNext BY <1>2 DEF JournalIsNext
<1> QED BY <1>1, <1>2, <1>3, <1>4, <1>5, <1>6, <1>7, <1>8 DEF IInv, Shapes

LEMMA NextKeeps == IInv /\ [Next]_vars => IInv' /\ [Advance]_vars
<1> SUFFICES ASSUME IInv, [Next]_vars PROVE IInv' /\ [Advance]_vars OBVIOUS
<1>1. CASE UNCHANGED vars
  <2>1. IInv' BY <1>1 DEF vars, IInv, Shapes, MineShape, ViewShape, AtShape, LockIsHeld, Progresses, Progress,
                        JournalIsNext
  <2> QED BY <1>1, <2>1
<1>2. CASE Next
  <2>1. PICK p \in Processes : Start(p) \/ Run(p) \/ Fault(p) \/ Crash(p) BY <1>2 DEF Next
  <2>2. CASE Start(p) BY <2>2, StartStep
  <2>3. CASE Fault(p) \/ Crash(p) BY <2>3, LossStep
  <2>4. CASE Run(p)
    <3>1. CASE Acquire(p) BY <3>1, AcquireStep
    <3>2. CASE PutAgents(p) \/ PutPersonas(p) BY <3>2, PutStep
    <3>3. CASE Replayed(p) BY <3>3, ReplayedStep
    <3>4. CASE PairWritten(p) BY <3>4, PairWrittenStep
    <3>5. CASE LoadAgents(p) \/ LoadPersonas(p) \/ ReadAgents(p) \/ ReadPersonas(p) \/ Mark(p)
      BY <3>5, ReaderStep
    <3>6. CASE WritePersonas(p) BY <3>6, WritePersonasStep
    <3>7. CASE WritePair(p) BY <3>7, WritePairStep
    <3>8. CASE Commit(p) BY <3>8, CommitStep
    <3> QED BY <2>4, <3>1, <3>2, <3>3, <3>4, <3>5, <3>6, <3>7, <3>8 DEF Run
  <2> QED BY <2>1, <2>2, <2>3, <2>4
<1> QED BY <1>1, <1>2

\* Whoever crashes, fails, replays or writes from a copy, the registries and what
\* they stand for advance by one revision at a time (RegistriesAdvance: the revision
\* checks of write_workspace_registry_file and _pair, and the journal).
THEOREM RevisionsAdvance == Spec => RegistriesAdvance
<1>1. Init => IInv BY InitEstablishes
<1>2. IInv /\ [Next]_vars => IInv' /\ [Advance]_vars BY NextKeeps
<1>3. [Advance]_vars <=> [/\ OneRevisionAtATime(Committed.agents, Committed'.agents)
                          /\ OneRevisionAtATime(Committed.personas, Committed'.personas)
                          /\ OneRevisionAtATime(files.agents, files'.agents)
                          /\ OneRevisionAtATime(files.personas, files'.personas)]_vars
  BY DEF Advance
<1> QED BY <1>1, <1>2, <1>3, PTL DEF Spec, RegistriesAdvance

\* At most one process is inside a command of the registries, and a process that is
\* has replayed every journal (acquire_workspace_registry_lock and the recovery
\* that each native command begins with).
NobodyWorksOnAJournal == \A p \in Processes : at[p] = "inside" => ~pending /\ lock = p
THEOREM CommandsAreExclusive == Spec => []NobodyWorksOnAJournal
<1>1. Init => IInv BY InitEstablishes
<1>2. IInv /\ [Next]_vars => IInv' BY NextKeeps
<1>3. IInv => NobodyWorksOnAJournal
  BY DEF IInv, LockIsHeld, Progresses, Progress, Holding, NobodyWorksOnAJournal
<1> QED BY <1>1, <1>2, <1>3, PTL DEF Spec

-----------------------------------------------------------------------------
(* What becomes of the records. A copy of a registry that has the committed     *)
(* revision was made from what is committed: no evaluation is missing in it but  *)
(* by a removal or a reset. So whoever passes the revision check loses none.     *)

Sound(r) == r \in AgentRecord /\ r.count = Cardinality(r.keys)
SoundOf(of) ==
    /\ of = [a \in Agents |-> of[a]]
    /\ \A a \in Agents : of[a] \in {Unborn, Gone} \/ Sound(of[a])
SoundFile(f) == SoundOf(f.of) /\ f.rev \in Nat

\* What may become of one record, and of all of them.
KeepsRecord(old, new) ==
    /\ old = Gone => new = Gone
    /\ old \notin {Unborn, Gone} =>
         \/ new = Gone
         \/ /\ new \notin {Unborn, Gone} /\ new.resets >= old.resets
            /\ old.keys \subseteq new.keys \/ new.resets > old.resets
KeepsRecords(old, new) == \A a \in Agents : KeepsRecord(old[a], new[a])

\* f is a copy of the agents file c, or of an older one.
CopyOf(c, f) ==
    /\ IsFile(f) /\ SoundFile(f) /\ f.rev <= c.rev
    /\ f.rev = c.rev => KeepsRecords(c.of, f.of)
Copies ==
    /\ SoundFile(files.agents) /\ SoundFile(journal.agents) /\ Committed.agents.rev >= 1
    /\ \A p \in Processes : CopyOf(Committed.agents, mine[p].agents)
    /\ \A d \in Desktops : /\ CopyOf(Committed.agents, view[d].agents)
                           /\ CopyOf(Committed.agents, view[d].board.agents)

\* The workflows, and the commands that may be left of each.
Lefts(kind) ==
    CASE kind = "load" -> {<<"loadAgents", "loadPersonas">>, <<"loadPersonas">>}
      [] kind = "evaluate" -> {SaveEvaluation, <<"readPersonas", "writePair", "mark">>,
                               <<"readPersonas", "mark">>, <<"writePair", "mark">>,
                               <<"writePair">>, <<"mark">>}
      [] kind = "agent" -> {<<"readPersonas", "writePair">>, <<"writePair">>}
      [] kind = "persona" -> {<<"writePersonas">>, <<"writePair">>}
      [] kind = "batch" -> {<<"commit">>}
      [] OTHER -> {}
Working(x) == x \notin {"idle", "failed"}
Committing(x) == x \in {"commitAgents", "commitPersonas", "commitUnlink"}

\* A process p that is at x, in the workflow o with the commands t left.
WorkOK(p, x, o, t) ==
    /\ o = [kind |-> o.kind, items |-> o.items] /\ o.items \subseteq Agents \X Keys
    /\ Working(x) => t \in Lefts(o.kind) /\ (o.kind = "batch" <=> p \notin Desktops)
    /\ Committing(x) => Head(t) \in {"writePair", "commit"}
Workflows ==
    /\ op = [p \in Processes |-> op[p]] /\ todo = [p \in Processes |-> todo[p]]
    /\ \A p \in Processes : WorkOK(p, at[p], op[p], todo[p])

\* An evaluation is counted, or was reset or removed since.
CountedIn(of, i) ==
    of[i[1]] = Gone \/ (of[i[1]] # Unborn /\ (i[2] \in of[i[1]].keys \/ of[i[1]].resets > 0))

\* Once the agents have been read, the evaluation of a workflow is counted in what is
\* committed (c), or in the pair that the workflow is to write before the mark (m).
BeforeMark == {<<"readPersonas", "writePair", "mark">>, <<"writePair", "mark">>, <<"writePair">>}
MarkOK(c, x, o, t, m) ==
    o.kind = "evaluate" /\ Working(x) /\ t # SaveEvaluation =>
        \A i \in o.items :
            CountedIn(c, i) \/ (~Committing(x) /\ t \in BeforeMark /\ CountedIn(m, i))
MarksFollow ==
    /\ \A p \in Processes : MarkOK(Committed.agents.of, at[p], op[p], todo[p], mine[p].agents.of)
    /\ \A i \in marks : i \in Agents \X Keys /\ CountedIn(Committed.agents.of, i)

RecordInv == Copies /\ Workflows /\ MarksFollow

-----------------------------------------------------------------------------
(* Records *)

LEMMA BornIsSound ==
    ASSUME NEW of, SoundOf(of), NEW a \in Agents
    PROVE  /\ Born(of, a) <=> Sound(of[a])
           /\ Born(of, a) => of[a].resets \in Nat /\ of[a].keys \subseteq Keys
  BY RecordAssumption DEF SoundOf, Sound, Born, AgentRecord

LEMMA KeepsItself ==
    ASSUME NEW of, SoundOf(of)
    PROVE  KeepsRecords(of, of)
<1> SUFFICES ASSUME NEW a \in Agents PROVE KeepsRecord(of[a], of[a]) BY DEF KeepsRecords
<1> QED BY BornIsSound DEF KeepsRecord, Born

LEMMA KeepsOn ==
    ASSUME NEW x, SoundOf(x), NEW y, SoundOf(y), NEW z, SoundOf(z),
           KeepsRecords(x, y), KeepsRecords(y, z)
    PROVE  KeepsRecords(x, z)
<1> SUFFICES ASSUME NEW a \in Agents PROVE KeepsRecord(x[a], z[a]) BY DEF KeepsRecords
<1>1. KeepsRecord(x[a], y[a]) /\ KeepsRecord(y[a], z[a]) BY DEF KeepsRecords
<1>2. CASE x[a] \in {Unborn, Gone} \/ y[a] = Gone BY <1>1, <1>2, RecordAssumption DEF KeepsRecord
<1>3. CASE x[a] \notin {Unborn, Gone} /\ y[a] \notin {Unborn, Gone} /\ z[a] \notin {Unborn, Gone}
  <2>1. x[a].resets \in Nat /\ y[a].resets \in Nat /\ z[a].resets \in Nat BY <1>3, BornIsSound DEF Born
  <2> QED BY <1>1, <1>3, <2>1 DEF KeepsRecord
<1> QED BY <1>1, <1>2, <1>3 DEF KeepsRecord

LEMMA CountedStays ==
    ASSUME NEW x, SoundOf(x), NEW y, SoundOf(y), KeepsRecords(x, y),
           NEW i \in Agents \X Keys, CountedIn(x, i)
    PROVE  CountedIn(y, i)
<1>1. i[1] \in Agents /\ KeepsRecord(x[i[1]], y[i[1]]) BY DEF KeepsRecords
<1>2. CASE x[i[1]] = Gone \/ y[i[1]] = Gone BY <1>1, <1>2 DEF CountedIn, KeepsRecord
<1>3. CASE x[i[1]] # Gone /\ y[i[1]] # Gone
  <2>1. x[i[1]].resets \in Nat /\ y[i[1]].resets \in Nat
    BY <1>1, <1>3, BornIsSound DEF CountedIn, Born, KeepsRecord
  <2> QED BY <1>1, <1>3, <2>1 DEF CountedIn, KeepsRecord
<1> QED BY <1>2, <1>3

LEMMA CardinalityAdds ==
    ASSUME NEW S, NEW T, IsFiniteSet(S), IsFiniteSet(T), S \cap T = {}
    PROVE  /\ Cardinality(S \cup T) = Cardinality(S) + Cardinality(T)
           /\ Cardinality(S) \in Nat /\ Cardinality(T) \in Nat
<1>1. Cardinality(S \cap T) = 0 BY FS_EmptySet
<1>2. Cardinality(S) \in Nat BY FS_CardinalityType
<1>3. Cardinality(T) \in Nat BY FS_CardinalityType
<1>4. Cardinality(S \cup T) = Cardinality(S) + Cardinality(T) - Cardinality(S \cap T) BY FS_Union
<1> QED BY <1>1, <1>2, <1>3, <1>4

LEMMA NewAgentIsSound ==
    ASSUME NEW q \in Personas \cup {NoPersona}
    PROVE  Sound(NewAgent(q))
  BY FS_EmptySet DEF Sound, NewAgent, AgentRecord

\* recordAgentEvaluationOnce, of all agents.
LEMMA RecordedOnce ==
    ASSUME NEW of, SoundOf(of), NEW items
    PROVE  /\ SoundOf(RecordAll(of, items)) /\ KeepsRecords(of, RecordAll(of, items))
           /\ \A i \in items \cap (Agents \X Keys) :
                 Born(of, i[1]) => CountedIn(RecordAll(of, items), i)
<1> DEFINE all == RecordAll(of, items)
           new(a) == {k \in Keys : <<a, k>> \in items} \ of[a].keys
<1>1. all = [a \in Agents |->
               IF ~Born(of, a) THEN of[a]
               ELSE [of[a] EXCEPT !.keys = @ \cup new(a), !.count = @ + Cardinality(new(a))]]
  BY DEF RecordAll
<1>2. ASSUME NEW a \in Agents, ~Born(of, a) PROVE all[a] = of[a] /\ all[a] \in {Unborn, Gone}
  BY <1>1, <1>2 DEF Born
<1>3. ASSUME NEW a \in Agents, Born(of, a)
      PROVE  /\ Sound(all[a]) /\ KeepsRecord(of[a], all[a])
             /\ \A k \in Keys : <<a, k>> \in items => k \in all[a].keys
             /\ all[a] # Unborn
  <2> DEFINE r == of[a]
             n == new(a)
             s == [keys |-> r.keys \cup n, count |-> r.count + Cardinality(n),
                   persona |-> r.persona, resets |-> r.resets]
  <2>1. Sound(r) BY <1>3, BornIsSound
  <2>2. r = [keys |-> r.keys, count |-> r.count, persona |-> r.persona, resets |-> r.resets]
        /\ r.keys \subseteq Keys /\ r.persona \in Personas \cup {NoPersona} /\ r.resets \in Nat
        /\ r.count = Cardinality(r.keys)
    BY <2>1 DEF Sound, AgentRecord
  <2>3. n \subseteq Keys /\ r.keys \cap n = {} OBVIOUS
  <2>4. all[a] = [r EXCEPT !.keys = @ \cup n, !.count = @ + Cardinality(n)] BY <1>1, <1>3
  <2>5. \A k \in Keys : <<a, k>> \in items => k \in r.keys \cup n OBVIOUS
  <2> HIDE DEF n, r
  <2>6. all[a] = s BY <2>2, <2>4
  <2>7. IsFiniteSet(r.keys) BY <2>2, ProcessAssumption, FS_Subset
  <2>8. IsFiniteSet(n) BY <2>3, ProcessAssumption, FS_Subset
  <2>9. /\ Cardinality(r.keys \cup n) = Cardinality(r.keys) + Cardinality(n)
        /\ Cardinality(r.keys) \in Nat /\ Cardinality(n) \in Nat
    BY <2>3, <2>7, <2>8, CardinalityAdds
  <2>10. Sound(s) BY <2>2, <2>3, <2>9 DEF Sound, AgentRecord
  <2>11. s \notin {Unborn, Gone} BY <2>10, RecordAssumption DEF Sound
  <2>12. KeepsRecord(r, s)
    <3>1. s.keys = r.keys \cup n /\ s.resets = r.resets OBVIOUS
    <3>2. r \notin {Unborn, Gone} BY <2>1, RecordAssumption DEF Sound
    <3> HIDE DEF s
    <3> QED BY <2>2, <2>11, <3>1, <3>2 DEF KeepsRecord
  <2> QED BY <2>5, <2>6, <2>10, <2>11, <2>12 DEF r
<1> HIDE DEF all, new
<1>4. SoundOf(all) BY <1>1, <1>2, <1>3 DEF SoundOf
<1>5. KeepsRecords(of, all)
  <2> SUFFICES ASSUME NEW a \in Agents PROVE KeepsRecord(of[a], all[a]) BY DEF KeepsRecords
  <2>1. CASE ~Born(of, a) BY <1>2, <2>1 DEF KeepsRecord, Born
  <2> QED BY <1>3, <2>1
<1>6. \A i \in items \cap (Agents \X Keys) : Born(of, i[1]) => CountedIn(all, i)
  <2> SUFFICES ASSUME NEW i \in items \cap (Agents \X Keys), Born(of, i[1]) PROVE CountedIn(all, i) OBVIOUS
  <2>1. i = <<i[1], i[2]>> /\ i[1] \in Agents /\ i[2] \in Keys OBVIOUS
  <2> QED BY <1>3, <2>1 DEF CountedIn
<1> QED BY <1>4, <1>5, <1>6 DEF all

-----------------------------------------------------------------------------
(* Copies and the changes that panels make to them *)

LEMMA CopyStays ==
    ASSUME NEW c, SoundFile(c), NEW d, SoundFile(d), OneRevisionAtATime(c, d), NEW f, CopyOf(c, f)
    PROVE  CopyOf(d, f)
<1>1. CASE d = c BY <1>1
<1>2. CASE d.rev = c.rev + 1
  <2>1. f.rev \in Nat /\ c.rev \in Nat /\ f.rev <= c.rev BY DEF CopyOf, SoundFile
  <2> QED BY <1>2, <2>1 DEF CopyOf
<1> QED BY <1>1, <1>2 DEF OneRevisionAtATime

LEMMA CopyOfItself ==
    ASSUME NEW c, IsFile(c), SoundFile(c)
    PROVE  CopyOf(c, c)
  BY KeepsItself DEF CopyOf, SoundFile

LEMMA EmptyIsCopy ==
    ASSUME NEW c, SoundFile(c), c.rev >= 1
    PROVE  CopyOf(c, Empty.agents) /\ SoundFile(Empty.agents)
<1>1. Empty.agents.rev = 0 /\ Empty.agents.of = [a \in Agents |-> Unborn] /\ IsFile(Empty.agents)
  BY DEF Empty, IsFile
<1>2. SoundOf(Empty.agents.of) BY <1>1 DEF SoundOf
<1>3. c.rev \in Nat BY DEF SoundFile
<1> QED BY <1>1, <1>2, <1>3 DEF CopyOf, SoundFile

\* Other records for some agents.
LEMMA CopyWith ==
    ASSUME NEW c, SoundFile(c), NEW f, CopyOf(c, f), NEW of, SoundOf(of), KeepsRecords(f.of, of)
    PROVE  CopyOf(c, [f EXCEPT !.of = of])
<1> DEFINE g == [f EXCEPT !.of = of]
<1>1. IsFile(g) /\ g.of = of /\ g.rev = f.rev BY FileUpdates DEF CopyOf, IsFile
<1>2. SoundFile(g) /\ g.rev <= c.rev BY <1>1 DEF CopyOf, SoundFile
<1>3. ASSUME g.rev = c.rev PROVE KeepsRecords(c.of, g.of)
  <2>1. KeepsRecords(c.of, f.of) /\ SoundOf(f.of) /\ SoundOf(c.of) BY <1>1, <1>3 DEF CopyOf, SoundFile
  <2> QED BY <1>1, <2>1, KeepsOn
<1> QED BY <1>1, <1>2, <1>3 DEF CopyOf

LEMMA CopyWithRecord ==
    ASSUME NEW c, SoundFile(c), NEW f, CopyOf(c, f), NEW a \in Agents, NEW r,
           r = Gone \/ Sound(r), KeepsRecord(f.of[a], r)
    PROVE  CopyOf(c, [f EXCEPT !.of[a] = r])
<1> DEFINE of == [f.of EXCEPT ![a] = r]
<1>1. IsFile(f) /\ SoundOf(f.of) BY DEF CopyOf, SoundFile
<1>2. SoundOf(of) BY <1>1 DEF SoundOf
<1>3. KeepsRecords(f.of, of)
  <2> SUFFICES ASSUME NEW b \in Agents PROVE KeepsRecord(f.of[b], of[b]) BY DEF KeepsRecords
  <2>1. KeepsRecord(f.of[b], f.of[b]) BY <1>1, KeepsItself DEF KeepsRecords
  <2>2. CASE b = a BY <1>1, <2>2 DEF SoundOf
  <2>3. CASE b # a BY <1>1, <2>1, <2>3 DEF SoundOf
  <2> QED BY <2>2, <2>3
<1>4. [f EXCEPT !.of[a] = r] = [f EXCEPT !.of = of] BY <1>1 DEF IsFile
<1> HIDE DEF of
<1> QED BY <1>2, <1>3, <1>4, CopyWith

LEMMA AssignKeeps ==
    ASSUME NEW r, Sound(r), NEW q \in Personas \cup {NoPersona}
    PROVE  Sound([r EXCEPT !.persona = q]) /\ KeepsRecord(r, [r EXCEPT !.persona = q])
<1> DEFINE s == [r EXCEPT !.persona = q]
<1>1. r \in AgentRecord /\ r.count = Cardinality(r.keys) BY DEF Sound
<1>2. Sound(s) /\ s.keys = r.keys /\ s.resets = r.resets /\ r.resets \in Nat
  BY <1>1 DEF Sound, AgentRecord
<1> HIDE DEF s
<1>3. s \notin {Unborn, Gone} /\ r \notin {Unborn, Gone} BY <1>1, <1>2, RecordAssumption DEF Sound
<1>4. KeepsRecord(r, s) BY <1>2, <1>3 DEF KeepsRecord
<1> QED BY <1>2, <1>4 DEF s

LEMMA GiveKeeps ==
    ASSUME NEW of, SoundOf(of), NEW S, S \subseteq {a \in Agents : Born(of, a)},
           NEW q \in Personas \cup {NoPersona}
    PROVE  SoundOf(Give(of, S, q)) /\ KeepsRecords(of, Give(of, S, q))
<1> DEFINE new == Give(of, S, q)
<1>1. new = [a \in Agents |-> IF a \in S THEN [of[a] EXCEPT !.persona = q] ELSE of[a]] BY DEF Give
<1>2. ASSUME NEW a \in Agents
      PROVE  (new[a] \in {Unborn, Gone} \/ Sound(new[a])) /\ KeepsRecord(of[a], new[a])
  <2>1. CASE a \notin S
    <3>1. new[a] = of[a] BY <1>1, <2>1
    <3>2. KeepsRecord(of[a], of[a]) BY KeepsItself DEF KeepsRecords
    <3> QED BY <3>1, <3>2 DEF SoundOf
  <2>2. CASE a \in S
    <3>1. Sound(of[a]) BY <2>2, BornIsSound
    <3>2. new[a] = [of[a] EXCEPT !.persona = q] BY <1>1, <2>2
    <3> QED BY <3>1, <3>2, AssignKeeps
  <2> QED BY <2>1, <2>2
<1> HIDE DEF new
<1>3. SoundOf(new) BY <1>1, <1>2 DEF SoundOf
<1>4. KeepsRecords(of, new) BY <1>2 DEF KeepsRecords
<1> QED BY <1>3, <1>4 DEF new

-----------------------------------------------------------------------------
(* The commands that are left, and what follows the one that is under way *)

After(k, t) ==
    /\ Head(t) = "loadAgents" => k = "load" /\ Tail(t) = <<"loadPersonas">>
    /\ Head(t) = "loadPersonas" => k = "load" /\ Tail(t) = <<>>
    /\ Head(t) = "readAgents" => k = "evaluate" /\ Tail(t) = <<"readPersonas", "writePair", "mark">>
    /\ Head(t) = "readPersonas" =>
         \/ k = "evaluate" /\ t \in {<<"readPersonas", "writePair", "mark">>, <<"readPersonas", "mark">>}
         \/ k = "agent" /\ t = <<"readPersonas", "writePair">>
    /\ Head(t) = "writePair" =>
         \/ k = "evaluate" /\ t = <<"writePair", "mark">> /\ Tail(t) = <<"mark">>
         \/ k \in {"evaluate", "agent", "persona"} /\ t = <<"writePair">> /\ Tail(t) = <<>>
    /\ Head(t) = "mark" => k = "evaluate" /\ t = <<"mark">> /\ Tail(t) = <<>>
    /\ Head(t) = "writePersonas" => k = "persona" /\ Tail(t) = <<>>
    /\ Head(t) = "commit" => k = "batch" /\ Tail(t) = <<>>

LEMMA HeadOfLeft ==
    ASSUME NEW k, NEW t \in Lefts(k)
    PROVE  t # <<>> /\ After(k, t)
<1>1. CASE k = "load"
  <2>1. t = <<"loadAgents", "loadPersonas">> \/ t = <<"loadPersonas">> BY <1>1 DEF Lefts
  <2>2. CASE t = <<"loadAgents", "loadPersonas">> BY <1>1, <2>2 DEF After
  <2>3. CASE t = <<"loadPersonas">> BY <1>1, <2>3 DEF After
  <2> QED BY <2>1, <2>2, <2>3
<1>2. CASE k = "evaluate"
  <2>1. \/ t = SaveEvaluation \/ t = <<"readPersonas", "writePair", "mark">>
        \/ t = <<"readPersonas", "mark">> \/ t = <<"writePair", "mark">>
        \/ t = <<"writePair">> \/ t = <<"mark">>
    BY <1>2 DEF Lefts
  <2>2. CASE t = SaveEvaluation
    <3>1. t = <<"readAgents", "readPersonas", "writePair", "mark">> BY <2>2 DEF SaveEvaluation
    <3>2. t # <<>> /\ Head(t) = "readAgents" BY <3>1
    <3>3. Tail(t) = <<"readPersonas", "writePair", "mark">> BY <3>1
    <3> QED BY <1>2, <3>2, <3>3 DEF After
  <2>3. CASE t = <<"readPersonas", "writePair", "mark">>
    <3>1. t # <<>> /\ Head(t) = "readPersonas" BY <2>3
    <3> QED BY <1>2, <2>3, <3>1 DEF After
  <2>4. CASE t = <<"readPersonas", "mark">> BY <1>2, <2>4 DEF After
  <2>5. CASE t = <<"writePair", "mark">> BY <1>2, <2>5 DEF After
  <2>6. CASE t = <<"writePair">> BY <1>2, <2>6 DEF After
  <2>7. CASE t = <<"mark">> BY <1>2, <2>7 DEF After
  <2> QED BY <2>1, <2>2, <2>3, <2>4, <2>5, <2>6, <2>7
<1>3. CASE k = "agent"
  <2>1. t = <<"readPersonas", "writePair">> \/ t = <<"writePair">> BY <1>3 DEF Lefts
  <2>2. CASE t = <<"readPersonas", "writePair">> BY <1>3, <2>2 DEF After
  <2>3. CASE t = <<"writePair">> BY <1>3, <2>3 DEF After
  <2> QED BY <2>1, <2>2, <2>3
<1>4. CASE k = "persona"
  <2>1. t = <<"writePersonas">> \/ t = <<"writePair">> BY <1>4 DEF Lefts
  <2>2. CASE t = <<"writePersonas">> BY <1>4, <2>2 DEF After
  <2>3. CASE t = <<"writePair">> BY <1>4, <2>3 DEF After
  <2> QED BY <2>1, <2>2, <2>3
<1>5. CASE k = "batch"
  <2>1. t = <<"commit">> BY <1>5 DEF Lefts
  <2> QED BY <1>5, <2>1 DEF After
<1> QED BY <1>1, <1>2, <1>3, <1>4, <1>5 DEF Lefts

-----------------------------------------------------------------------------
(* A step changes one process *)

\* p is then at x, in the workflow o with the commands t left, and works on m; its
\* window shows v.
Becomes(p, x, o, t, m, v) ==
    /\ at' = [at EXCEPT ![p] = x] /\ op' = [op EXCEPT ![p] = o]
    /\ todo' = [todo EXCEPT ![p] = t] /\ mine' = [mine EXCEPT ![p] = m]
    /\ IF p \in Desktops THEN view' = [view EXCEPT ![p] = v] ELSE view' = view

\* What a step does to the files.
FilesStep ==
    /\ SoundFile(files'.agents) /\ SoundFile(journal'.agents) /\ Advance
    /\ KeepsRecords(Committed.agents.of, Committed'.agents.of)

LEMMA OnlyOneProcess ==
    ASSUME IInv, RecordInv, FilesStep,
           NEW p \in Processes, NEW x, NEW o, NEW t, NEW m, NEW v, Becomes(p, x, o, t, m, v),
           CopyOf(Committed'.agents, m.agents),
           p \in Desktops => /\ CopyOf(Committed'.agents, v.agents)
                             /\ CopyOf(Committed'.agents, v.board.agents),
           WorkOK(p, x, o, t), MarkOK(Committed'.agents.of, x, o, t, m.agents.of),
           \A i \in marks' : i \in marks \/ (i \in Agents \X Keys /\ CountedIn(Committed'.agents.of, i))
    PROVE  RecordInv' /\ FilesStep
<1> DEFINE c == Committed.agents
           d == Committed'.agents
<1>1. /\ SoundFile(c) /\ SoundFile(d) /\ c.rev >= 1 /\ OneRevisionAtATime(c, d) /\ KeepsRecords(c.of, d.of)
  BY DEF RecordInv, Copies, Committed, FilesStep, Advance
<1>2. d.rev >= 1 /\ SoundOf(c.of) /\ SoundOf(d.of) BY <1>1 DEF OneRevisionAtATime, SoundFile
<1>3. \A q \in Processes : /\ at'[q] = (IF q = p THEN x ELSE at[q])
                           /\ op'[q] = (IF q = p THEN o ELSE op[q])
                           /\ todo'[q] = (IF q = p THEN t ELSE todo[q])
                           /\ mine'[q] = (IF q = p THEN m ELSE mine[q])
  BY DEF Becomes, IInv, Shapes, AtShape, MineShape, RecordInv, Workflows
<1>4. \A e \in Desktops : view'[e] = IF e = p THEN v ELSE view[e]
  BY DEF Becomes, IInv, Shapes, ViewShape
<1>5. Copies'
  <2>1. ASSUME NEW q \in Processes PROVE CopyOf(d, mine'[q].agents)
    <3>1. CASE q = p BY <1>3, <3>1
    <3>2. CASE q # p
      <4>1. CopyOf(c, mine[q].agents) BY DEF RecordInv, Copies
      <4>2. CopyOf(d, mine[q].agents) BY <1>1, <4>1, CopyStays
      <4> QED BY <1>3, <3>2, <4>2
    <3> QED BY <3>1, <3>2
  <2>2. ASSUME NEW e \in Desktops PROVE CopyOf(d, view'[e].agents) /\ CopyOf(d, view'[e].board.agents)
    <3>1. CASE e = p BY <1>4, <3>1
    <3>2. CASE e # p
      <4>1. CopyOf(c, view[e].agents) /\ CopyOf(c, view[e].board.agents) BY DEF RecordInv, Copies
      <4>2. CopyOf(d, view[e].agents) BY <1>1, <4>1, CopyStays
      <4>3. CopyOf(d, view[e].board.agents) BY <1>1, <4>1, CopyStays
      <4> QED BY <1>4, <3>2, <4>2, <4>3
    <3> QED BY <3>1, <3>2
  <2> QED BY <1>2, <2>1, <2>2 DEF Copies, FilesStep
<1>6. Workflows'
  <2>1. op' = [q \in Processes |-> op'[q]] /\ todo' = [q \in Processes |-> todo'[q]]
    BY DEF Becomes, RecordInv, Workflows
  <2>2. ASSUME NEW q \in Processes PROVE WorkOK(q, at'[q], op'[q], todo'[q])
    BY <1>3 DEF RecordInv, Workflows
  <2> QED BY <2>1, <2>2 DEF Workflows, WorkOK
<1>7. MarksFollow'
  <2> HIDE DEF c, d
  <2>1. ASSUME NEW q \in Processes
        PROVE  MarkOK(d.of, at'[q], op'[q], todo'[q], mine'[q].agents.of)
    <3>1. CASE q = p BY <1>3, <3>1 DEF d
    <3>2. CASE q # p
      <4>1. MarkOK(c.of, at[q], op[q], todo[q], mine[q].agents.of) BY DEF RecordInv, MarksFollow, c
      <4>2. op[q].items \subseteq Agents \X Keys BY DEF RecordInv, Workflows, WorkOK
      <4>3. \A i \in op[q].items : CountedIn(c.of, i) => CountedIn(d.of, i)
        BY <1>1, <1>2, <4>2, CountedStays
      <4>4. MarkOK(d.of, at[q], op[q], todo[q], mine[q].agents.of) BY <4>1, <4>3 DEF MarkOK
      <4> QED BY <1>3, <3>2, <4>4
    <3> QED BY <3>1, <3>2
  <2>2. ASSUME NEW i \in marks' PROVE i \in Agents \X Keys /\ CountedIn(d.of, i)
    <3>1. CASE i \in marks
      <4>1. i \in Agents \X Keys /\ CountedIn(c.of, i) BY <3>1 DEF RecordInv, MarksFollow, c
      <4> QED BY <1>1, <1>2, <4>1, CountedStays
    <3> QED BY <3>1 DEF d
  <2> QED BY <2>1, <2>2 DEF MarksFollow, MarkOK, CountedIn, d
<1> QED BY <1>5, <1>6, <1>7 DEF RecordInv

\* A step that leaves what is committed: marks and files apart, only p changes.
LEMMA CommittedStays ==
    ASSUME IInv, RecordInv, Committed'.agents = Committed.agents, Advance,
           SoundFile(files'.agents), SoundFile(journal'.agents)
    PROVE  FilesStep
<1>1. SoundOf(Committed.agents.of) BY DEF RecordInv, Copies, Committed, SoundFile
<1> QED BY <1>1, KeepsItself DEF FilesStep

-----------------------------------------------------------------------------
(* Beginning, answering and failing keep the records *)

\* A desktop that shows other personas beside the same agents.
LEMMA PersonasApart ==
    ASSUME NEW v, IsView(v), NEW f, NEW u
    PROVE  /\ [v EXCEPT !.board.personas = f].agents = v.agents
           /\ [v EXCEPT !.board.personas = f].board.agents = v.board.agents
           /\ [v EXCEPT !.board.personas = f, !.unsaved = u].agents = v.agents
           /\ [v EXCEPT !.board.personas = f, !.unsaved = u].board.agents = v.board.agents
<1> DEFINE b == v.board
           d == [b EXCEPT !.personas = f]
<1>1. b = [agents |-> b.agents, personas |-> b.personas] BY DEF IsView, IsPair
<1> HIDE DEF b
<1>2. d.agents = b.agents BY <1>1
<1> HIDE DEF d
<1>3. [v EXCEPT !.board.personas = f] = [agents |-> v.agents, board |-> d, unsaved |-> v.unsaved]
  BY PersonasView DEF d, b
<1>4. [v EXCEPT !.board.personas = f, !.unsaved = u] = [agents |-> v.agents, board |-> d, unsaved |-> u]
  BY ReloadedView DEF d, b
<1> QED BY <1>2, <1>3, <1>4 DEF b

LEMMA NoOpWith ==
    ASSUME NEW s
    PROVE  [NoOp EXCEPT !.items = s] = [kind |-> "none", items |-> s]
  BY DEF NoOp

\* What is in the invariants about one process.
LEMMA OfProcess ==
    ASSUME IInv, RecordInv, NEW p \in Processes
    PROVE  /\ WorkOK(p, at[p], op[p], todo[p])
           /\ MarkOK(Committed.agents.of, at[p], op[p], todo[p], mine[p].agents.of)
           /\ IsPair(mine[p]) /\ CopyOf(Committed.agents, mine[p].agents)
           /\ p \in Desktops => /\ IsView(view[p])
                                /\ CopyOf(Committed.agents, view[p].agents)
                                /\ CopyOf(Committed.agents, view[p].board.agents)
           /\ at = [at EXCEPT ![p] = at[p]] /\ op = [op EXCEPT ![p] = op[p]]
           /\ todo = [todo EXCEPT ![p] = todo[p]] /\ mine = [mine EXCEPT ![p] = mine[p]]
           /\ p \in Desktops => view = [view EXCEPT ![p] = view[p]]
<1>1. WorkOK(p, at[p], op[p], todo[p]) BY DEF RecordInv, Workflows
<1>2. MarkOK(Committed.agents.of, at[p], op[p], todo[p], mine[p].agents.of) BY DEF RecordInv, MarksFollow
<1>3. IsPair(mine[p]) /\ CopyOf(Committed.agents, mine[p].agents) BY DEF IInv, Shapes, MineShape, RecordInv, Copies
<1>4. p \in Desktops => /\ IsView(view[p]) /\ CopyOf(Committed.agents, view[p].agents)
                        /\ CopyOf(Committed.agents, view[p].board.agents)
                        /\ view = [view EXCEPT ![p] = view[p]]
  BY DEF IInv, Shapes, ViewShape, RecordInv, Copies
<1>5. at = [at EXCEPT ![p] = at[p]] /\ mine = [mine EXCEPT ![p] = mine[p]]
  BY DEF IInv, Shapes, AtShape, MineShape
<1>6. op = [op EXCEPT ![p] = op[p]] /\ todo = [todo EXCEPT ![p] = todo[p]] BY DEF RecordInv, Workflows
<1> QED BY <1>1, <1>2, <1>3, <1>4, <1>5, <1>6

LEMMA NothingCommitted ==
    ASSUME IInv, RecordInv, UNCHANGED <<files, pending, journal>>
    PROVE  FilesStep /\ Committed' = Committed
<1>1. Committed' = Committed BY DEF Committed
<1>2. Advance BY NothingWritten DEF IInv
<1>3. SoundFile(files'.agents) /\ SoundFile(journal'.agents) BY DEF RecordInv, Copies
<1> QED BY <1>1, <1>2, <1>3, CommittedStays

LEMMA AnswerKeeps ==
    ASSUME IInv, RecordInv, FilesStep, NEW p \in Processes, Working(at[p]),
           NEW left, NEW pair, Answer(p, left, pair), CopyOf(Committed'.agents, pair.agents),
           left = <<>> \/ left \in Lefts(op[p].kind),
           op[p].kind = "evaluate" /\ left # <<>> =>
               \A i \in op[p].items : \/ CountedIn(Committed'.agents.of, i)
                                      \/ left \in BeforeMark /\ CountedIn(pair.agents.of, i),
           NEW v, IF p \in Desktops THEN view' = [view EXCEPT ![p] = v] ELSE view' = view,
           p \in Desktops => /\ CopyOf(Committed'.agents, v.agents)
                             /\ CopyOf(Committed'.agents, v.board.agents),
           \A i \in marks' : i \in marks \/ (i \in Agents \X Keys /\ CountedIn(Committed'.agents.of, i))
    PROVE  RecordInv' /\ FilesStep
<1>0. WorkOK(p, at[p], op[p], todo[p]) /\ op = [op EXCEPT ![p] = op[p]] BY OfProcess
<1>1. CASE left = <<>>
  <2> DEFINE o == [NoOp EXCEPT !.items = {}]
  <2>1. /\ at' = [at EXCEPT ![p] = "idle"] /\ op' = [op EXCEPT ![p] = o]
        /\ todo' = [todo EXCEPT ![p] = left] /\ mine' = [mine EXCEPT ![p] = Empty]
    BY <1>1 DEF Answer, Leave, Move
  <2>2. Becomes(p, "idle", o, left, Empty, v) BY <2>1 DEF Becomes
  <2>3. o = [kind |-> "none", items |-> {}] BY NoOpWith
  <2> HIDE DEF o
  <2>4. ~Working("idle") /\ ~Committing("idle") BY DEF Working, Committing
  <2>5. WorkOK(p, "idle", o, left) BY <2>3, <2>4 DEF WorkOK
  <2>6. MarkOK(Committed'.agents.of, "idle", o, left, Empty.agents.of) BY <2>4 DEF MarkOK
  <2>8. SoundFile(Committed'.agents) /\ Committed'.agents.rev >= 1
    BY DEF FilesStep, Advance, OneRevisionAtATime, Committed, RecordInv, Copies, SoundFile
  <2>9. CopyOf(Committed'.agents, Empty.agents) BY <2>8, EmptyIsCopy
  <2> QED BY <2>2, <2>5, <2>6, <2>9, OnlyOneProcess
<1>2. CASE left # <<>>
  <2>1. /\ at' = [at EXCEPT ![p] = "asks"] /\ op' = [op EXCEPT ![p] = op[p]]
        /\ todo' = [todo EXCEPT ![p] = left] /\ mine' = [mine EXCEPT ![p] = pair]
    BY <1>0, <1>2 DEF Answer, Move
  <2>2. Becomes(p, "asks", op[p], left, pair, v) BY <2>1 DEF Becomes
  <2>3. ~Committing("asks") BY DEF Committing
  <2>4. WorkOK(p, "asks", op[p], left) BY <1>0, <1>2, <2>3 DEF WorkOK
  <2>5. MarkOK(Committed'.agents.of, "asks", op[p], left, pair.agents.of) BY <1>2, <2>3 DEF MarkOK
  <2> QED BY <2>2, <2>4, <2>5, OnlyOneProcess
<1> QED BY <1>1, <1>2

LEMMA FailedKeeps ==
    ASSUME IInv, RecordInv, NEW p \in Processes, Working(at[p]), Failed(p),
           UNCHANGED <<files, pending, journal, marks>>
    PROVE  RecordInv' /\ FilesStep
<1> DEFINE c == Committed.agents
<1>0. FilesStep /\ Committed' = Committed BY NothingCommitted
<1>1. /\ WorkOK(p, at[p], op[p], todo[p]) /\ op = [op EXCEPT ![p] = op[p]] /\ IsPair(mine[p])
      /\ mine = [mine EXCEPT ![p] = mine[p]]
      /\ CopyOf(c, mine[p].agents)
  BY OfProcess
<1>2. SoundFile(c) /\ c.rev >= 1 BY DEF Committed, RecordInv, Copies
<1>3. CopyOf(c, Empty.agents) BY <1>2, EmptyIsCopy
<1>4. \E v : /\ IF p \in Desktops THEN view' = [view EXCEPT ![p] = v] ELSE view' = view
             /\ p \in Desktops => CopyOf(c, v.agents) /\ CopyOf(c, v.board.agents)
  <2>1. CASE p \notin Desktops BY <2>1 DEF Failed
  <2>2. CASE p \in Desktops
    <3> DEFINE e == Empty.agents
               loose == [view[p] EXCEPT !.agents = e, !.board.agents = e]
               blind == [view[p] EXCEPT !.board.personas = Empty.personas, !.unsaved = FALSE]
               alone == [view[p] EXCEPT !.board.personas = mine[p].personas]
               both  == [view[p] EXCEPT !.board = mine[p], !.unsaved = TRUE]
               some  == [view[p] EXCEPT !.agents = mine[p].agents]
    <3>1. \E v \in {loose, blind, alone, both, some, view[p]} : view' = [view EXCEPT ![p] = v]
      BY <2>2 DEF Failed
    <3>2. IsView(view[p]) /\ CopyOf(c, view[p].agents) /\ CopyOf(c, view[p].board.agents)
      BY <2>2, OfProcess
    <3>3. loose.agents = e /\ loose.board.agents = e
      <4> DEFINE b == view[p].board
                 d == [b EXCEPT !.agents = e]
      <4>1. b = [agents |-> b.agents, personas |-> b.personas] BY <3>2 DEF IsView, IsPair
      <4>2. loose = [agents |-> e, board |-> d, unsaved |-> view[p].unsaved] BY <3>2, EmptiedView
      <4> HIDE DEF b, loose
      <4>3. d.agents = e BY <4>1
      <4> QED BY <4>2, <4>3
    <3>4. blind.agents = view[p].agents /\ blind.board.agents = view[p].board.agents
      BY <3>2, PersonasApart
    <3>12. alone.agents = view[p].agents /\ alone.board.agents = view[p].board.agents
      BY <3>2, PersonasApart
    <3>5. both.agents = view[p].agents /\ both.board.agents = mine[p].agents BY <3>2, BoardView
    <3>6. some.agents = mine[p].agents /\ some.board.agents = view[p].board.agents BY <3>2, AgentsView
    <3> HIDE DEF loose, blind, alone, both, some
    <3> HIDE DEF c
    <3>7. CopyOf(c, loose.agents) /\ CopyOf(c, loose.board.agents) BY <1>3, <3>3
    <3>8. CopyOf(c, blind.agents) /\ CopyOf(c, blind.board.agents) BY <3>2, <3>4
    <3>9. CopyOf(c, alone.agents) /\ CopyOf(c, alone.board.agents) BY <3>2, <3>12
    <3>10. CopyOf(c, both.agents) /\ CopyOf(c, both.board.agents) BY <1>1, <3>2, <3>5
    <3>11. CopyOf(c, some.agents) /\ CopyOf(c, some.board.agents) BY <1>1, <3>2, <3>6
    <3> QED BY <2>2, <3>1, <3>2, <3>7, <3>8, <3>9, <3>10, <3>11
  <2> QED BY <2>1, <2>2
<1>5. PICK v : /\ IF p \in Desktops THEN view' = [view EXCEPT ![p] = v] ELSE view' = view
               /\ p \in Desktops => CopyOf(c, v.agents) /\ CopyOf(c, v.board.agents)
  BY <1>4
<1>6. \A i \in marks' : i \in marks OBVIOUS
<1>9. /\ CopyOf(Committed'.agents, mine[p].agents) /\ CopyOf(Committed'.agents, Empty.agents)
      /\ p \in Desktops => /\ CopyOf(Committed'.agents, v.agents)
                           /\ CopyOf(Committed'.agents, v.board.agents)
  BY <1>0, <1>1, <1>3, <1>5
<1> HIDE DEF c
<1>7. CASE Head(todo[p]) = "loadAgents"
  <2>1. /\ at' = [at EXCEPT ![p] = "asks"] /\ op' = [op EXCEPT ![p] = op[p]]
        /\ todo' = [todo EXCEPT ![p] = Tail(todo[p])] /\ mine' = [mine EXCEPT ![p] = mine[p]]
    BY <1>1, <1>7 DEF Failed, Move
  <2>2. Becomes(p, "asks", op[p], Tail(todo[p]), mine[p], v) BY <1>5, <2>1 DEF Becomes
  <2>3. After(op[p].kind, todo[p]) BY <1>1, HeadOfLeft DEF WorkOK
  <2>4. op[p].kind = "load" /\ Tail(todo[p]) = <<"loadPersonas">> BY <1>7, <2>3 DEF After
  <2>5. Tail(todo[p]) \in Lefts(op[p].kind) BY <2>4 DEF Lefts
  <2>6. WorkOK(p, "asks", op[p], Tail(todo[p])) BY <1>1, <2>5 DEF WorkOK, Committing
  <2>7. MarkOK(Committed'.agents.of, "asks", op[p], Tail(todo[p]), mine[p].agents.of) BY <2>4 DEF MarkOK
  <2> QED BY <1>0, <1>6, <1>9, <2>2, <2>6, <2>7, OnlyOneProcess
<1>8. CASE Head(todo[p]) # "loadAgents"
  <2>1. PICK x \in {"idle", "failed"} : Leave(p, x) BY <1>8 DEF Failed
  <2> DEFINE o == [NoOp EXCEPT !.items = IF x = "failed" THEN op[p].items ELSE {}]
  <2>2. /\ at' = [at EXCEPT ![p] = x] /\ op' = [op EXCEPT ![p] = o]
        /\ todo' = [todo EXCEPT ![p] = <<>>] /\ mine' = [mine EXCEPT ![p] = Empty]
    BY <1>8, <2>1 DEF Failed, Leave, Move
  <2>3. Becomes(p, x, o, <<>>, Empty, v) BY <1>5, <2>2 DEF Becomes
  <2>4. o.kind = "none" /\ o = [kind |-> o.kind, items |-> o.items] BY DEF NoOp
  <2>9. o.items \subseteq Agents \X Keys
    <3>1. o.items = IF x = "failed" THEN op[p].items ELSE {} BY DEF NoOp
    <3> QED BY <1>1, <3>1 DEF WorkOK
  <2> HIDE DEF o
  <2>5. ~Working(x) /\ ~Committing(x) BY DEF Working, Committing
  <2>6. WorkOK(p, x, o, <<>>) BY <2>4, <2>5, <2>9 DEF WorkOK
  <2>7. MarkOK(Committed'.agents.of, x, o, <<>>, Empty.agents.of) BY <2>5 DEF MarkOK
  <2> QED BY <1>0, <1>6, <1>9, <2>3, <2>6, <2>7, OnlyOneProcess
<1> QED BY <1>7, <1>8

LEMMA BeginKeeps ==
    ASSUME IInv, RecordInv, NEW p \in Processes, NEW kind, NEW items, NEW pair, NEW commands,
           Begin(p, kind, items, pair, commands),
           CopyOf(Committed.agents, pair.agents), items \subseteq Agents \X Keys,
           commands \in Lefts(kind), kind = "batch" <=> p \notin Desktops,
           kind = "evaluate" => commands = SaveEvaluation
    PROVE  RecordInv' /\ FilesStep
<1> DEFINE o == [kind |-> kind, items |-> items]
<1>0. FilesStep /\ Committed' = Committed BY NothingCommitted DEF Begin
<1>1. /\ at' = [at EXCEPT ![p] = "asks"] /\ op' = [op EXCEPT ![p] = o]
      /\ todo' = [todo EXCEPT ![p] = commands] /\ mine' = [mine EXCEPT ![p] = pair]
      /\ view' = view /\ marks' = marks
  BY DEF Begin
<1>2. /\ p \in Desktops => view = [view EXCEPT ![p] = view[p]]
      /\ p \in Desktops => /\ CopyOf(Committed.agents, view[p].agents)
                           /\ CopyOf(Committed.agents, view[p].board.agents)
  BY OfProcess
<1>3. Becomes(p, "asks", o, commands, pair, view[p]) BY <1>1, <1>2 DEF Becomes
<1>4. WorkOK(p, "asks", o, commands) BY DEF WorkOK, Committing
<1>5. MarkOK(Committed'.agents.of, "asks", o, commands, pair.agents.of) BY DEF MarkOK
<1> HIDE DEF o
<1> QED BY <1>0, <1>1, <1>2, <1>3, <1>4, <1>5, OnlyOneProcess

-----------------------------------------------------------------------------
(* What the panels and the command line begin *)

LEMMA CommittedIsSound ==
    ASSUME IInv, RecordInv
    PROVE  /\ SoundFile(Committed.agents) /\ IsFile(Committed.agents) /\ Committed.agents.rev >= 1
           /\ IsPair(Committed)
           /\ CopyOf(Committed.agents, Empty.agents) /\ CopyOf(Committed.agents, Committed.agents)
<1>1. SoundFile(Committed.agents) /\ Committed.agents.rev >= 1 BY DEF Committed, RecordInv, Copies
<1>2. IsPair(Committed) BY DEF Committed, IInv, Shapes
<1>3. IsFile(Committed.agents) BY <1>2 DEF IsPair
<1> QED BY <1>1, <1>2, <1>3, EmptyIsCopy, CopyOfItself

LEMMA EditAgentKeeps ==
    ASSUME IInv, RecordInv, NEW p \in Desktops, NEW a \in Agents, NEW r, EditAgent(p, a, r),
           r = Gone \/ Sound(r), KeepsRecord(view[p].agents.of[a], r)
    PROVE  RecordInv' /\ FilesStep
<1> DEFINE c == Committed.agents
           f == [view[p].agents EXCEPT !.of[a] = r]
           pair == [Empty EXCEPT !.agents = f]
<1>0. p \in Processes BY DEF Processes
<1>1. SoundFile(c) /\ CopyOf(c, view[p].agents) BY <1>0, CommittedIsSound, OfProcess
<1>2. CopyOf(c, f) BY <1>1, CopyWithRecord
<1>3. Begin(p, "agent", {}, pair, <<"readPersonas", "writePair">>) BY DEF EditAgent
<1> HIDE DEF f
<1>4. pair.agents = f BY DEF Empty
<1> HIDE DEF pair
<1>5. <<"readPersonas", "writePair">> \in Lefts("agent") BY DEF Lefts
<1> QED BY <1>0, <1>2, <1>3, <1>4, <1>5, BeginKeeps

LEMMA ResetFields ==
    ASSUME NEW k, NEW n, NEW q, NEW m, NEW none, NEW r, NEW s,
           r = [keys |-> k, count |-> n, persona |-> q, resets |-> m],
           s = [r EXCEPT !.keys = none, !.count = 0, !.resets = @ + 1]
    PROVE  s = [keys |-> none, count |-> 0, persona |-> q, resets |-> m + 1]
<1> DEFINE a == [keys |-> none, count |-> n, persona |-> q, resets |-> m]
           b == [keys |-> none, count |-> 0, persona |-> q, resets |-> m]
<1>1. [r EXCEPT !.keys = none] = a OBVIOUS
<1>2. [a EXCEPT !.count = 0] = b OBVIOUS
<1>3. [b EXCEPT !.resets = @ + 1] = [keys |-> none, count |-> 0, persona |-> q, resets |-> m + 1] OBVIOUS
<1>4. s = [[[r EXCEPT !.keys = none] EXCEPT !.count = 0] EXCEPT !.resets = @ + 1] OBVIOUS
<1> HIDE DEF a, b
<1> QED BY <1>1, <1>2, <1>3, <1>4

LEMMA AgentsPanelKeeps ==
    ASSUME IInv, RecordInv, NEW p \in Desktops, NEW a \in Agents,
           SaveAgent(p, a) \/ RemoveAgent(p, a) \/ ResetAgent(p, a)
    PROVE  RecordInv' /\ FilesStep
<1> DEFINE of == view[p].agents.of
<1>0. p \in Processes BY DEF Processes
<1>1. SoundOf(of) BY <1>0, OfProcess DEF CopyOf, SoundFile
<1>2. Born(of, a) => Sound(of[a]) BY <1>1, BornIsSound
<1>3. CASE SaveAgent(p, a)
  <2>1. PICK q \in Personas \cup {NoPersona} :
           \/ Born(of, a) /\ EditAgent(p, a, [of[a] EXCEPT !.persona = q])
           \/ of[a] = Unborn /\ EditAgent(p, a, NewAgent(q))
    BY <1>3 DEF SaveAgent
  <2>2. CASE Born(of, a) /\ EditAgent(p, a, [of[a] EXCEPT !.persona = q])
    BY <1>2, <2>2, AssignKeeps, EditAgentKeeps
  <2>3. CASE of[a] = Unborn /\ EditAgent(p, a, NewAgent(q))
    <3>1. KeepsRecord(of[a], NewAgent(q)) BY <2>3, RecordAssumption DEF KeepsRecord
    <3> QED BY <2>3, <3>1, NewAgentIsSound, EditAgentKeeps
  <2> QED BY <2>1, <2>2, <2>3
<1>4. CASE RemoveAgent(p, a)
  <2>1. Born(of, a) /\ EditAgent(p, a, Gone) BY <1>4 DEF RemoveAgent
  <2>2. KeepsRecord(of[a], Gone) BY DEF KeepsRecord
  <2> QED BY <2>1, <2>2, EditAgentKeeps
<1>5. CASE ResetAgent(p, a)
  <2> DEFINE r == of[a]
             s == [r EXCEPT !.keys = {}, !.count = 0, !.resets = @ + 1]
  <2>1. Born(of, a) /\ EditAgent(p, a, s) BY <1>5 DEF ResetAgent
  <2>2. Sound(r) BY <1>2, <2>1
  <2> HIDE DEF r
  <2>3. r \in AgentRecord BY <2>2 DEF Sound
  <2>4. s \in AgentRecord /\ s.keys = {} /\ s.count = 0 /\ s.resets = r.resets + 1 /\ r.resets \in Nat
    <3>1. r = [keys |-> r.keys, count |-> r.count, persona |-> r.persona, resets |-> r.resets]
          /\ r.persona \in Personas \cup {NoPersona} /\ r.resets \in Nat
      BY <2>3 DEF AgentRecord
    <3>2. s = [keys |-> {}, count |-> 0, persona |-> r.persona, resets |-> r.resets + 1]
      <4>1. s = [r EXCEPT !.keys = {}, !.count = 0, !.resets = @ + 1] OBVIOUS
      <4> HIDE DEF s
      <4> QED BY <3>1, <4>1, ResetFields
    <3> HIDE DEF s
    <3>3. {} \in SUBSET Keys OBVIOUS
    <3> QED BY <3>1, <3>2, <3>3 DEF AgentRecord
  <2> HIDE DEF s
  <2>5. Sound(s) BY <2>4, FS_EmptySet DEF Sound
  <2>6. s \notin {Unborn, Gone} /\ r \notin {Unborn, Gone} BY <2>3, <2>4, RecordAssumption
  <2>7. KeepsRecord(r, s) BY <2>4, <2>6 DEF KeepsRecord
  <2>8. KeepsRecord(of[a], s) BY <2>7 DEF r
  <2> QED BY <2>1, <2>5, <2>8, EditAgentKeeps
<1> QED BY <1>3, <1>4, <1>5

LEMMA PersonasPanelKeeps ==
    ASSUME IInv, RecordInv, NEW p \in Desktops, NEW q \in Personas,
           SavePersona(p, q) \/ RemovePersona(p, q)
    PROVE  RecordInv' /\ FilesStep
<1> DEFINE c == Committed.agents
           board == view[p].board
<1>0. p \in Processes BY DEF Processes
<1>1. SoundFile(c) /\ CopyOf(c, board.agents) /\ IsPair(board)
  BY <1>0, CommittedIsSound, OfProcess DEF IsView
<1>2. SoundOf(board.agents.of) /\ IsFile(board.agents) BY <1>1 DEF CopyOf, SoundFile
<1>3. <<"writePersonas">> \in Lefts("persona") /\ <<"writePair">> \in Lefts("persona") BY DEF Lefts
<1>4. ASSUME NEW S, S \subseteq {a \in Agents : Born(board.agents.of, a)},
             NEW r \in Personas \cup {NoPersona}
      PROVE  CopyOf(c, [board.agents EXCEPT !.of = Give(board.agents.of, S, r)])
  <2>1. SoundOf(Give(board.agents.of, S, r)) /\ KeepsRecords(board.agents.of, Give(board.agents.of, S, r))
    BY <1>2, <1>4, GiveKeeps
  <2> QED BY <1>1, <2>1, CopyWith
<1>5. ASSUME NEW pair, NEW commands \in {<<"writePersonas">>, <<"writePair">>},
             Begin(p, "persona", {}, pair, commands), CopyOf(c, pair.agents)
      PROVE  RecordInv' /\ FilesStep
  BY <1>0, <1>3, <1>5, BeginKeeps
<1>6. CASE SavePersona(p, q)
  <2> DEFINE saved == [board.personas EXCEPT !.of[q] = IF @ = Unborn THEN 0 ELSE @]
             alone == [board EXCEPT !.personas = saved]
             given(S) == [agents   |-> [board.agents EXCEPT !.of = Give(board.agents.of, S, q)],
                          personas |-> Sync(saved, Give(board.agents.of, S, q))]
  <2>1. PICK S \in SUBSET Assigned(board.agents.of, NoPersona) :
           IF S = {} THEN Begin(p, "persona", {}, alone, <<"writePersonas">>)
           ELSE Begin(p, "persona", {}, given(S), <<"writePair">>)
    BY <1>6 DEF SavePersona
  <2>2. S \subseteq {a \in Agents : Born(board.agents.of, a)} BY <2>1 DEF Assigned
  <2>3. alone.agents = board.agents BY <1>1 DEF IsPair
  <2>4. CopyOf(c, given(S).agents) BY <1>4, <2>2
  <2>5. CopyOf(c, alone.agents) BY <1>1, <2>3
  <2> HIDE DEF alone, given
  <2> QED BY <1>5, <2>1, <2>4, <2>5, SMTT(60)
<1>7. CASE RemovePersona(p, q)
  <2> DEFINE orphans == Assigned(board.agents.of, q)
             left == [board EXCEPT !.agents.of = Give(@, orphans, NoPersona), !.personas.of[q] = Gone]
             fewer == [board.agents EXCEPT !.of = Give(board.agents.of, orphans, NoPersona)]
  <2>1. PICK commands \in {<<"writePersonas">>, <<"writePair">>} : Begin(p, "persona", {}, left, commands)
    BY <1>7 DEF RemovePersona
  <2>2. left.agents = fewer
    <3> DEFINE b == board
    <3>1. b = [agents |-> b.agents, personas |-> b.personas] BY <1>1 DEF IsPair
    <3>2. [b EXCEPT !.agents.of = Give(@, orphans, NoPersona)] = [agents |-> fewer, personas |-> b.personas]
      BY <3>1
    <3>3. left = [[b EXCEPT !.agents.of = Give(@, orphans, NoPersona)] EXCEPT !.personas.of[q] = Gone]
      BY <3>1
    <3> HIDE DEF left, fewer
    <3> QED BY <3>2, <3>3
  <2>3. orphans \subseteq {a \in Agents : Born(board.agents.of, a)} BY DEF Assigned
  <2>4. CopyOf(c, fewer) BY <1>4, <2>3
  <2>5. CopyOf(c, left.agents) BY <2>2, <2>4
  <2> HIDE DEF left
  <2> QED BY <1>5, <2>1, <2>5
<1> QED BY <1>6, <1>7

LEMMA StartKeeps ==
    ASSUME IInv, RecordInv, NEW p \in Processes, Start(p)
    PROVE  RecordInv' /\ FilesStep
<1>1. CopyOf(Committed.agents, Empty.agents) BY CommittedIsSound
<1>2. /\ <<"loadAgents", "loadPersonas">> \in Lefts("load") /\ SaveEvaluation \in Lefts("evaluate")
      /\ <<"commit">> \in Lefts("batch")
  BY DEF Lefts
<1>4. CASE p \notin Desktops
  <2>1. PICK items \in SUBSET (Agents \X Keys) : Begin(p, "batch", items, Empty, <<"commit">>)
    BY <1>4 DEF Start, EvaluateBatch
  <2> QED BY <1>1, <1>2, <1>4, <2>1, BeginKeeps
<1>5. CASE p \in Desktops
  <2>0. p \notin Clis BY <1>5, ProcessAssumption
  <2>1. CASE Load(p) BY <1>1, <1>2, <1>5, <2>1, BeginKeeps DEF Load
  <2>2. CASE Retry(p)
    <3>1. op[p].items \subseteq Agents \X Keys BY OfProcess DEF WorkOK
    <3>2. Begin(p, "evaluate", op[p].items, Empty, SaveEvaluation) BY <2>2 DEF Retry
    <3> QED BY <1>1, <1>2, <1>5, <3>1, <3>2, BeginKeeps
  <2>3. ASSUME NEW a \in Agents, SaveAgent(p, a) \/ RemoveAgent(p, a) \/ ResetAgent(p, a)
        PROVE  RecordInv' /\ FilesStep
    BY <1>5, <2>3, AgentsPanelKeeps
  <2>4. ASSUME NEW a \in Agents, NEW k \in Keys, Evaluate(p, a, k) PROVE RecordInv' /\ FilesStep
    <3>1. Begin(p, "evaluate", {<<a, k>>}, Empty, SaveEvaluation) BY <2>4 DEF Evaluate
    <3>2. {<<a, k>>} \subseteq Agents \X Keys OBVIOUS
    <3> QED BY <1>1, <1>2, <1>5, <3>1, <3>2, BeginKeeps
  <2>5. ASSUME NEW q \in Personas, SavePersona(p, q) \/ RemovePersona(p, q) PROVE RecordInv' /\ FilesStep
    BY <1>5, <2>5, PersonasPanelKeeps
  <2> QED BY <1>5, <2>0, <2>1, <2>2, <2>3, <2>4, <2>5 DEF Start
<1> QED BY <1>4, <1>5

-----------------------------------------------------------------------------
(* The steps of a command *)

\* p goes on within a command, and what is committed stays.
LEMMA MoveKeeps ==
    ASSUME IInv, RecordInv, FilesStep, Committed' = Committed, NEW p \in Processes, Working(at[p]),
           NEW x, at' = [at EXCEPT ![p] = x], Working(x), Committing(x) <=> Committing(at[p]),
           UNCHANGED <<op, todo, mine, view, marks>>
    PROVE  RecordInv' /\ FilesStep
<1>1. /\ WorkOK(p, at[p], op[p], todo[p])
      /\ MarkOK(Committed.agents.of, at[p], op[p], todo[p], mine[p].agents.of)
      /\ CopyOf(Committed.agents, mine[p].agents)
      /\ p \in Desktops => /\ CopyOf(Committed.agents, view[p].agents)
                           /\ CopyOf(Committed.agents, view[p].board.agents)
      /\ Becomes(p, x, op[p], todo[p], mine[p], view[p])
  BY OfProcess DEF Becomes
<1>2. WorkOK(p, x, op[p], todo[p]) BY <1>1 DEF WorkOK
<1>3. MarkOK(Committed'.agents.of, x, op[p], todo[p], mine[p].agents.of) BY <1>1 DEF MarkOK
<1>5. /\ CopyOf(Committed'.agents, mine[p].agents)
      /\ p \in Desktops => /\ CopyOf(Committed'.agents, view[p].agents)
                           /\ CopyOf(Committed'.agents, view[p].board.agents)
  BY <1>1
<1> QED BY <1>1, <1>2, <1>3, <1>5, OnlyOneProcess

LEMMA AcquireKeeps ==
    ASSUME IInv, RecordInv, NEW p \in Processes, Acquire(p)
    PROVE  RecordInv' /\ FilesStep
<1>1. FilesStep /\ Committed' = Committed BY NothingCommitted DEF Acquire
<1>2. PICK x \in {"inside", "replayAgents"} : at' = [at EXCEPT ![p] = x] BY DEF Acquire, Move
<1>3. Working(x) /\ ~Committing(x) /\ Working(at[p]) /\ ~Committing(at[p])
  BY DEF Acquire, Working, Committing
<1>4. UNCHANGED <<op, todo, mine, view, marks>> BY DEF Acquire
<1> QED BY <1>1, <1>2, <1>3, <1>4, MoveKeeps

LEMMA PutKeeps ==
    ASSUME IInv, RecordInv, NEW p \in Processes, PutAgents(p) \/ PutPersonas(p)
    PROVE  RecordInv' /\ FilesStep
<1>1. at[p] \in {"replayAgents", "commitAgents", "replayPersonas", "commitPersonas"}
  BY DEF PutAgents, PutPersonas
<1>2. pending BY <1>1 DEF IInv, Progresses, Progress, Holding
<1>3. UNCHANGED <<pending, journal, op, todo, mine, view, marks>> BY DEF PutAgents, PutPersonas
<1>4. Committed' = Committed BY <1>2, <1>3 DEF Committed
<1>5. files'.agents = files.agents \/ files'.agents = journal.agents
  BY DEF PutAgents, PutPersonas, IInv, Shapes, IsPair
<1>6. SoundFile(files'.agents) /\ SoundFile(journal'.agents) BY <1>3, <1>5 DEF RecordInv, Copies
<1>7. FilesStep BY <1>4, <1>6, PutStep, CommittedStays
<1>8. PICK x \in {"replayPersonas", "commitPersonas", "replayUnlink", "commitUnlink"} :
         at' = [at EXCEPT ![p] = x] /\ (Committing(x) <=> Committing(at[p]))
  BY DEF PutAgents, PutPersonas, Move, Committing
<1>9. Working(x) /\ Working(at[p]) BY <1>1 DEF Working
<1> QED BY <1>3, <1>4, <1>7, <1>8, <1>9, MoveKeeps

\* The journal that was written out is removed.
LEMMA UnlinkKeeps ==
    ASSUME IInv, RecordInv, NEW p \in Processes, at[p] \in {"replayUnlink", "commitUnlink"}, Unlink,
           UNCHANGED files, Advance
    PROVE  FilesStep /\ Committed' = Committed /\ Committed = journal
<1>1. pending /\ files = journal BY DEF IInv, Progresses, Progress, Holding
<1>2. Committed' = Committed /\ Committed = journal BY <1>1 DEF Unlink, Committed
<1>3. SoundFile(Empty.agents) BY CommittedIsSound DEF CopyOf
<1>4. SoundFile(files'.agents) /\ SoundFile(journal'.agents) BY <1>3 DEF Unlink, RecordInv, Copies
<1> QED BY <1>2, <1>4, CommittedStays

LEMMA ReplayedKeeps ==
    ASSUME IInv, RecordInv, NEW p \in Processes, Replayed(p)
    PROVE  RecordInv' /\ FilesStep
<1>1. at[p] = "replayUnlink" /\ Unlink /\ UNCHANGED files /\ at' = [at EXCEPT ![p] = "inside"]
      /\ UNCHANGED <<op, todo, mine, view, marks>>
  BY DEF Replayed, Move
<1>2. FilesStep /\ Committed' = Committed BY <1>1, ReplayedStep, UnlinkKeeps
<1>3. Working("inside") /\ ~Committing("inside") /\ Working(at[p]) /\ ~Committing(at[p])
  BY <1>1 DEF Working, Committing
<1> QED BY <1>1, <1>2, <1>3, MoveKeeps

LEMMA PairWrittenKeeps ==
    ASSUME IInv, RecordInv, NEW p \in Processes, PairWritten(p)
    PROVE  RecordInv' /\ FilesStep
<1> DEFINE v == [agents |-> journal.agents, board |-> journal, unsaved |-> FALSE]
<1>1. at[p] = "commitUnlink" /\ Unlink /\ Answer(p, Tail(todo[p]), mine[p]) /\ UNCHANGED <<files, marks>>
  BY DEF PairWritten, Continue
<1>2. FilesStep /\ Committed' = Committed /\ Committed = journal BY <1>1, PairWrittenStep, UnlinkKeeps
<1>3. IF p \in Desktops THEN view' = [view EXCEPT ![p] = v] ELSE view' = view BY DEF PairWritten
<1>4. CopyOf(Committed'.agents, v.agents) /\ CopyOf(Committed'.agents, v.board.agents)
  BY <1>2, CommittedIsSound
<1> HIDE DEF v
<1>5. Working(at[p]) /\ Committing(at[p]) BY <1>1 DEF Working, Committing
<1>6. /\ WorkOK(p, at[p], op[p], todo[p])
      /\ MarkOK(Committed.agents.of, at[p], op[p], todo[p], mine[p].agents.of)
      /\ CopyOf(Committed'.agents, mine[p].agents)
  BY <1>2, OfProcess
<1>7. After(op[p].kind, todo[p]) /\ Head(todo[p]) \in {"writePair", "commit"}
  BY <1>5, <1>6, HeadOfLeft DEF WorkOK
<1>8. Tail(todo[p]) = <<>> \/ (op[p].kind = "evaluate" /\ Tail(todo[p]) = <<"mark">>)
  BY <1>7 DEF After
<1>9. <<"mark">> \in Lefts("evaluate") BY DEF Lefts
<1>10. ASSUME op[p].kind = "evaluate", Tail(todo[p]) # <<>>, NEW i \in op[p].items
       PROVE  CountedIn(Committed'.agents.of, i)
  <2>1. todo[p] = <<"writePair", "mark">> BY <1>7, <1>10 DEF After
  <2>2. todo[p] # SaveEvaluation BY <2>1 DEF SaveEvaluation
  <2> QED BY <1>2, <1>5, <1>6, <1>10, <2>2 DEF MarkOK
<1> QED BY <1>1, <1>2, <1>3, <1>4, <1>5, <1>6, <1>8, <1>9, <1>10, AnswerKeeps

\* A command that is being worked on, and its process.
LEMMA CommandOf ==
    ASSUME IInv, RecordInv, NEW p \in Processes, at[p] = "inside"
    PROVE  /\ ~pending /\ Committed = files
           /\ Working(at[p]) /\ ~Committing(at[p])
           /\ todo[p] \in Lefts(op[p].kind) /\ After(op[p].kind, todo[p])
           /\ op[p].kind # "batch" => p \in Desktops
<1>1. ~pending BY DEF IInv, Progresses, Progress
<1>2. WorkOK(p, at[p], op[p], todo[p]) BY OfProcess
<1> QED BY <1>1, <1>2, HeadOfLeft DEF Committed, Working, Committing, WorkOK

LEMMA LoadAgentsKeeps ==
    ASSUME IInv, RecordInv, NEW p \in Processes, LoadAgents(p)
    PROVE  RecordInv' /\ FilesStep
<1> DEFINE f == files.agents
           s == view[p]
           v == [s EXCEPT !.agents = f, !.board.agents = f]
<1>1. at[p] = "inside" /\ Head(todo[p]) = "loadAgents" /\ Answer(p, Tail(todo[p]), mine[p])
      /\ UNCHANGED <<files, pending, journal, marks>>
  BY DEF LoadAgents, Inside, Continue
<1>2. /\ ~pending /\ Committed = files /\ Working(at[p])
      /\ op[p].kind = "load" /\ p \in Desktops /\ Tail(todo[p]) = <<"loadPersonas">>
  BY <1>1, CommandOf DEF After
<1>3. FilesStep /\ Committed' = Committed BY <1>1, NothingCommitted
<1>4. IsView(s) BY <1>2, OfProcess
<1>5. view' = [view EXCEPT ![p] = v]
  <2>1. view' = [[view EXCEPT ![p].agents = f] EXCEPT ![p].board.agents = f] BY DEF LoadAgents
  <2> QED BY <1>2, <1>4, <2>1 DEF IInv, Shapes, ViewShape, IsView
<1>6. v.agents = f /\ v.board.agents = f
  <2> DEFINE b == s.board
             d == [b EXCEPT !.agents = f]
  <2>1. b = [agents |-> b.agents, personas |-> b.personas] BY <1>4 DEF IsView, IsPair
  <2>2. v = [agents |-> f, board |-> d, unsaved |-> s.unsaved] BY <1>4, EmptiedView
  <2> HIDE DEF b, v
  <2>3. d.agents = f BY <2>1
  <2> QED BY <2>2, <2>3
<1> HIDE DEF v
<1>7. CopyOf(Committed'.agents, v.agents) /\ CopyOf(Committed'.agents, v.board.agents)
  BY <1>2, <1>3, <1>6, CommittedIsSound
<1>8. CopyOf(Committed'.agents, mine[p].agents) BY <1>3, OfProcess
<1>9. <<"loadPersonas">> \in Lefts("load") BY DEF Lefts
<1> QED BY <1>1, <1>2, <1>3, <1>5, <1>7, <1>8, <1>9, AnswerKeeps

LEMMA LoadPersonasKeeps ==
    ASSUME IInv, RecordInv, NEW p \in Processes, LoadPersonas(p)
    PROVE  RecordInv' /\ FilesStep
<1> DEFINE f == files.personas
           s == view[p]
           v == [s EXCEPT !.board.personas = f, !.unsaved = FALSE]
<1>1. at[p] = "inside" /\ Head(todo[p]) = "loadPersonas" /\ Answer(p, Tail(todo[p]), mine[p])
      /\ UNCHANGED <<files, pending, journal, marks>>
  BY DEF LoadPersonas, Inside, Continue
<1>2. /\ Working(at[p]) /\ op[p].kind = "load" /\ p \in Desktops /\ Tail(todo[p]) = <<>>
  BY <1>1, CommandOf DEF After
<1>3. FilesStep /\ Committed' = Committed BY <1>1, NothingCommitted
<1>4. /\ IsView(s) /\ CopyOf(Committed.agents, s.agents) /\ CopyOf(Committed.agents, s.board.agents)
      /\ CopyOf(Committed'.agents, mine[p].agents)
  BY <1>2, <1>3, OfProcess
<1>5. view' = [view EXCEPT ![p] = v]
  <2>1. view' = [[view EXCEPT ![p].board.personas = f] EXCEPT ![p].unsaved = FALSE] BY DEF LoadPersonas
  <2> QED BY <1>2, <1>4, <2>1 DEF IInv, Shapes, ViewShape, IsView
<1>7. v.agents = s.agents /\ v.board.agents = s.board.agents BY <1>4, PersonasApart
<1> HIDE DEF s, f, v
<1>8. CopyOf(Committed'.agents, v.agents) /\ CopyOf(Committed'.agents, v.board.agents)
  BY <1>3, <1>4, <1>7
<1> QED BY <1>1, <1>2, <1>3, <1>4, <1>5, <1>8, AnswerKeeps

LEMMA TwoInARow ==
    ASSUME NEW S, NEW a \in S, NEW b \in S
    PROVE  <<a>> \o <<b>> = <<a, b>>
<1> DEFINE x == <<a>> \o <<b>>
           y == <<a, b>>
<1>1. <<a>> \in Seq(S) /\ <<b>> \in Seq(S) /\ y \in Seq(S) OBVIOUS
<1>2. Len(x) = 2 /\ x[1] = a /\ x[2] = b /\ Len(y) = 2 /\ y[1] = a /\ y[2] = b OBVIOUS
<1>3. x \in Seq(S) BY <1>1
<1> HIDE DEF x, y
<1>4. \A i \in 1..2 : x[i] = y[i] BY <1>2
<1>5. x = [i \in 1..2 |-> x[i]] BY <1>2, <1>3
<1>6. y = [i \in 1..2 |-> y[i]] BY <1>1, <1>2
<1>7. x = y BY <1>4, <1>5, <1>6
<1> QED BY <1>7 DEF x, y

LEMMA BornBefore ==
    ASSUME NEW of, NEW items, NEW a \in Agents, Born(RecordAll(of, items), a)
    PROVE  Born(of, a)
  BY DEF RecordAll, Born

\* The scores are recorded in the copy that the pair will be written from.
LEMMA ReadAgentsKeeps ==
    ASSUME IInv, RecordInv, NEW p \in Processes, ReadAgents(p)
    PROVE  RecordInv' /\ FilesStep
<1> DEFINE f == files.agents
           of == RecordAll(files.agents.of, op[p].items)
           g == [files.agents EXCEPT !.of = of]
           rest == <<"readPersonas", "writePair", "mark">>
           only == <<"readPersonas", "mark">>
           left == IF of # files.agents.of THEN Tail(todo[p]) ELSE <<"readPersonas", "mark">>
           pair == [mine[p] EXCEPT !.agents = g]
<1>1. at[p] = "inside" /\ Head(todo[p]) = "readAgents" /\ UNCHANGED <<files, pending, journal, marks>>
  BY DEF ReadAgents, Inside
<1>2. /\ Committed = files /\ Working(at[p]) /\ p \in Desktops
      /\ op[p].kind = "evaluate" /\ Tail(todo[p]) = rest
  BY <1>1, CommandOf DEF After
<1>3. FilesStep /\ Committed' = Committed BY <1>1, NothingCommitted
<1>4. CASE Failed(p) BY <1>1, <1>2, <1>4, FailedKeeps
<1>5. CASE ~Failed(p)
  <2>1. /\ \A i \in op[p].items : Born(of, i[1])
        /\ Answer(p, left, pair) /\ view' = view
    BY <1>5 DEF ReadAgents
  <2>2. SoundFile(f) /\ IsFile(f) /\ CopyOf(f, f) BY <1>2, CommittedIsSound
  <2>3. SoundOf(f.of) BY <2>2 DEF SoundFile
  <2>4. op[p].items \subseteq Agents \X Keys BY OfProcess DEF WorkOK
  <2>5. /\ SoundOf(of) /\ KeepsRecords(f.of, of)
        /\ \A i \in op[p].items \cap (Agents \X Keys) : Born(f.of, i[1]) => CountedIn(of, i)
    BY <2>3, RecordedOnce
  <2>6. \A i \in op[p].items : i \in Agents \X Keys /\ i[1] \in Agents BY <2>4
  <2>7. \A i \in op[p].items : Born(f.of, i[1]) BY <2>1, <2>6, BornBefore
  <2>8. \A i \in op[p].items : CountedIn(of, i) BY <2>5, <2>6, <2>7
  <2>9. CopyOf(f, g) /\ g.of = of /\ IsFile(g)
    <3>1. IsFile(g) /\ g.of = of BY <2>2, FileUpdates DEF IsFile
    <3> QED BY <2>2, <2>5, <3>1, CopyWith
  <2>10. IsPair(mine[p]) /\ view = [view EXCEPT ![p] = view[p]]
         /\ CopyOf(Committed'.agents, view[p].agents) /\ CopyOf(Committed'.agents, view[p].board.agents)
    BY <1>2, <1>3, OfProcess
  <2> HIDE DEF g
  <2>11. pair.agents = g BY <2>9, <2>10, PairUpdates
  <2>12. rest \in Lefts("evaluate") /\ only \in Lefts("evaluate") BY DEF Lefts
  <2>13. rest \in BeforeMark BY DEF BeforeMark
  <2>15. left = rest \/ (left = only /\ of = f.of) BY <1>2
  <2> HIDE DEF left, pair, of, rest, only
  <2>16. \A i \in op[p].items : \/ CountedIn(Committed'.agents.of, i)
                                \/ left \in BeforeMark /\ CountedIn(pair.agents.of, i)
    BY <1>2, <1>3, <2>8, <2>9, <2>11, <2>13, <2>15
  <2>17. CopyOf(Committed'.agents, pair.agents) BY <1>2, <1>3, <2>9, <2>11
  <2>18. left \in Lefts(op[p].kind) BY <1>2, <2>12, <2>15
  <2>19. IF p \in Desktops THEN view' = [view EXCEPT ![p] = view[p]] ELSE view' = view BY <2>1, <2>10
  <2> QED BY <1>1, <1>2, <1>3, <2>1, <2>10, <2>16, <2>17, <2>18, <2>19, AnswerKeeps
<1> QED BY <1>4, <1>5

\* The summaries are made of the agents that the workflow works on.
LEMMA ReadPersonasKeeps ==
    ASSUME IInv, RecordInv, NEW p \in Processes, ReadPersonas(p)
    PROVE  RecordInv' /\ FilesStep
<1> DEFINE synced == Sync(files.personas, mine[p].agents.of)
           write == todo[p][2] = "writePair" \/ synced # files.personas
           mark == op[p].kind = "evaluate" /\ ~(op[p].items \subseteq saw[p])
           left == (IF write THEN <<"writePair">> ELSE <<>>) \o (IF mark THEN <<"mark">> ELSE <<>>)
           pair == [mine[p] EXCEPT !.personas = synced]
           k == op[p].kind
           t == todo[p]
<1>1. /\ at[p] = "inside" /\ Head(t) = "readPersonas" /\ Answer(p, left, pair)
      /\ UNCHANGED <<files, pending, journal, marks, view>>
  BY DEF ReadPersonas, Inside
<1>2. /\ Working(at[p]) /\ ~Committing(at[p]) /\ p \in Desktops
      /\ \/ k = "evaluate" /\ t \in {<<"readPersonas", "writePair", "mark">>, <<"readPersonas", "mark">>}
         \/ k = "agent" /\ t = <<"readPersonas", "writePair">>
  BY <1>1, CommandOf DEF After
<1>3. FilesStep /\ Committed' = Committed BY <1>1, NothingCommitted
<1>4. /\ IsPair(mine[p]) /\ view = [view EXCEPT ![p] = view[p]]
      /\ CopyOf(Committed'.agents, mine[p].agents)
      /\ MarkOK(Committed'.agents.of, at[p], op[p], t, mine[p].agents.of)
      /\ CopyOf(Committed'.agents, view[p].agents) /\ CopyOf(Committed'.agents, view[p].board.agents)
  BY <1>2, <1>3, OfProcess
<1>5. IsFile(files.personas) BY DEF IInv, Shapes, IsPair
<1>6. IsFile(synced) BY <1>5, SyncKeepsRevision
<1> HIDE DEF synced
<1>7. pair.agents = mine[p].agents /\ pair.personas = synced BY <1>4, <1>6, PairUpdates
<1> HIDE DEF pair
<1>0. <<"writePair">> \o <<"mark">> = <<"writePair", "mark">>
  <2>1. "writePair" \in {"writePair", "mark"} /\ "mark" \in {"writePair", "mark"} OBVIOUS
  <2> QED BY <2>1, TwoInARow
<1>9. left \in {<<>>, <<"writePair">>, <<"mark">>, <<"writePair", "mark">>}
  <2> HIDE DEF write, mark
  <2>1. CASE write /\ mark
    <3>1. left = <<"writePair">> \o <<"mark">> BY <2>1
    <3> HIDE DEF left
    <3> QED BY <1>0, <3>1
  <2>2. CASE write /\ ~mark BY <2>2
  <2>3. CASE ~write /\ mark BY <2>3
  <2>4. CASE ~write /\ ~mark BY <2>4
  <2> QED BY <2>1, <2>2, <2>3, <2>4
<1>10. t[2] = "writePair" => left \in {<<"writePair">>, <<"writePair", "mark">>}
  <2>0. ASSUME t[2] = "writePair" PROVE write BY <2>0
  <2> HIDE DEF write, mark, t
  <2>1. CASE write /\ mark
    <3>1. left = <<"writePair">> \o <<"mark">> BY <2>1
    <3> HIDE DEF left
    <3> QED BY <1>0, <3>1
  <2>2. CASE ~mark BY <2>0, <2>2
  <2> QED BY <2>0, <2>1, <2>2
<1>11. k # "evaluate" => left \in {<<>>, <<"writePair">>} OBVIOUS
<1> HIDE DEF left, write, mark, k, t
<1>12. left = <<>> \/ left \in Lefts(k) BY <1>2, <1>9, <1>11 DEF Lefts
<1>13. ASSUME k = "evaluate", NEW i \in op[p].items
       PROVE  \/ CountedIn(Committed'.agents.of, i)
              \/ left \in BeforeMark /\ CountedIn(pair.agents.of, i)
  <2>1. t = <<"readPersonas", "writePair", "mark">> \/ t = <<"readPersonas", "mark">> BY <1>2, <1>13
  <2>2. t # SaveEvaluation BY <1>1, <2>1 DEF SaveEvaluation
  <2>3. CountedIn(Committed'.agents.of, i) \/ (t \in BeforeMark /\ CountedIn(mine[p].agents.of, i))
    BY <1>2, <1>4, <1>13, <2>2 DEF MarkOK, k
  <2>4. CASE t = <<"readPersonas", "writePair", "mark">>
    <3>1. t[2] = "writePair" BY <2>4
    <3>2. left \in BeforeMark BY <1>10, <3>1 DEF BeforeMark
    <3> QED BY <1>7, <2>3, <3>2
  <2>5. CASE t = <<"readPersonas", "mark">>
    <3>1. t \notin BeforeMark BY <2>5 DEF BeforeMark
    <3> QED BY <2>3, <3>1
  <2> QED BY <2>1, <2>4, <2>5
<1>14. CopyOf(Committed'.agents, pair.agents) BY <1>4, <1>7
<1>15. IF p \in Desktops THEN view' = [view EXCEPT ![p] = view[p]] ELSE view' = view BY <1>1, <1>4
<1> QED BY <1>1, <1>2, <1>3, <1>4, <1>12, <1>13, <1>14, <1>15, AnswerKeeps DEF k

LEMMA WritePersonasKeeps ==
    ASSUME IInv, RecordInv, NEW p \in Processes, WritePersonas(p)
    PROVE  RecordInv' /\ FilesStep
<1> DEFINE next == Bumped(mine[p].personas)
           s == view[p]
           v == [s EXCEPT !.board.personas = next]
<1>1. at[p] = "inside" /\ Head(todo[p]) = "writePersonas" /\ UNCHANGED <<pending, journal, marks>>
  BY DEF WritePersonas, Inside
<1>2. /\ ~pending /\ Committed = files /\ Working(at[p]) /\ p \in Desktops
      /\ op[p].kind = "persona" /\ Tail(todo[p]) = <<>>
  BY <1>1, CommandOf DEF After
<1>3. CASE Failed(p) /\ UNCHANGED files BY <1>1, <1>2, <1>3, FailedKeeps
<1>4. CASE ~(Failed(p) /\ UNCHANGED files)
  <2>1. /\ files' = [files EXCEPT !.personas = next]
        /\ view' = [view EXCEPT ![p].board.personas = next]
        /\ Answer(p, Tail(todo[p]), mine[p])
    BY <1>4 DEF WritePersonas, Continue
  <2>3. /\ IsView(s) /\ CopyOf(Committed.agents, s.agents) /\ CopyOf(Committed.agents, s.board.agents)
        /\ CopyOf(Committed.agents, mine[p].agents)
    BY <1>2, OfProcess
  <2>4. view' = [view EXCEPT ![p] = v] BY <1>2, <2>1, <2>3 DEF IInv, Shapes, ViewShape, IsView
  <2>6. v.agents = s.agents /\ v.board.agents = s.board.agents BY <2>3, PersonasApart
  <2> HIDE DEF s, v, next
  <2>7. Committed'.agents = Committed.agents
    <3>1. files'.agents = files.agents BY <2>1 DEF IInv, Shapes, IsPair
    <3> QED BY <1>1, <1>2, <3>1 DEF Committed
  <2>8. SoundFile(files'.agents) /\ SoundFile(journal'.agents)
    BY <1>1, <1>2, <2>1 DEF RecordInv, Copies, IInv, Shapes, IsPair
  <2>9. FilesStep BY <2>7, <2>8, WritePersonasStep, CommittedStays
  <2>10. /\ CopyOf(Committed'.agents, v.agents) /\ CopyOf(Committed'.agents, v.board.agents)
         /\ CopyOf(Committed'.agents, mine[p].agents)
    BY <2>3, <2>6, <2>7
  <2> QED BY <1>1, <1>2, <2>1, <2>4, <2>9, <2>10, AnswerKeeps
<1> QED BY <1>3, <1>4

\* The journal of a pair is published: the pair is what is committed from now on.
LEMMA PublishKeeps ==
    ASSUME IInv, RecordInv, NEW p \in Processes, at[p] = "inside",
           Head(todo[p]) \in {"writePair", "commit"}, NEW pair, Publish(pair), Move(p, "commitAgents"),
           UNCHANGED <<files, marks, todo, op, mine, view>>, Advance, SoundFile(pair.agents),
           KeepsRecords(Committed.agents.of, pair.agents.of),
           op[p].kind = "evaluate" => \A i \in op[p].items : CountedIn(pair.agents.of, i)
    PROVE  RecordInv' /\ FilesStep
<1> DEFINE c == Committed.agents
           d == Committed'.agents
<1>1. journal' = pair /\ Committed' = pair BY DEF Publish, Committed
<1>2. SoundFile(files'.agents) BY DEF RecordInv, Copies
<1>3. FilesStep BY <1>1, <1>2 DEF FilesStep
<1>4. SoundFile(c) /\ SoundFile(d) /\ OneRevisionAtATime(c, d) BY <1>1, CommittedIsSound DEF Advance
<1>5. /\ WorkOK(p, at[p], op[p], todo[p]) /\ CopyOf(c, mine[p].agents)
      /\ p \in Desktops => CopyOf(c, view[p].agents) /\ CopyOf(c, view[p].board.agents)
      /\ op = [op EXCEPT ![p] = op[p]] /\ todo = [todo EXCEPT ![p] = todo[p]]
      /\ mine = [mine EXCEPT ![p] = mine[p]]
      /\ p \in Desktops => view = [view EXCEPT ![p] = view[p]]
  BY OfProcess
<1>6. Becomes(p, "commitAgents", op[p], todo[p], mine[p], view[p]) BY <1>5 DEF Becomes, Move
<1> HIDE DEF c, d
<1>7. /\ CopyOf(d, mine[p].agents)
      /\ p \in Desktops => CopyOf(d, view[p].agents) /\ CopyOf(d, view[p].board.agents)
  <2>1. CopyOf(d, mine[p].agents) BY <1>4, <1>5, CopyStays
  <2>2. ASSUME p \in Desktops PROVE CopyOf(d, view[p].agents) BY <1>4, <1>5, <2>2, CopyStays
  <2>3. ASSUME p \in Desktops PROVE CopyOf(d, view[p].board.agents) BY <1>4, <1>5, <2>3, CopyStays
  <2> QED BY <2>1, <2>2, <2>3
<1>8. Working("commitAgents") /\ Working(at[p]) BY DEF Working
<1>9. WorkOK(p, "commitAgents", op[p], todo[p]) BY <1>5, <1>8 DEF WorkOK
<1>10. MarkOK(Committed'.agents.of, "commitAgents", op[p], todo[p], mine[p].agents.of) BY <1>1 DEF MarkOK
<1> QED BY <1>1, <1>3, <1>6, <1>7, <1>9, <1>10, OnlyOneProcess DEF d

LEMMA BumpedKeeps ==
    ASSUME NEW f, IsFile(f)
    PROVE  Bumped(f).of = f.of /\ (SoundFile(f) => SoundFile(Bumped(f)))
<1>1. Bumped(f).of = f.of /\ Bumped(f).rev = f.rev + 1 BY DEF Bumped, IsFile
<1> QED BY <1>1 DEF SoundFile

\* The pair is written over what is committed only if it was made from it.
LEMMA WritePairKeeps ==
    ASSUME IInv, RecordInv, NEW p \in Processes, WritePair(p)
    PROVE  RecordInv' /\ FilesStep
<1>1. at[p] = "inside" /\ Head(todo[p]) = "writePair" /\ UNCHANGED <<files, marks>>
  BY DEF WritePair, Inside
<1>2. /\ Committed = files /\ Working(at[p]) /\ ~Committing(at[p])
      /\ op[p].kind \in {"evaluate", "agent", "persona"}
  BY <1>1, CommandOf DEF After
<1>3. CASE Failed(p) /\ UNCHANGED <<pending, journal>> BY <1>1, <1>2, <1>3, FailedKeeps
<1>4. CASE ~(Failed(p) /\ UNCHANGED <<pending, journal>>)
  <2> DEFINE f == mine[p].agents
             pair == [agents |-> Bumped(mine[p].agents), personas |-> Bumped(mine[p].personas)]
  <2>1. /\ files.agents.rev = f.rev /\ Publish(pair) /\ Move(p, "commitAgents")
        /\ UNCHANGED <<todo, op, mine, view>>
    BY <1>4 DEF WritePair, Current
  <2>2. /\ IsFile(f) /\ SoundFile(f) /\ IsFile(mine[p].personas)
        /\ KeepsRecords(files.agents.of, f.of)
        /\ MarkOK(files.agents.of, at[p], op[p], todo[p], f.of)
    BY <1>2, <2>1, OfProcess DEF CopyOf, IsPair
  <2>3. pair.agents.of = f.of /\ SoundFile(pair.agents) /\ pair.personas.of = mine[p].personas.of
    BY <2>2, BumpedKeeps
  <2> HIDE DEF pair
  <2>4. Advance BY WritePairStep
  <2>5. ASSUME op[p].kind = "evaluate", NEW i \in op[p].items PROVE CountedIn(f.of, i)
    <3>1. todo[p] # SaveEvaluation BY <1>1 DEF SaveEvaluation
    <3>2. CountedIn(files.agents.of, i) \/ CountedIn(f.of, i) BY <1>2, <2>2, <2>5, <3>1 DEF MarkOK
    <3>3. i \in Agents \X Keys BY <2>5, OfProcess DEF WorkOK
    <3>4. SoundOf(files.agents.of) /\ SoundOf(f.of) BY <2>2 DEF RecordInv, Copies, SoundFile
    <3> QED BY <2>2, <3>2, <3>3, <3>4, CountedStays
  <2>7. KeepsRecords(Committed.agents.of, pair.agents.of) BY <1>2, <2>2, <2>3
  <2>8. op[p].kind = "evaluate" => \A i \in op[p].items : CountedIn(pair.agents.of, i) BY <2>3, <2>5
  <2> QED BY <1>1, <2>1, <2>3, <2>4, <2>7, <2>8, PublishKeeps
<1> QED BY <1>3, <1>4

\* The report is marked when the scores are in the registries.
LEMMA MarkKeeps ==
    ASSUME IInv, RecordInv, NEW p \in Processes, Mark(p)
    PROVE  RecordInv' /\ FilesStep
<1>1. at[p] = "inside" /\ Head(todo[p]) = "mark" /\ UNCHANGED <<files, pending, journal>>
  BY DEF Mark, Inside
<1>2. /\ Working(at[p]) /\ p \in Desktops /\ op[p].kind = "evaluate"
      /\ todo[p] = <<"mark">> /\ Tail(todo[p]) = <<>>
  BY <1>1, CommandOf DEF After
<1>3. FilesStep /\ Committed' = Committed BY <1>1, NothingCommitted
<1>4. CASE Failed(p) /\ UNCHANGED marks BY <1>1, <1>2, <1>4, FailedKeeps
<1>5. CASE ~(Failed(p) /\ UNCHANGED marks)
  <2>1. marks' = marks \cup op[p].items /\ Answer(p, Tail(todo[p]), mine[p]) /\ view' = view
    BY <1>5 DEF Mark, Continue
  <2>2. /\ WorkOK(p, at[p], op[p], todo[p]) /\ view = [view EXCEPT ![p] = view[p]]
        /\ MarkOK(Committed'.agents.of, at[p], op[p], todo[p], mine[p].agents.of)
        /\ CopyOf(Committed'.agents, mine[p].agents)
        /\ CopyOf(Committed'.agents, view[p].agents) /\ CopyOf(Committed'.agents, view[p].board.agents)
    BY <1>2, <1>3, OfProcess
  <2>3. todo[p] # SaveEvaluation BY <1>1 DEF SaveEvaluation
  <2>4. todo[p] \notin BeforeMark BY <1>2 DEF BeforeMark
  <2>5. \A i \in op[p].items : i \in Agents \X Keys /\ CountedIn(Committed'.agents.of, i)
    BY <1>2, <2>2, <2>3, <2>4 DEF MarkOK, WorkOK
  <2>6. IF p \in Desktops THEN view' = [view EXCEPT ![p] = view[p]] ELSE view' = view BY <2>1, <2>2
  <2>7. \A i \in marks' : i \in marks \/ (i \in Agents \X Keys /\ CountedIn(Committed'.agents.of, i))
    BY <2>1, <2>5
  <2> QED BY <1>2, <1>3, <2>1, <2>2, <2>6, <2>7, AnswerKeeps
<1> QED BY <1>4, <1>5

\* The command line records its evaluations and makes the summaries under one lock.
LEMMA CommitKeeps ==
    ASSUME IInv, RecordInv, NEW p \in Processes, Commit(p)
    PROVE  RecordInv' /\ FilesStep
<1> DEFINE of == RecordAll(files.agents.of, op[p].items)
           recorded == [files.agents EXCEPT !.of = of]
           agents == IF of # files.agents.of THEN Bumped(recorded) ELSE files.agents
           synced == Sync(files.personas, of)
           pair == [agents |-> agents, personas |-> Bumped(synced)]
<1>1. at[p] = "inside" /\ Head(todo[p]) = "commit" /\ UNCHANGED marks BY DEF Commit, Inside
<1>2. ~pending /\ Committed = files /\ Working(at[p]) /\ op[p].kind = "batch" /\ Tail(todo[p]) = <<>>
  BY <1>1, CommandOf DEF After
<1>3. Advance BY CommitStep
<1>4. CASE Failed(p) /\ UNCHANGED <<files, pending, journal>> BY <1>1, <1>2, <1>4, FailedKeeps
<1>5. /\ p \notin Desktops /\ SoundFile(files.agents) /\ IsFile(files.agents) /\ IsFile(files.personas)
      /\ IsPair(files)
  <2>1. WorkOK(p, at[p], op[p], todo[p]) BY OfProcess
  <2> QED BY <1>2, <2>1, CommittedIsSound DEF WorkOK, IsPair
<1>6. SoundOf(of) /\ KeepsRecords(files.agents.of, of) BY <1>5, RecordedOnce DEF SoundFile
<1>7. SoundFile(agents) /\ agents.of = of /\ IsFile(agents)
  <2>1. IsFile(recorded) /\ recorded.of = of /\ recorded.rev = files.agents.rev
    BY <1>5, FileUpdates DEF IsFile
  <2>2. SoundFile(recorded) BY <1>5, <1>6, <2>1 DEF SoundFile
  <2> HIDE DEF recorded, of
  <2>3. SoundFile(Bumped(recorded)) /\ Bumped(recorded).of = of /\ IsFile(Bumped(recorded))
    BY <2>1, <2>2, BumpedKeeps, BumpedIsNext
  <2> QED BY <1>5, <2>3
<1>8. CASE /\ synced = files.personas /\ files' = [files EXCEPT !.agents = agents] /\ Continue(p)
           /\ UNCHANGED <<pending, journal, view>>
  <2>1. Answer(p, <<>>, mine[p]) BY <1>2, <1>8 DEF Continue
  <2> HIDE DEF agents
  <2>2. files'.agents = agents /\ files'.personas = files.personas BY <1>5, <1>7, <1>8, PairUpdates
  <2>3. Committed' = files' BY <1>2, <1>8 DEF Committed
  <2>4. SoundFile(journal'.agents) BY <1>8 DEF RecordInv, Copies
  <2>5. FilesStep BY <1>2, <1>3, <1>6, <1>7, <2>2, <2>3, <2>4 DEF FilesStep
  <2>6. CopyOf(Committed'.agents, mine[p].agents)
    <3>1. CopyOf(Committed.agents, mine[p].agents) /\ SoundFile(Committed.agents)
      BY OfProcess, CommittedIsSound
    <3>2. SoundFile(Committed'.agents) /\ OneRevisionAtATime(Committed.agents, Committed'.agents)
      BY <1>3, <1>7, <2>2, <2>3 DEF Advance
    <3> QED BY <3>1, <3>2, CopyStays
  <2>8. view' = view BY <1>8
  <2> QED BY <1>1, <1>2, <1>5, <2>1, <2>5, <2>6, <2>8, AnswerKeeps
<1>9. CASE /\ Publish(pair) /\ Move(p, "commitAgents") /\ UNCHANGED <<files, todo, op, mine, view>>
  <2>2. pair.agents = agents OBVIOUS
  <2> HIDE DEF pair, agents
  <2>5. SoundFile(pair.agents) /\ KeepsRecords(Committed.agents.of, pair.agents.of)
    BY <1>2, <1>6, <1>7, <2>2
  <2> QED BY <1>1, <1>2, <1>3, <1>9, <2>5, PublishKeeps
<1> QED BY <1>1, <1>4, <1>8, <1>9 DEF Commit

-----------------------------------------------------------------------------
(* The invariant, and what it gives *)

LEMMA LossKeeps ==
    ASSUME IInv, RecordInv, NEW p \in Processes, Fault(p) \/ Crash(p)
    PROVE  RecordInv' /\ FilesStep
<1>1. UNCHANGED <<files, pending, journal, marks>> BY DEF Fault, Crash
<1>2. FilesStep /\ Committed' = Committed BY <1>1, NothingCommitted
<1>3. CASE Fault(p)
  <2>1. Failed(p) /\ Working(at[p]) BY <1>3 DEF Fault, Working
  <2> QED BY <1>1, <2>1, FailedKeeps
<1>4. CASE Crash(p)
  <2>1. /\ at' = [at EXCEPT ![p] = "idle"] /\ op' = [op EXCEPT ![p] = NoOp]
        /\ todo' = [todo EXCEPT ![p] = <<>>] /\ mine' = [mine EXCEPT ![p] = Empty]
        /\ view' = [d \in Desktops |-> IF d = p THEN Blank ELSE view[d]]
    BY <1>4 DEF Crash, Move
  <2>2. Becomes(p, "idle", NoOp, <<>>, Empty, Blank)
    <3>1. view = [d \in Desktops |-> view[d]] BY DEF IInv, Shapes, ViewShape
    <3>2. CASE p \in Desktops
      <4>1. view' = [view EXCEPT ![p] = Blank] BY <2>1, <3>1, <3>2
      <4> QED BY <2>1, <3>2, <4>1 DEF Becomes
    <3>3. CASE p \notin Desktops
      <4>1. view' = view BY <2>1, <3>1, <3>3
      <4> QED BY <2>1, <3>3, <4>1 DEF Becomes
    <3> QED BY <3>2, <3>3
  <2>3. ~Working("idle") /\ ~Committing("idle") BY DEF Working, Committing
  <2>4. NoOp = [kind |-> NoOp.kind, items |-> NoOp.items] /\ NoOp.kind = "none" /\ NoOp.items = {}
    BY DEF NoOp
  <2>5. WorkOK(p, "idle", NoOp, <<>>) BY <2>3, <2>4 DEF WorkOK
  <2>6. MarkOK(Committed'.agents.of, "idle", NoOp, <<>>, Empty.agents.of) BY <2>3 DEF MarkOK
  <2>8. CopyOf(Committed'.agents, Empty.agents) BY <1>2, CommittedIsSound
  <2>9. Blank.agents = Empty.agents /\ Blank.board.agents = Empty.agents BY DEF Blank
  <2>11. \A i \in marks' : i \in marks BY <1>1
  <2> QED BY <1>2, <2>2, <2>5, <2>6, <2>8, <2>9, <2>11, OnlyOneProcess
<1> QED BY <1>3, <1>4

LEMMA InitRecords == Init => RecordInv
<1> SUFFICES ASSUME Init PROVE RecordInv OBVIOUS
<1>1. PICK hired \in SUBSET Agents, known \in SUBSET Personas :
        \E persona \in [hired -> known \cup {NoPersona}] :
          files = [agents   |-> [rev |-> 1, of |-> [a \in Agents |->
                                   IF a \in hired THEN NewAgent(persona[a]) ELSE Unborn]],
                   personas |-> [rev |-> 1, of |-> [q \in Personas |->
                                   IF q \in known THEN 0 ELSE Unborn]]]
  BY DEF Init
<1>2. PICK persona \in [hired -> known \cup {NoPersona}] :
          files = [agents   |-> [rev |-> 1, of |-> [a \in Agents |->
                                   IF a \in hired THEN NewAgent(persona[a]) ELSE Unborn]],
                   personas |-> [rev |-> 1, of |-> [q \in Personas |->
                                   IF q \in known THEN 0 ELSE Unborn]]]
  BY <1>1
<1> DEFINE of == files.agents.of
<1>3. /\ of = [a \in Agents |-> IF a \in hired THEN NewAgent(persona[a]) ELSE Unborn]
      /\ files.agents.rev = 1 /\ IsFile(files.agents)
      /\ files.personas.of = [q \in Personas |-> IF q \in known THEN 0 ELSE Unborn]
  BY <1>2 DEF IsFile
<1> HIDE DEF of
<1>4. \A a \in hired : persona[a] \in Personas \cup {NoPersona} OBVIOUS
<1>5. SoundOf(of)
  <2>1. \A a \in Agents : of[a] \in {Unborn, Gone} \/ Sound(of[a]) BY <1>3, <1>4, NewAgentIsSound
  <2> QED BY <1>3, <2>1 DEF SoundOf
<1>6. SoundFile(files.agents) BY <1>3, <1>5 DEF SoundFile, of
<1>7. Committed = files /\ ~pending BY DEF Init, Committed
<1>8. CopyOf(files.agents, Empty.agents) /\ SoundFile(Empty.agents) BY <1>3, <1>6, EmptyIsCopy
<1>9. CopyOf(files.agents, files.agents) BY <1>3, <1>6, CopyOfItself
<1>10. Copies
  <2>1. \A p \in Processes : mine[p] = Empty BY DEF Init
  <2>2. \A d \in Desktops : view[d] = Blank \/ view[d] = [agents |-> files.agents, board |-> files, unsaved |-> FALSE]
    BY DEF Init
  <2>3. \A d \in Desktops : CopyOf(files.agents, view[d].agents) /\ CopyOf(files.agents, view[d].board.agents)
    BY <1>8, <1>9, <2>2 DEF Blank
  <2>4. journal = Empty BY DEF Init
  <2> QED BY <1>3, <1>6, <1>7, <1>8, <2>1, <2>3, <2>4 DEF Copies
<1>11. NoOp = [kind |-> NoOp.kind, items |-> NoOp.items] /\ NoOp.kind = "none" /\ NoOp.items = {}
  BY DEF NoOp
<1>12. \A p \in Processes : at[p] = "idle" /\ op[p] = NoOp BY DEF Init
<1>13. Workflows
  <2>1. op = [p \in Processes |-> op[p]] /\ todo = [p \in Processes |-> todo[p]] BY DEF Init
  <2> QED BY <1>11, <1>12, <2>1 DEF Workflows, WorkOK, Working, Committing
<1>14. MarksFollow BY <1>12 DEF MarksFollow, MarkOK, Working, Init
<1> QED BY <1>10, <1>13, <1>14 DEF RecordInv

Records == IInv /\ RecordInv
NoneLost == KeepsRecords(Committed.agents.of, Committed'.agents.of)

LEMMA RecordsKept == Records /\ [Next]_vars => Records' /\ [NoneLost]_vars
<1> SUFFICES ASSUME IInv, RecordInv, [Next]_vars PROVE Records' /\ [NoneLost]_vars BY DEF Records
<1>1. IInv' BY NextKeeps
<1>2. CASE UNCHANGED vars
  <2>0. Committed' = Committed BY <1>2 DEF vars, Committed
  <2>1. Copies' BY <1>2, <2>0 DEF vars, RecordInv, Copies
  <2>2. Workflows' BY <1>2 DEF vars, RecordInv, Workflows
  <2>3. MarksFollow' BY <1>2, <2>0 DEF vars, RecordInv, MarksFollow
  <2>5. RecordInv' BY <2>1, <2>2, <2>3 DEF RecordInv
  <2> QED BY <1>1, <1>2, <2>5 DEF Records
<1>3. CASE Next
  <2>1. PICK p \in Processes : Start(p) \/ Run(p) \/ Fault(p) \/ Crash(p) BY <1>3 DEF Next
  <2>2. RecordInv' /\ FilesStep
    <3>1. CASE Start(p) BY <3>1, StartKeeps
    <3>2. CASE Fault(p) \/ Crash(p) BY <3>2, LossKeeps
    <3>3. CASE Run(p)
      <4>1. CASE Acquire(p) BY <4>1, AcquireKeeps
      <4>2. CASE PutAgents(p) \/ PutPersonas(p) BY <4>2, PutKeeps
      <4>3. CASE Replayed(p) BY <4>3, ReplayedKeeps
      <4>4. CASE PairWritten(p) BY <4>4, PairWrittenKeeps
      <4>5. CASE LoadAgents(p) BY <4>5, LoadAgentsKeeps
      <4>6. CASE LoadPersonas(p) BY <4>6, LoadPersonasKeeps
      <4>7. CASE ReadAgents(p) BY <4>7, ReadAgentsKeeps
      <4>8. CASE ReadPersonas(p) BY <4>8, ReadPersonasKeeps
      <4>9. CASE WritePersonas(p) BY <4>9, WritePersonasKeeps
      <4>10. CASE WritePair(p) BY <4>10, WritePairKeeps
      <4>11. CASE Mark(p) BY <4>11, MarkKeeps
      <4>12. CASE Commit(p) BY <4>12, CommitKeeps
      <4> QED BY <3>3, <4>1, <4>2, <4>3, <4>4, <4>5, <4>6, <4>7, <4>8, <4>9, <4>10, <4>11, <4>12 DEF Run
    <3> QED BY <2>1, <3>1, <3>2, <3>3
  <2> QED BY <1>1, <2>2 DEF Records, FilesStep, NoneLost
<1> QED BY <1>2, <1>3

LEMMA RecordsAlways == Spec => []Records /\ [][NoneLost]_vars
<1>1. Init => Records BY InitEstablishes, InitRecords DEF Records
<1>2. Records /\ [Next]_vars => Records' /\ [NoneLost]_vars BY RecordsKept
<1> QED BY <1>1, <1>2, PTL DEF Spec

\* A key counts once, and the report claims no evaluation that was not counted
\* (CountedOnce: recordAgentEvaluationOnce, saveQueuePanelEvaluation), however many
\* windows and command lines retry, crash and write from whatever copies.
THEOREM EvaluationsCountOnce == Spec => []CountedOnce
<1>1. Records => CountedOnce
  <2> SUFFICES ASSUME IInv, RecordInv PROVE CountedOnce BY DEF Records
  <2>1. SoundOf(Committed.agents.of) BY CommittedIsSound DEF SoundFile
  <2>2. ASSUME NEW a \in Agents, Born(Committed.agents.of, a)
        PROVE  Committed.agents.of[a].count = Cardinality(Committed.agents.of[a].keys)
    BY <2>1, <2>2, BornIsSound DEF Sound
  <2>3. \A m \in marks : CountedIn(Committed.agents.of, m) BY DEF RecordInv, MarksFollow
  <2> QED BY <2>2, <2>3 DEF CountedOnce, CountedIn
<1> QED BY <1>1, RecordsAlways, PTL

\* No writer loses an evaluation that somebody else recorded (EvaluationsStay: the
\* revision checks of write_workspace_registry_pair, the lock of
\* EvaluationRegistryTransaction).
THEOREM EvaluationsAreKept == Spec => EvaluationsStay
<1> DEFINE Stay == \A a \in Agents : Born(Committed.agents.of, a) =>
                      LET old == Committed.agents.of[a]
                          new == Committed'.agents.of[a]
                      IN \/ new = Gone
                         \/ new # Unborn /\ (old.keys \subseteq new.keys \/ new.resets > old.resets)
<1>1. NoneLost => Stay
  <2> SUFFICES ASSUME NoneLost, NEW a \in Agents, Born(Committed.agents.of, a)
               PROVE  LET old == Committed.agents.of[a]
                          new == Committed'.agents.of[a]
                      IN \/ new = Gone
                         \/ new # Unborn /\ (old.keys \subseteq new.keys \/ new.resets > old.resets)
    OBVIOUS
  <2>1. KeepsRecord(Committed.agents.of[a], Committed'.agents.of[a]) BY DEF NoneLost, KeepsRecords
  <2> QED BY <2>1 DEF KeepsRecord, Born
<1>2. [NoneLost]_vars => [Stay]_vars BY <1>1
<1>3. [][NoneLost]_vars => [][Stay]_vars BY <1>2, PTL
<1> QED BY <1>3, RecordsAlways, PTL DEF EvaluationsStay

-----------------------------------------------------------------------------
(* Sums. The summary of a persona is a sum over a finite set of agents, made with *)
(* the folds of the community modules: a number, and zero when nobody has a score. *)

LEMMA LeastOf ==
    ASSUME NEW B, B \subseteq Nat, B # {}
    PROVE  \E k \in B : \A j \in B : ~(j < k)
<1> DEFINE R == OpToRel(<, Nat)
<1>1. IsWellFoundedOn(R, Nat) BY NatLessThanWellFounded
<1>2. \A j \in Nat, k \in Nat : j < k => <<j, k>> \in R BY DEF OpToRel
<1> HIDE DEF R
<1>3. PICK k \in B : \A j \in B : <<j, k>> \notin R BY <1>1, WFMin
<1> QED BY <1>2, <1>3

\* The sum over a finite set: the recursion of the folds has a solution, and every
\* solution stays in a set of numbers that is closed under addition.
Adds(S, n, sum) ==
    sum = [s \in SUBSET S |-> IF s = {} THEN 0
             ELSE n[CHOOSE x \in s : TRUE] + sum[s \ {CHOOSE x \in s : TRUE}]]

LEMMA SumsExist ==
    ASSUME NEW S, IsFiniteSet(S), NEW n
    PROVE  \E sum : Adds(S, n, sum)
<1> DEFINE Upto(k) == {s \in SUBSET S : Cardinality(s) <= k}
           one(s) == CHOOSE x \in s : TRUE
           next(f, s) == IF s = {} THEN 0 ELSE n[one(s)] + f[s \ {one(s)}]
           Fits(f, k) == \A s \in Upto(k) : f[s] = next(f, s)
           B == {k \in Nat : \A f : ~Fits(f, k)}
<1>1. ASSUME NEW s \in SUBSET S
      PROVE  /\ IsFiniteSet(s) /\ Cardinality(s) \in Nat /\ Cardinality(s) <= Cardinality(S)
             /\ Cardinality(s) = 0 <=> s = {}
             /\ s # {} => s \ {one(s)} \in SUBSET S /\ Cardinality(s \ {one(s)}) = Cardinality(s) - 1
  <2>1. IsFiniteSet(s) /\ Cardinality(s) \in Nat /\ Cardinality(s) <= Cardinality(S)
    BY FS_Subset, FS_CardinalityType
  <2>2. Cardinality(s) = 0 <=> s = {} BY <2>1, FS_EmptySet
  <2>3. s # {} => one(s) \in s OBVIOUS
  <2> HIDE DEF one
  <2> QED BY <2>1, <2>2, <2>3, FS_RemoveElement
<1> HIDE DEF one
<1>2. B = {}
  <2>1. SUFFICES ASSUME B # {} PROVE FALSE OBVIOUS
  <2>2. PICK k \in B : \A j \in B : ~(j < k)
    <3>1. B \subseteq Nat OBVIOUS
    <3> HIDE DEF B
    <3> QED BY <2>1, <3>1, LeastOf
  <2>3. k \in Nat /\ \A f : ~Fits(f, k) OBVIOUS
  <2>4. CASE k = 0
    <3> DEFINE f == [s \in {{}} |-> 0]
    <3>1. ASSUME NEW s \in Upto(0) PROVE s = {}
      <4>1. s \in SUBSET S /\ Cardinality(s) <= 0 OBVIOUS
      <4>2. Cardinality(s) \in Nat /\ (Cardinality(s) = 0 <=> s = {}) BY <1>1, <4>1
      <4> HIDE DEF Upto
      <4> QED BY <4>1, <4>2
    <3>2. Fits(f, 0) BY <3>1
    <3> HIDE DEF Fits, f
    <3> QED BY <2>3, <2>4, <3>2
  <2>5. CASE k # 0
    <3>1. k - 1 \in Nat /\ k - 1 < k BY <2>3, <2>5
    <3>2. k - 1 \notin B BY <2>2, <3>1
    <3>3. PICK f : Fits(f, k - 1) BY <3>1, <3>2
    <3> DEFINE g == [s \in Upto(k) |-> next(f, s)]
    <3>4. ASSUME NEW s \in Upto(k) PROVE g[s] = next(g, s)
      <4>1. g[s] = next(f, s) OBVIOUS
      <4>2. CASE s = {} BY <4>1, <4>2
      <4>3. CASE s # {}
        <5> DEFINE r == s \ {one(s)}
        <5>1. r \in Upto(k - 1) /\ r \in Upto(k) BY <1>1, <2>3, <4>3
        <5>2. f[r] = next(f, r) BY <3>3, <5>1
        <5>3. g[r] = next(f, r) BY <5>1
        <5> HIDE DEF r, g
        <5>4. next(f, s) = n[one(s)] + f[r] /\ next(g, s) = n[one(s)] + g[r] BY <4>3 DEF r
        <5> QED BY <4>1, <5>2, <5>3, <5>4
      <4> QED BY <4>2, <4>3
    <3>5. Fits(g, k) BY <3>4
    <3> HIDE DEF Fits, g
    <3> QED BY <2>3, <3>5
  <2> QED BY <2>4, <2>5
<1>3. Cardinality(S) \in Nat BY FS_CardinalityType
<1>4. PICK f : Fits(f, Cardinality(S)) BY <1>2, <1>3
<1> DEFINE sum == [s \in SUBSET S |-> f[s]]
<1>5. ASSUME NEW s \in SUBSET S PROVE sum[s] = next(sum, s)
  <2>1. sum[s] = f[s] OBVIOUS
  <2>2. f[s] = next(f, s) BY <1>1, <1>4
  <2>3. s # {} => sum[s \ {one(s)}] = f[s \ {one(s)}] BY <1>1
  <2> HIDE DEF sum
  <2> QED BY <2>1, <2>2, <2>3
<1>6. sum = [s \in SUBSET S |-> next(sum, s)]
  <2>1. sum = [s \in SUBSET S |-> sum[s]] OBVIOUS
  <2> HIDE DEF sum, next
  <2> QED BY <1>5, <2>1
<1> HIDE DEF sum
<1>7. Adds(S, n, sum) BY <1>6 DEF Adds, one
<1> QED BY <1>7

LEMMA SumsStay ==
    ASSUME NEW S, IsFiniteSet(S), NEW T, 0 \in T, \A x \in T, y \in T : x + y \in T,
           NEW n, \A a \in S : n[a] \in T, NEW sum, Adds(S, n, sum)
    PROVE  sum[S] \in T
<1> DEFINE B == {s \in SUBSET S : sum[s] \notin T}
<1>1. SUFFICES ASSUME sum[S] \notin T PROVE FALSE OBVIOUS
<1>2. B # {} /\ B \subseteq SUBSET S BY <1>1
<1>3. IsWellFoundedOn(StrictSubsetOrdering(S), SUBSET S)
  BY FS_StrictSubsetOrderingWellFounded, FS_FiniteSubsetsOfFinite
<1>4. PICK s \in B : \A r \in B : <<r, s>> \notin StrictSubsetOrdering(S) BY <1>2, <1>3, WFMin
<1> DEFINE one == CHOOSE x \in s : TRUE
           r == s \ {one}
<1>5. s \subseteq S /\ sum[s] = IF s = {} THEN 0 ELSE n[one] + sum[r] BY DEF Adds
<1>6. s # {} BY <1>4, <1>5
<1>7. one \in s BY <1>6
<1>8. sum[s] = n[one] + sum[r] BY <1>5, <1>6
<1> HIDE DEF one
<1>9. r \subseteq s /\ r # s /\ r \in SUBSET S BY <1>5, <1>7
<1>10. <<r, s>> \in StrictSubsetOrdering(S) BY <1>5, <1>9 DEF StrictSubsetOrdering
<1>11. sum[r] \in T BY <1>4, <1>9, <1>10
<1>12. n[one] \in T BY <1>5, <1>7
<1>13. sum[s] \notin T BY <1>4
<1> HIDE DEF r, B
<1> QED BY <1>8, <1>11, <1>12, <1>13
LEMMA SummaryStays ==
    ASSUME NEW of, NEW q, IsFiniteSet(Assigned(of, q)), NEW T, 0 \in T, \A x \in T, y \in T : x + y \in T,
           \A a \in Assigned(of, q) : of[a].count \in T
    PROVE  Summary(of, q) \in T
<1> DEFINE S == Assigned(of, q)
           n == [a \in S |-> of[a].count]
           sum == CHOOSE f : Adds(S, n, f)
<1>0. Summary(of, q) = SumFunction(n) /\ DOMAIN n = S BY DEF Summary
<1>1. IsFiniteSet(S) /\ \A a \in S : n[a] \in T OBVIOUS
<1> HIDE DEF S, n
<1>2. Summary(of, q) = sum[S]
  BY <1>0 DEF SumFunction, SumFunctionOnSet, FoldFunctionOnSet, MapThenFoldSet, Adds
<1>3. Adds(S, n, sum) BY <1>1, SumsExist
<1> HIDE DEF sum
<1> QED BY <1>1, <1>2, <1>3, SumsStay

\* Agents without scores have no summary, so nobody has none.
LEMMA NoScoresNoSummary ==
    ASSUME NEW of, NEW q, \A a \in Assigned(of, q) : of[a].count = 0
    PROVE  Summary(of, q) = 0
<1>1. IsFiniteSet(Assigned(of, q)) BY ProcessAssumption, FS_Subset DEF Assigned
<1>2. \A x \in {0}, y \in {0} : x + y \in {0} OBVIOUS
<1>3. Summary(of, q) \in {0} BY <1>1, <1>2, SummaryStays
<1> QED BY <1>3

LEMMA NobodyNoSummary ==
    ASSUME NEW of, NEW q, Assigned(of, q) = {}
    PROVE  Summary(of, q) = 0
  BY NoScoresNoSummary

LEMMA SummaryIsNumber ==
    ASSUME NEW of, SoundOf(of), NEW q
    PROVE  Summary(of, q) \in Nat /\ Summary(of, q) # Unborn
<1>1. IsFiniteSet(Assigned(of, q)) BY ProcessAssumption, FS_Subset DEF Assigned
<1>2. \A x \in Nat, y \in Nat : x + y \in Nat OBVIOUS
<1>3. \A a \in Assigned(of, q) : of[a].count \in Nat BY BornIsSound DEF Assigned, Sound, AgentRecord
<1>4. Summary(of, q) \in Nat BY <1>1, <1>2, <1>3, SummaryStays
<1> QED BY <1>4, RecordAssumption

LEMMA SameAgentsSameSummary ==
    ASSUME NEW of, NEW new, NEW q, Assigned(new, q) = Assigned(of, q),
           \A a \in Assigned(of, q) : new[a].count = of[a].count
    PROVE  Summary(new, q) = Summary(of, q)
<1> DEFINE S == Assigned(of, q)
           f == [a \in S |-> of[a].count]
           g == [a \in S |-> new[a].count]
<1>1. Summary(of, q) = SumFunction(f) /\ Summary(new, q) = SumFunction(g) BY DEF Summary
<1>2. f = g OBVIOUS
<1> HIDE DEF f, g
<1> QED BY <1>1, <1>2

\* The summaries that are made of the agents agree with them.
LEMMA SyncAgrees ==
    ASSUME NEW f, IsFile(f), NEW x, x.personas.of = Sync(f, x.agents.of).of
    PROVE  Agree(x)
<1> DEFINE of == x.agents.of
<1>1. Sync(f, of).of = [q \in Personas |-> IF Born(f.of, q) THEN Summary(of, q) ELSE f.of[q]]
  BY DEF Sync, IsFile
<1>2. ASSUME NEW q \in Personas, Born(x.personas.of, q) PROVE x.personas.of[q] = Summary(of, q)
  BY <1>1, <1>2 DEF Born
<1> QED BY <1>2 DEF Agree

-----------------------------------------------------------------------------
(* Summaries. What is committed has the summaries that its agents give, as long  *)
(* as windows save copies of it: a board whose revisions are current agrees with  *)
(* itself, or shows the committed personas beside agents with the committed sums. *)

\* Every persona that an agent has is, or was, among the personas.
AllKnown(of, personas) ==
    \A a \in Agents : Born(of, a) => of[a].persona = NoPersona \/ personas[of[a].persona] # Unborn
KeepsKnown(old, new) == \A q \in Personas : old[q] # Unborn => new[q] # Unborn

PersonasOK(f) == IsFile(f) /\ f.rev \in Nat /\ f.of = [q \in Personas |-> f.of[q]]

\* f is a copy of the personas file c, or of an older one.
PersonasCopy(c, f) ==
    /\ PersonasOK(f) /\ f.rev <= c.rev
    /\ f.rev = c.rev => KeepsKnown(c.of, f.of)

\* The summaries in f are those of c; personas that are new in f have none.
Untouched(c, f) ==
    \A q \in Personas : Born(f.of, q) => f.of[q] = c.of[q] \/ (c.of[q] = Unborn /\ f.of[q] = 0)

SameSums(x, c) ==
    \A q \in Personas : Born(x.personas.of, q) => Summary(x.agents.of, q) = Summary(c.agents.of, q)

\* A pair with the committed revisions.
IsCurrent(x, c) == x.agents.rev = c.agents.rev /\ x.personas.rev = c.personas.rev
Matches(x, c) ==
    /\ AllKnown(x.agents.of, x.personas.of)
    /\ Agree(x) \/ (Untouched(c.personas, x.personas) /\ SameSums(x, c))

\* What a window shows, in the workflow o with the commands t left. Between the two
\* halves of a load it may show new agents beside old personas.
BoardOK(c, o, t, v) ==
    /\ PersonasCopy(c.personas, v.board.personas)
    /\ AllKnown(v.agents.of, c.personas.of)
    /\ o.kind # "load" /\ IsCurrent(v.board, c) => Matches(v.board, c)
    /\ t = <<"loadPersonas">> /\ v.board.agents.rev = c.agents.rev => v.board.agents = c.agents
    /\ ~v.unsaved /\ v.board.personas.rev = c.personas.rev => Untouched(c.personas, v.board.personas)

\* What a process at x works on.
MineOK(c, x, o, t, m) ==
    /\ PersonasCopy(c.personas, m.personas)
    /\ o.kind # "persona" => AllKnown(m.agents.of, c.personas.of)
    /\ o.kind # "persona" /\ Working(x) /\ Head(t) = "writePair" => Agree(m)
    /\ o.kind = "persona" /\ IsCurrent(m, c) => Matches(m, c)
    /\ o.kind = "load" => Working(x)

\* The personas panel saves its personas alone when the agents stay as it shows them.
AloneOK(c, o, t, m, v) ==
    o.kind = "persona" /\ Head(t) = "writePersonas" =>
        /\ m.agents = v.board.agents
        /\ ~v.unsaved /\ m.personas.rev = c.personas.rev => Untouched(c.personas, m.personas)

CommittedOK(c) ==
    /\ PersonasOK(c.personas) /\ c.personas.rev >= 1 /\ c.agents.rev >= 1
    /\ AllKnown(c.agents.of, c.personas.of)

SumInv ==
    /\ CommittedOK(Committed)
    /\ KeepsKnown(files.personas.of, Committed.personas.of)
    /\ \A p \in Processes : MineOK(Committed, at[p], op[p], todo[p], mine[p])
    /\ \A d \in Desktops : /\ BoardOK(Committed, op[d], todo[d], view[d])
                           /\ AloneOK(Committed, op[d], todo[d], mine[d], view[d])

\* What a step does to what is committed.
SumStep == Agree(Committed) => Agree(Committed') \/ \E d \in Desktops : SavesUnsaved(d)
KnownStep ==
    /\ CommittedOK(Committed')
    /\ KeepsKnown(Committed.personas.of, Committed'.personas.of)
    /\ KeepsKnown(files'.personas.of, Committed'.personas.of)
    /\ SumStep

LEMMA CurrentStays ==
    ASSUME NEW c, NEW d, OneRevisionAtATime(c, d), c.rev \in Nat, NEW n \in Nat, n <= c.rev, n = d.rev
    PROVE  d = c
  BY DEF OneRevisionAtATime

LEMMA PersonasCopyStays ==
    ASSUME NEW c, NEW d, OneRevisionAtATime(c, d), c.rev \in Nat, NEW f, PersonasCopy(c, f)
    PROVE  PersonasCopy(d, f)
<1>1. f.rev \in Nat /\ f.rev <= c.rev BY DEF PersonasCopy, PersonasOK
<1>2. CASE d = c BY <1>2
<1>3. CASE d.rev = c.rev + 1 BY <1>1, <1>3 DEF PersonasCopy
<1> QED BY <1>2, <1>3 DEF OneRevisionAtATime

LEMMA EmptyPersonas ==
    ASSUME NEW c, c.personas.rev \in Nat, c.personas.rev >= 1
    PROVE  /\ PersonasCopy(c.personas, Empty.personas) /\ Empty.personas.rev # c.personas.rev
           /\ Empty.agents.rev = 0 /\ \A of : AllKnown(Empty.agents.of, of)
<1>1. Empty.personas.rev = 0 /\ Empty.agents.rev = 0 /\ Empty.personas.of = [q \in Personas |-> Unborn] /\ IsFile(Empty.personas)
  BY DEF Empty, IsFile
<1>2. \A a \in Agents : ~Born(Empty.agents.of, a) BY DEF Empty, Born
<1> QED BY <1>1, <1>2 DEF PersonasCopy, PersonasOK, AllKnown

LEMMA KnownOn ==
    ASSUME NEW of, SoundOf(of), NEW old, NEW new, AllKnown(of, old), KeepsKnown(old, new)
    PROVE  AllKnown(of, new)
<1> SUFFICES ASSUME NEW a \in Agents, Born(of, a)
             PROVE  of[a].persona = NoPersona \/ new[of[a].persona] # Unborn
  BY DEF AllKnown
<1>1. of[a].persona \in Personas \cup {NoPersona} BY BornIsSound DEF Sound, AgentRecord
<1> QED BY <1>1 DEF AllKnown, KeepsKnown

\* What somebody shows and works on stays as current as it was, or is not current
\* any more.
LEMMA OthersStay ==
    ASSUME IInv, RecordInv, SumInv, Advance, KnownStep
    PROVE  /\ \A q \in Processes : MineOK(Committed', at[q], op[q], todo[q], mine[q])
           /\ \A e \in Desktops : /\ BoardOK(Committed', op[e], todo[e], view[e])
                                 /\ AloneOK(Committed', op[e], todo[e], mine[e], view[e])
<1> DEFINE c == Committed
           d == Committed'
<1>3. /\ OneRevisionAtATime(c.agents, d.agents) /\ OneRevisionAtATime(c.personas, d.personas)
      /\ c.agents.rev \in Nat /\ c.personas.rev \in Nat
  BY CommittedIsSound DEF Advance, SumInv, CommittedOK, PersonasOK, SoundFile
<1>4. KeepsKnown(c.personas.of, d.personas.of) BY DEF KnownStep
<1> HIDE DEF c, d
<1>5. ASSUME NEW z, CopyOf(c.agents, z.agents), PersonasCopy(c.personas, z.personas)
      PROVE  /\ z.agents.rev = d.agents.rev => d.agents = c.agents
             /\ z.personas.rev = d.personas.rev => d.personas = c.personas
  <2>1. z.agents.rev \in Nat /\ z.agents.rev <= c.agents.rev BY <1>5 DEF CopyOf, SoundFile
  <2>2. z.personas.rev \in Nat /\ z.personas.rev <= c.personas.rev BY <1>5 DEF PersonasCopy, PersonasOK
  <2>3. z.agents.rev = d.agents.rev => d.agents = c.agents BY <1>3, <2>1, CurrentStays
  <2>4. z.personas.rev = d.personas.rev => d.personas = c.personas BY <1>3, <2>2, CurrentStays
  <2> QED BY <2>3, <2>4
<1>6. ASSUME NEW q \in Processes PROVE MineOK(d, at[q], op[q], todo[q], mine[q])
  <2> DEFINE z == mine[q]
  <2>1. MineOK(c, at[q], op[q], todo[q], z) /\ CopyOf(c.agents, z.agents) BY OfProcess DEF SumInv, c
  <2> HIDE DEF z
  <2>2. PersonasCopy(c.personas, z.personas) BY <2>1 DEF MineOK
  <2>3. PersonasCopy(d.personas, z.personas) BY <1>3, <2>2, PersonasCopyStays
  <2>4. op[q].kind # "persona" => AllKnown(z.agents.of, d.personas.of)
    <3>1. SoundOf(z.agents.of) BY <2>1 DEF CopyOf, SoundFile
    <3> QED BY <1>4, <2>1, <3>1, KnownOn DEF MineOK
  <2>5. op[q].kind = "persona" /\ IsCurrent(z, d) => Matches(z, d)
    <3>1. IsCurrent(z, d) => d.agents = c.agents /\ d.personas = c.personas
      BY <1>5, <2>1, <2>2 DEF IsCurrent
    <3> QED BY <2>1, <3>1 DEF MineOK, IsCurrent, Matches, SameSums
  <2>6. MineOK(d, at[q], op[q], todo[q], z) BY <2>1, <2>3, <2>4, <2>5 DEF MineOK
  <2> QED BY <2>6 DEF z
<1>7. ASSUME NEW e \in Desktops
      PROVE  BoardOK(d, op[e], todo[e], view[e]) /\ AloneOK(d, op[e], todo[e], mine[e], view[e])
  <2>0. e \in Processes BY DEF Processes
  <2> DEFINE w == view[e]
             z == mine[e]
  <2>1. /\ BoardOK(c, op[e], todo[e], w) /\ AloneOK(c, op[e], todo[e], z, w)
        /\ MineOK(c, at[e], op[e], todo[e], z)
        /\ CopyOf(c.agents, z.agents) /\ CopyOf(c.agents, w.agents) /\ CopyOf(c.agents, w.board.agents)
    BY <2>0, OfProcess DEF SumInv, c
  <2> HIDE DEF w, z
  <2>2. PersonasCopy(c.personas, w.board.personas) /\ PersonasCopy(c.personas, z.personas)
    BY <2>1 DEF BoardOK, MineOK
  <2>3. PersonasCopy(d.personas, w.board.personas) BY <1>3, <2>2, PersonasCopyStays
  <2>4. AllKnown(w.agents.of, d.personas.of)
    <3>1. SoundOf(w.agents.of) BY <2>1 DEF CopyOf, SoundFile
    <3> QED BY <1>4, <2>1, <3>1, KnownOn DEF BoardOK
  <2>5. /\ w.board.agents.rev = d.agents.rev => d.agents = c.agents
        /\ w.board.personas.rev = d.personas.rev => d.personas = c.personas
        /\ z.personas.rev = d.personas.rev => d.personas = c.personas
    BY <1>5, <2>1, <2>2
  <2>6. op[e].kind # "load" /\ IsCurrent(w.board, d) => Matches(w.board, d)
    BY <2>1, <2>5 DEF BoardOK, IsCurrent, Matches, SameSums
  <2>7. BoardOK(d, op[e], todo[e], w) BY <2>1, <2>3, <2>4, <2>5, <2>6 DEF BoardOK
  <2>8. AloneOK(d, op[e], todo[e], z, w) BY <2>1, <2>5 DEF AloneOK
  <2> QED BY <2>7, <2>8 DEF w, z
<1> QED BY <1>6, <1>7 DEF d

\* One process changes.
LEMMA OnlyOneSum ==
    ASSUME IInv, RecordInv, SumInv, Advance, KnownStep,
           NEW p \in Processes, NEW x, NEW o, NEW t, NEW m, NEW v, Becomes(p, x, o, t, m, v),
           MineOK(Committed', x, o, t, m),
           p \in Desktops => BoardOK(Committed', o, t, v) /\ AloneOK(Committed', o, t, m, v)
    PROVE  SumInv' /\ SumStep
<1> DEFINE d == Committed'
<1>1. \A q \in Processes : /\ at'[q] = (IF q = p THEN x ELSE at[q])
                           /\ op'[q] = (IF q = p THEN o ELSE op[q])
                           /\ todo'[q] = (IF q = p THEN t ELSE todo[q])
                           /\ mine'[q] = (IF q = p THEN m ELSE mine[q])
  BY DEF Becomes, IInv, Shapes, AtShape, MineShape, RecordInv, Workflows
<1>2. \A e \in Desktops : e \in Processes /\ view'[e] = IF e = p THEN v ELSE view[e]
  BY DEF Becomes, IInv, Shapes, ViewShape, Processes
<1>3. /\ \A q \in Processes : MineOK(d, at[q], op[q], todo[q], mine[q])
      /\ \A e \in Desktops : BoardOK(d, op[e], todo[e], view[e]) /\ AloneOK(d, op[e], todo[e], mine[e], view[e])
  BY OthersStay
<1>4. MineOK(d, x, o, t, m) /\ (p \in Desktops => BoardOK(d, o, t, v) /\ AloneOK(d, o, t, m, v)) OBVIOUS
<1> HIDE DEF d
<1>5. \A q \in Processes : MineOK(d, at'[q], op'[q], todo'[q], mine'[q]) BY <1>1, <1>3, <1>4
<1>6. \A e \in Desktops : /\ BoardOK(d, op'[e], todo'[e], view'[e])
                          /\ AloneOK(d, op'[e], todo'[e], mine'[e], view'[e])
  BY <1>1, <1>2, <1>3, <1>4
<1> QED BY <1>5, <1>6 DEF SumInv, KnownStep, d

-----------------------------------------------------------------------------
(* Steps that commit nothing new, and where a process goes *)

LEMMA KnownItself == ASSUME NEW of PROVE KeepsKnown(of, of)
  BY DEF KeepsKnown

LEMMA EmptyMine ==
    ASSUME NEW c, CommittedOK(c), NEW x, NEW o, NEW t, o.kind # "persona", o.kind = "load" => Working(x)
    PROVE  MineOK(c, x, o, t, Empty)
<1>1. PersonasCopy(c.personas, Empty.personas) /\ AllKnown(Empty.agents.of, c.personas.of)
  BY EmptyPersonas DEF CommittedOK, PersonasOK
<1>2. \A q \in Personas : ~Born(Empty.personas.of, q) BY DEF Empty, Born
<1>3. Agree(Empty) BY <1>2 DEF Agree
<1> QED BY <1>1, <1>3 DEF MineOK

\* A window that is not reading shows the same, whatever it begins or ends.
LEMMA BoardOn ==
    ASSUME NEW c, NEW o, NEW t, NEW v, BoardOK(c, o, t, v), o.kind # "load",
           NEW n, NEW u, u # <<"loadPersonas">>
    PROVE  BoardOK(c, n, u, v)
  BY DEF BoardOK

\* What is committed, as it is.
LEMMA ExactBoard ==
    ASSUME NEW c, CommittedOK(c), NEW o, NEW t, NEW v,
           v.agents = c.agents, v.board.agents = c.agents, v.board.personas = c.personas
    PROVE  BoardOK(c, o, t, v)
<1>1. PersonasCopy(c.personas, c.personas) BY KnownItself DEF CommittedOK, PersonasOK, PersonasCopy
<1>2. Untouched(c.personas, c.personas) BY DEF Untouched
<1>3. Matches(v.board, c)
  <2>1. Untouched(c.personas, v.board.personas) BY <1>2
  <2>2. SameSums(v.board, c) BY DEF SameSums
  <2> QED BY <2>1, <2>2 DEF Matches, CommittedOK
<1> QED BY <1>1, <1>2, <1>3 DEF BoardOK, CommittedOK

LEMMA BlankBoard ==
    ASSUME NEW c, CommittedOK(c), NEW o, NEW t
    PROVE  BoardOK(c, o, t, Blank)
<1>1. /\ PersonasCopy(c.personas, Empty.personas) /\ AllKnown(Empty.agents.of, c.personas.of)
      /\ Empty.personas.rev # c.personas.rev /\ Empty.agents.rev # c.agents.rev
  BY EmptyPersonas DEF CommittedOK, PersonasOK
<1>2. Blank.agents = Empty.agents /\ Blank.board = Empty BY DEF Blank
<1> QED BY <1>1, <1>2 DEF BoardOK, IsCurrent

LEMMA NothingSummed ==
    ASSUME SumInv, Committed' = Committed, files'.personas \in {files.personas, Committed.personas}
    PROVE  KnownStep
<1>1. CommittedOK(Committed') /\ SumStep BY DEF SumInv, SumStep
<1>2. KeepsKnown(Committed.personas.of, Committed'.personas.of) BY KnownItself
<1>3. KeepsKnown(files'.personas.of, Committed'.personas.of) BY KnownItself DEF SumInv
<1> QED BY <1>1, <1>2, <1>3 DEF KnownStep

\* p goes on within a command.
LEMMA MoveSums ==
    ASSUME IInv, RecordInv, SumInv, Advance, KnownStep, NEW p \in Processes, Working(at[p]),
           NEW x, at' = [at EXCEPT ![p] = x], Working(x), UNCHANGED <<op, todo, mine, view>>
    PROVE  SumInv' /\ SumStep
<1>1. Becomes(p, x, op[p], todo[p], mine[p], view[p]) BY OfProcess DEF Becomes
<1>2. /\ MineOK(Committed', at[p], op[p], todo[p], mine[p])
      /\ p \in Desktops => /\ BoardOK(Committed', op[p], todo[p], view[p])
                           /\ AloneOK(Committed', op[p], todo[p], mine[p], view[p])
  BY OthersStay
<1>3. MineOK(Committed', x, op[p], todo[p], mine[p]) BY <1>2 DEF MineOK
<1> QED BY <1>1, <1>2, <1>3, OnlyOneSum

LEMMA BeginSums ==
    ASSUME IInv, RecordInv, SumInv, NEW p \in Processes, NEW kind, NEW items, NEW pair, NEW commands,
           Begin(p, kind, items, pair, commands), commands # <<"loadPersonas">>,
           NEW o, o = [kind |-> kind, items |-> items],
           MineOK(Committed, "asks", o, commands, pair),
           p \in Desktops => AloneOK(Committed, o, commands, pair, view[p])
    PROVE  SumInv' /\ SumStep
<1>1. FilesStep /\ Committed' = Committed /\ files' = files BY NothingCommitted DEF Begin
<1>2. KnownStep /\ Advance BY <1>1, NothingSummed DEF FilesStep
<1>3. Becomes(p, "asks", o, commands, pair, view[p]) BY OfProcess DEF Becomes, Begin
<1>4. MineOK(Committed, at[p], op[p], todo[p], mine[p]) BY DEF SumInv
<1>5. op[p].kind # "load" BY <1>4 DEF MineOK, Working, Begin
<1>6. p \in Desktops => BoardOK(Committed, o, commands, view[p]) BY <1>5, BoardOn DEF SumInv
<1> QED BY <1>1, <1>2, <1>3, <1>6, OnlyOneSum

\* Commands that work on nothing yet.
LEMMA BeginEmptySums ==
    ASSUME IInv, RecordInv, SumInv, NEW p \in Processes, NEW kind, NEW items, NEW commands,
           Begin(p, kind, items, Empty, commands), commands # <<"loadPersonas">>, kind # "persona"
    PROVE  SumInv' /\ SumStep
<1> DEFINE o == [kind |-> kind, items |-> items]
<1>1. o = [kind |-> kind, items |-> items] /\ o.kind = kind OBVIOUS
<1> HIDE DEF o
<1>2. MineOK(Committed, "asks", o, commands, Empty) BY <1>1, EmptyMine DEF SumInv, Working
<1>3. p \in Desktops => AloneOK(Committed, o, commands, Empty, view[p]) BY <1>1 DEF AloneOK
<1> QED BY <1>1, <1>2, <1>3, BeginSums

LEMMA AnswerSums ==
    ASSUME IInv, RecordInv, SumInv, Advance, KnownStep, NEW p \in Processes,
           NEW left, NEW pair, Answer(p, left, pair),
           NEW v, IF p \in Desktops THEN view' = [view EXCEPT ![p] = v] ELSE view' = view,
           p \in Desktops => \A n : (left # <<>> => n = op[p]) => BoardOK(Committed', n, left, v),
           left # <<>> => /\ MineOK(Committed', "asks", op[p], left, pair)
                          /\ p \in Desktops => AloneOK(Committed', op[p], left, pair, v)
    PROVE  SumInv' /\ SumStep
<1>1. CASE left = <<>>
  <2> DEFINE o == [NoOp EXCEPT !.items = {}]
  <2>1. /\ at' = [at EXCEPT ![p] = "idle"] /\ op' = [op EXCEPT ![p] = o]
        /\ todo' = [todo EXCEPT ![p] = left] /\ mine' = [mine EXCEPT ![p] = Empty]
    BY <1>1 DEF Answer, Leave, Move
  <2>2. Becomes(p, "idle", o, left, Empty, v) BY <2>1 DEF Becomes
  <2>3. o.kind = "none" BY NoOpWith
  <2> HIDE DEF o
  <2>4. MineOK(Committed', "idle", o, left, Empty) BY <2>3, EmptyMine DEF KnownStep
  <2>5. p \in Desktops => BoardOK(Committed', o, left, v) /\ AloneOK(Committed', o, left, Empty, v)
    BY <1>1, <2>3 DEF AloneOK
  <2> QED BY <2>2, <2>4, <2>5, OnlyOneSum
<1>2. CASE left # <<>>
  <2>1. op = [op EXCEPT ![p] = op[p]] BY OfProcess
  <2>2. Becomes(p, "asks", op[p], left, pair, v) BY <1>2, <2>1 DEF Answer, Move, Becomes
  <2> QED BY <1>2, <2>2, OnlyOneSum
<1> QED BY <1>1, <1>2

-----------------------------------------------------------------------------
(* What the panels save *)

\* The agents panel gives personas that it knows.
LEMMA EditAgentSums ==
    ASSUME IInv, RecordInv, SumInv, NEW p \in Desktops, NEW a \in Agents, NEW r, EditAgent(p, a, r),
           r \notin {Unborn, Gone} => r.persona = NoPersona \/ Committed.personas.of[r.persona] # Unborn
    PROVE  SumInv' /\ SumStep
<1> DEFINE c == Committed
           s == view[p].agents
           f == [s EXCEPT !.of[a] = r]
           pair == [Empty EXCEPT !.agents = f]
           o == [kind |-> "agent", items |-> {}]
           t == <<"readPersonas", "writePair">>
<1>0. p \in Processes BY DEF Processes
<1>1. IsFile(s) /\ SoundOf(s.of) BY <1>0, OfProcess DEF CopyOf, SoundFile
<1>2. AllKnown(s.of, c.personas.of) /\ CommittedOK(c) BY DEF SumInv, BoardOK
<1>3. f.of = [s.of EXCEPT ![a] = r] BY <1>1 DEF IsFile
<1>4. \A b \in Agents : f.of[b] = IF b = a THEN r ELSE s.of[b] BY <1>1, <1>3 DEF SoundOf
<1>5. Begin(p, "agent", {}, pair, t) BY DEF EditAgent
<1>6. pair.agents = f /\ pair.personas = Empty.personas BY DEF Empty
<1>7. o = [kind |-> "agent", items |-> {}] /\ o.kind = "agent" /\ Head(t) = "readPersonas"
      /\ t # <<"loadPersonas">>
  OBVIOUS
<1> HIDE DEF c, f, pair, o, t
<1>8. ASSUME NEW b \in Agents, Born(f.of, b)
      PROVE  f.of[b].persona = NoPersona \/ c.personas.of[f.of[b].persona] # Unborn
  <2>1. CASE b = a BY <1>4, <1>8, <2>1 DEF Born, c
  <2>2. CASE b # a BY <1>2, <1>4, <1>8, <2>2 DEF AllKnown, Born
  <2> QED BY <2>1, <2>2
<1>9. AllKnown(f.of, c.personas.of) BY <1>8 DEF AllKnown
<1>10. PersonasCopy(c.personas, Empty.personas) BY <1>2, EmptyPersonas DEF CommittedOK, PersonasOK
<1>11. MineOK(c, "asks", o, t, pair) BY <1>6, <1>7, <1>9, <1>10 DEF MineOK
<1>12. AloneOK(c, o, t, pair, view[p]) BY <1>7 DEF AloneOK
<1> QED BY <1>0, <1>5, <1>7, <1>11, <1>12, BeginSums DEF c

LEMMA AgentsPanelSums ==
    ASSUME IInv, RecordInv, SumInv, NEW p \in Desktops, NEW a \in Agents,
           SaveAgent(p, a) \/ RemoveAgent(p, a) \/ ResetAgent(p, a)
    PROVE  SumInv' /\ SumStep
<1> DEFINE of == view[p].agents.of
           known(q) == q = NoPersona \/ Committed.personas.of[q] # Unborn
<1>0. p \in Processes BY DEF Processes
<1>1. SoundOf(of) /\ AllKnown(of, Committed.personas.of)
  BY <1>0, OfProcess DEF CopyOf, SoundFile, SumInv, BoardOK
<1>2. Born(of, a) => of[a] \in AgentRecord /\ known(of[a].persona)
  BY <1>1, BornIsSound DEF Sound, AllKnown
<1>3. CASE SaveAgent(p, a)
  <2>1. PICK q \in {r \in Personas : files.personas.of[r] # Unborn} \cup {NoPersona} :
           \/ Born(of, a) /\ EditAgent(p, a, [of[a] EXCEPT !.persona = q])
           \/ of[a] = Unborn /\ EditAgent(p, a, NewAgent(q))
    BY <1>3 DEF SaveAgent
  <2>2. known(q) BY <2>1 DEF SumInv, KeepsKnown
  <2>3. CASE Born(of, a) /\ EditAgent(p, a, [of[a] EXCEPT !.persona = q])
    <3>1. [of[a] EXCEPT !.persona = q].persona = q BY <1>2, <2>3 DEF AgentRecord
    <3> QED BY <2>2, <2>3, <3>1, EditAgentSums
  <2>4. CASE of[a] = Unborn /\ EditAgent(p, a, NewAgent(q))
    <3>1. NewAgent(q).persona = q BY DEF NewAgent
    <3> QED BY <2>2, <2>4, <3>1, EditAgentSums
  <2> QED BY <2>1, <2>3, <2>4
<1>4. CASE RemoveAgent(p, a) BY <1>4, EditAgentSums DEF RemoveAgent
<1>5. CASE ResetAgent(p, a)
  <2> DEFINE r == of[a]
             s == [r EXCEPT !.keys = {}, !.count = 0, !.resets = @ + 1]
  <2>1. Born(of, a) /\ EditAgent(p, a, s) BY <1>5 DEF ResetAgent
  <2>2. r \in AgentRecord /\ known(r.persona) BY <1>2, <2>1
  <2> HIDE DEF r
  <2>3. r = [keys |-> r.keys, count |-> r.count, persona |-> r.persona, resets |-> r.resets]
    BY <2>2 DEF AgentRecord
  <2>4. s = [r EXCEPT !.keys = {}, !.count = 0, !.resets = @ + 1] OBVIOUS
  <2> HIDE DEF s
  <2>5. s.persona = r.persona
    <3>1. s = [keys |-> {}, count |-> 0, persona |-> r.persona, resets |-> r.resets + 1]
      BY <2>3, <2>4, ResetFields
    <3> QED BY <3>1
  <2> QED BY <2>1, <2>2, <2>5, EditAgentSums
<1> QED BY <1>3, <1>4, <1>5

\* Nobody has a persona that was never there.
LEMMA NobodyHasUnborn ==
    ASSUME NEW of, NEW personas, AllKnown(of, personas), NEW q \in Personas, personas[q] = Unborn
    PROVE  Assigned(of, q) = {} /\ Summary(of, q) = 0
<1>1. ASSUME NEW a \in Assigned(of, q) PROVE FALSE BY <1>1, RecordAssumption DEF Assigned, AllKnown
<1>2. Assigned(of, q) = {} BY <1>1
<1> QED BY <1>2, NobodyNoSummary

\* Who works on copies of the committed personas agrees, if these do.
LEMMA MatchesAgree ==
    ASSUME NEW c, CommittedOK(c), NEW x, Matches(x, c), Agree(c)
    PROVE  Agree(x)
<1>1. CASE Agree(x) BY <1>1
<1>2. CASE Untouched(c.personas, x.personas) /\ SameSums(x, c)
  <2>1. ASSUME NEW q \in Personas, Born(x.personas.of, q)
        PROVE  x.personas.of[q] = Summary(x.agents.of, q)
    <3>1. Summary(x.agents.of, q) = Summary(c.agents.of, q) BY <1>2, <2>1 DEF SameSums
    <3>2. CASE x.personas.of[q] = c.personas.of[q]
      <4>1. Born(c.personas.of, q) BY <2>1, <3>2 DEF Born
      <4> QED BY <3>1, <3>2, <4>1 DEF Agree
    <3>3. CASE c.personas.of[q] = Unborn /\ x.personas.of[q] = 0
      <4>1. Summary(c.agents.of, q) = 0 BY <3>3, NobodyHasUnborn DEF CommittedOK
      <4> QED BY <3>1, <3>3, <4>1
    <3> QED BY <1>2, <2>1, <3>2, <3>3 DEF Untouched
  <2> QED BY <2>1 DEF Agree
<1> QED BY <1>1, <1>2 DEF Matches

\* A new persona has no summary yet.
Saved(f, q) == [f EXCEPT !.of[q] = IF @ = Unborn THEN 0 ELSE @]

LEMMA SavedPersona ==
    ASSUME NEW c, CommittedOK(c), NEW f, PersonasCopy(c.personas, f), NEW q \in Personas, NEW g,
           g = Saved(f, q)
    PROVE  /\ PersonasCopy(c.personas, g) /\ g.rev = f.rev /\ KeepsKnown(f.of, g.of)
           /\ f.rev = c.personas.rev /\ Untouched(c.personas, f) => Untouched(c.personas, g)
           /\ \A r \in Personas : g.of[r] = f.of[r] \/ (f.of[r] = Unborn /\ g.of[r] = 0)
<1>1. PersonasOK(f) BY DEF PersonasCopy
<1>2. g = [rev |-> f.rev, of |-> [f.of EXCEPT ![q] = IF @ = Unborn THEN 0 ELSE @]]
  BY <1>1 DEF PersonasOK, IsFile, Saved
<1>3. IsFile(g) /\ g.rev = f.rev /\ g.of = [f.of EXCEPT ![q] = IF @ = Unborn THEN 0 ELSE @]
  BY <1>2 DEF IsFile
<1>4. \A r \in Personas : g.of[r] = f.of[r] \/ (f.of[r] = Unborn /\ g.of[r] = 0)
  BY <1>1, <1>3 DEF PersonasOK
<1>5. PersonasOK(g) BY <1>1, <1>3 DEF PersonasOK
<1>6. KeepsKnown(f.of, g.of) BY <1>4, RecordAssumption DEF KeepsKnown
<1>7. PersonasCopy(c.personas, g)
  <2>1. f.rev = c.personas.rev => KeepsKnown(c.personas.of, g.of) BY <1>6 DEF PersonasCopy, KeepsKnown
  <2> QED BY <1>3, <1>5, <2>1 DEF PersonasCopy
<1>8. ASSUME f.rev = c.personas.rev, Untouched(c.personas, f), NEW r \in Personas, Born(g.of, r)
      PROVE  g.of[r] = c.personas.of[r] \/ (c.personas.of[r] = Unborn /\ g.of[r] = 0)
  <2>1. CASE g.of[r] = f.of[r]
    <3>1. Born(f.of, r) BY <1>8, <2>1 DEF Born
    <3> QED BY <1>8, <2>1, <3>1 DEF Untouched
  <2>2. CASE f.of[r] = Unborn /\ g.of[r] = 0 BY <1>8, <2>2 DEF PersonasCopy, KeepsKnown
  <2> QED BY <1>4, <2>1, <2>2
<1>9. f.rev = c.personas.rev /\ Untouched(c.personas, f) => Untouched(c.personas, g)
  BY <1>8 DEF Untouched
<1> QED BY <1>3, <1>4, <1>6, <1>7, <1>9

\* A removed persona is known.
LEMMA RemovedPersona ==
    ASSUME NEW c, NEW f, PersonasCopy(c.personas, f), NEW q \in Personas, NEW g,
           g = [f EXCEPT !.of[q] = Gone]
    PROVE  /\ PersonasCopy(c.personas, g) /\ g.rev = f.rev /\ KeepsKnown(f.of, g.of)
           /\ Untouched(c.personas, f) => Untouched(c.personas, g)
           /\ \A r \in Personas : Born(g.of, r) => r # q /\ g.of[r] = f.of[r] /\ Born(f.of, r)
<1>1. PersonasOK(f) BY DEF PersonasCopy
<1>2. g = [rev |-> f.rev, of |-> [f.of EXCEPT ![q] = Gone]] BY <1>1 DEF PersonasOK, IsFile
<1>3. IsFile(g) /\ g.rev = f.rev /\ g.of = [f.of EXCEPT ![q] = Gone] BY <1>2 DEF IsFile
<1>4. \A r \in Personas : g.of[r] = IF r = q THEN Gone ELSE f.of[r] BY <1>1, <1>3 DEF PersonasOK
<1>5. PersonasOK(g) BY <1>1, <1>3 DEF PersonasOK
<1>6. KeepsKnown(f.of, g.of) BY <1>4, RecordAssumption DEF KeepsKnown
<1>7. PersonasCopy(c.personas, g)
  <2>1. f.rev = c.personas.rev => KeepsKnown(c.personas.of, g.of) BY <1>6 DEF PersonasCopy, KeepsKnown
  <2> QED BY <1>3, <1>5, <2>1 DEF PersonasCopy
<1>8. \A r \in Personas : Born(g.of, r) => r # q /\ g.of[r] = f.of[r] /\ Born(f.of, r) BY <1>4 DEF Born
<1>9. Untouched(c.personas, f) => Untouched(c.personas, g) BY <1>8 DEF Untouched
<1> QED BY <1>3, <1>6, <1>7, <1>8, <1>9

\* Summaries made of sound agents keep the personas known.
LEMMA SyncedPersonas ==
    ASSUME NEW c, NEW f, PersonasCopy(c, f), NEW of, SoundOf(of)
    PROVE  /\ PersonasCopy(c, Sync(f, of)) /\ Sync(f, of).rev = f.rev /\ KeepsKnown(f.of, Sync(f, of).of)
<1> DEFINE g == Sync(f, of)
<1>1. PersonasOK(f) BY DEF PersonasCopy
<1>2. IsFile(g) /\ g.rev = f.rev BY <1>1, SyncKeepsRevision DEF PersonasOK
<1>3. g.of = [q \in Personas |-> IF Born(f.of, q) THEN Summary(of, q) ELSE f.of[q]]
  BY <1>1 DEF Sync, PersonasOK, IsFile
<1>4. \A q \in Personas : Summary(of, q) # Unborn BY SummaryIsNumber
<1>5. KeepsKnown(f.of, g.of) BY <1>3, <1>4 DEF KeepsKnown
<1>6. PersonasOK(g) BY <1>1, <1>2, <1>3 DEF PersonasOK
<1>7. f.rev = c.rev => KeepsKnown(c.of, g.of) BY <1>5 DEF PersonasCopy, KeepsKnown
<1> QED BY <1>2, <1>5, <1>6, <1>7 DEF PersonasCopy

\* The agents that get or lose a persona keep what they scored.
LEMMA GivenAgents ==
    ASSUME NEW of, SoundOf(of), NEW S, S \subseteq {a \in Agents : Born(of, a)},
           NEW q \in Personas \cup {NoPersona}
    PROVE  \A a \in Agents : LET new == Give(of, S, q)[a] IN
              /\ Born(Give(of, S, q), a) <=> Born(of, a)
              /\ Born(of, a) => /\ new.persona = IF a \in S THEN q ELSE of[a].persona
                                /\ new.count = of[a].count
              /\ a \notin S => new = of[a]
<1> DEFINE g == Give(of, S, q)
<1>1. g = [a \in Agents |-> IF a \in S THEN [of[a] EXCEPT !.persona = q] ELSE of[a]] BY DEF Give
<1>2. SoundOf(g) BY GiveKeeps
<1>3. ASSUME NEW a \in Agents
      PROVE  /\ Born(g, a) <=> Born(of, a)
             /\ Born(of, a) => /\ g[a].persona = IF a \in S THEN q ELSE of[a].persona
                               /\ g[a].count = of[a].count
             /\ a \notin S => g[a] = of[a]
  <2>1. CASE a \notin S
    <3>1. g[a] = of[a] BY <1>1, <2>1
    <3> HIDE DEF g
    <3> QED BY <2>1, <3>1 DEF Born
  <2>2. CASE a \in S
    <3>1. Born(of, a) BY <2>2
    <3>2. Sound(of[a]) /\ of[a] \in AgentRecord BY <3>1, BornIsSound DEF Sound
    <3>3. g[a] = [of[a] EXCEPT !.persona = q] BY <1>1, <2>2
    <3> HIDE DEF g
    <3>4. g[a].persona = q /\ g[a].count = of[a].count BY <3>2, <3>3 DEF AgentRecord
    <3>5. Sound(g[a]) BY <3>2, <3>3, AssignKeeps
    <3>6. Born(g, a) BY <1>2, <3>5, BornIsSound
    <3> QED BY <2>2, <3>1, <3>4, <3>6
  <2> QED BY <2>1, <2>2
<1> QED BY <1>3

\* A persona is saved alone.
LEMMA SavedAlone ==
    ASSUME NEW c, CommittedOK(c), NEW b, PersonasCopy(c.personas, b.personas), SoundOf(b.agents.of),
           NEW q \in Personas, IsCurrent(b, c) => Matches(b, c),
           NEW f, f = Saved(b.personas, q),
           NEW x, x.agents = b.agents, x.personas = f, IsCurrent(x, c)
    PROVE  Matches(x, c)
<1>1. /\ f.rev = b.personas.rev /\ KeepsKnown(b.personas.of, f.of)
      /\ f.rev = c.personas.rev /\ Untouched(c.personas, b.personas) => Untouched(c.personas, f)
      /\ \A r \in Personas : \/ f.of[r] = b.personas.of[r]
                             \/ b.personas.of[r] = Unborn /\ f.of[r] = 0
  BY SavedPersona
<1>2. f.rev = c.personas.rev /\ Matches(b, c) BY <1>1 DEF IsCurrent
<1>3. AllKnown(b.agents.of, b.personas.of) BY <1>2 DEF Matches
<1>4. AllKnown(x.agents.of, x.personas.of) BY <1>1, <1>3, KnownOn
<1>5. \A r \in Personas : b.personas.of[r] = Unborn => Summary(b.agents.of, r) = 0
  BY <1>3, NobodyHasUnborn
<1>6. CASE Agree(b)
  <2>1. ASSUME NEW r \in Personas, Born(f.of, r) PROVE f.of[r] = Summary(b.agents.of, r)
    <3>1. CASE f.of[r] = b.personas.of[r]
      <4>1. Born(b.personas.of, r) BY <2>1, <3>1 DEF Born
      <4> QED BY <1>6, <3>1, <4>1 DEF Agree
    <3>2. CASE b.personas.of[r] = Unborn /\ f.of[r] = 0 BY <1>5, <3>2
    <3> QED BY <1>1, <3>1, <3>2
  <2>2. Agree(x) BY <2>1 DEF Agree
  <2> QED BY <1>4, <2>2 DEF Matches
<1>7. CASE Untouched(c.personas, b.personas) /\ SameSums(b, c)
  <2>1. Untouched(c.personas, f) BY <1>1, <1>2, <1>7
  <2>2. ASSUME NEW r \in Personas, Born(f.of, r)
        PROVE  Summary(b.agents.of, r) = Summary(c.agents.of, r)
    <3>1. CASE f.of[r] = b.personas.of[r]
      <4>1. Born(b.personas.of, r) BY <2>2, <3>1 DEF Born
      <4> QED BY <1>7, <4>1 DEF SameSums
    <3>2. CASE b.personas.of[r] = Unborn
      <4>1. c.personas.of[r] = Unborn BY <1>1, <1>2, <3>2 DEF PersonasCopy, KeepsKnown
      <4>2. Summary(c.agents.of, r) = 0 BY <4>1, NobodyHasUnborn DEF CommittedOK
      <4> QED BY <1>5, <3>2, <4>2
    <3> QED BY <1>1, <2>2, <3>1, <3>2
  <2>3. SameSums(x, c) BY <2>2 DEF SameSums
  <2> QED BY <1>4, <2>1, <2>3 DEF Matches
<1> QED BY <1>2, <1>6, <1>7 DEF Matches

\* A persona is saved with agents that get it: its pair agrees.
LEMMA SavedWith ==
    ASSUME NEW c, CommittedOK(c), NEW b, PersonasCopy(c.personas, b.personas), SoundOf(b.agents.of),
           NEW q \in Personas, IsCurrent(b, c) => Matches(b, c),
           NEW f, f = Saved(b.personas, q),
           NEW S, S \subseteq {a \in Agents : Born(b.agents.of, a)},
           NEW x, b.agents.rev = x.agents.rev, x.agents.of = Give(b.agents.of, S, q),
           x.personas = Sync(f, x.agents.of)
    PROVE  PersonasCopy(c.personas, x.personas) /\ (IsCurrent(x, c) => Matches(x, c))
<1> DEFINE of == x.agents.of
<1>1. PersonasCopy(c.personas, f) /\ f.rev = b.personas.rev /\ KeepsKnown(b.personas.of, f.of)
  BY SavedPersona
<1>2. SoundOf(of) /\ x.personas = Sync(f, of) BY GiveKeeps
<1> HIDE DEF of
<1>3. /\ PersonasCopy(c.personas, x.personas) /\ x.personas.rev = f.rev
      /\ KeepsKnown(f.of, x.personas.of)
  BY ONLY <1>1, <1>2, SyncedPersonas
<1>4. Agree(x)
  <2>1. IsFile(f) BY <1>1 DEF PersonasCopy, PersonasOK
  <2> QED BY <1>2, <2>1, SyncAgrees DEF of
<1>5. ASSUME IsCurrent(x, c) PROVE AllKnown(of, x.personas.of)
  <2>1. AllKnown(b.agents.of, b.personas.of) BY <1>1, <1>3, <1>5 DEF IsCurrent, Matches
  <2>9. of = Give(b.agents.of, S, q) BY DEF of
  <2>2. f.of[q] # Unborn
    <3>1. f.of = [b.personas.of EXCEPT ![q] = IF @ = Unborn THEN 0 ELSE @]
      BY DEF PersonasCopy, PersonasOK, IsFile, Saved
    <3>2. f.of[q] = IF b.personas.of[q] = Unborn THEN 0 ELSE b.personas.of[q]
      BY <3>1 DEF PersonasCopy, PersonasOK
    <3> QED BY <3>2, RecordAssumption
  <2>3. KeepsKnown(b.personas.of, x.personas.of) /\ x.personas.of[q] # Unborn
    BY <1>1, <1>3, <2>2 DEF KeepsKnown
  <2>4. AllKnown(b.agents.of, x.personas.of) BY <2>1, <2>3, KnownOn
  <2>5. \A a \in Agents : /\ Born(of, a) <=> Born(b.agents.of, a)
                          /\ Born(b.agents.of, a) => of[a].persona = IF a \in S THEN q ELSE b.agents.of[a].persona
    BY <2>9, GivenAgents
  <2> QED BY <2>3, <2>4, <2>5 DEF AllKnown
<1> QED BY <1>3, <1>4, <1>5 DEF Matches, of

\* A persona is removed, and the agents that had it have none.
LEMMA RemovedWith ==
    ASSUME NEW c, CommittedOK(c), NEW b, PersonasCopy(c.personas, b.personas), SoundOf(b.agents.of),
           NEW q \in Personas, IsCurrent(b, c) => Matches(b, c),
           NEW x, x.personas = [b.personas EXCEPT !.of[q] = Gone], b.agents.rev = x.agents.rev,
           x.agents.of = Give(b.agents.of, Assigned(b.agents.of, q), NoPersona), IsCurrent(x, c)
    PROVE  Matches(x, c)
<1> DEFINE of == x.agents.of
           S == Assigned(b.agents.of, q)
           f == x.personas
<1>1. /\ f.rev = b.personas.rev /\ KeepsKnown(b.personas.of, f.of)
      /\ Untouched(c.personas, b.personas) => Untouched(c.personas, f)
      /\ \A r \in Personas : Born(f.of, r) => r # q /\ f.of[r] = b.personas.of[r] /\ Born(b.personas.of, r)
  BY RemovedPersona
<1>2. Matches(b, c) BY <1>1 DEF IsCurrent
<1>3. \A a \in Agents :
         /\ Born(of, a) <=> Born(b.agents.of, a)
         /\ Born(b.agents.of, a) => /\ of[a].persona = IF a \in S THEN NoPersona ELSE b.agents.of[a].persona
                                    /\ of[a].count = b.agents.of[a].count
  <2>1. S \subseteq {a \in Agents : Born(b.agents.of, a)} BY DEF Assigned
  <2> HIDE DEF S
  <2>2. of = Give(b.agents.of, S, NoPersona) BY DEF S
  <2> HIDE DEF of
  <2> QED BY <2>1, <2>2, GivenAgents
<1>4. AllKnown(of, f.of)
  <2>1. AllKnown(b.agents.of, b.personas.of) BY <1>2 DEF Matches
  <2>2. AllKnown(b.agents.of, f.of) BY <1>1, <2>1, KnownOn
  <2> HIDE DEF of, f, S
  <2> QED BY <1>3, <2>2 DEF AllKnown
<1>5. ASSUME NEW r \in Personas, Born(f.of, r)
      PROVE  Summary(of, r) = Summary(b.agents.of, r)
  <2>1. r # q /\ r # NoPersona BY <1>1, <1>5, RecordAssumption
  <2>2. \A a \in S : b.agents.of[a].persona = q BY DEF Assigned
  <2> HIDE DEF of, f, S
  <2>3. Assigned(of, r) = Assigned(b.agents.of, r) BY <1>3, <2>1, <2>2 DEF Assigned
  <2>4. \A a \in Assigned(b.agents.of, r) : of[a].count = b.agents.of[a].count BY <1>3 DEF Assigned
  <2> QED BY <2>3, <2>4, SameAgentsSameSummary
<1>6. CASE Agree(b)
  <2>1. ASSUME NEW r \in Personas, Born(f.of, r) PROVE f.of[r] = Summary(of, r)
    BY <1>1, <1>5, <1>6, <2>1 DEF Agree
  <2>2. Agree(x) BY <2>1 DEF Agree
  <2> QED BY <1>4, <2>2 DEF Matches
<1>7. CASE Untouched(c.personas, b.personas) /\ SameSums(b, c)
  <2>1. ASSUME NEW r \in Personas, Born(f.of, r) PROVE Summary(of, r) = Summary(c.agents.of, r)
    BY <1>1, <1>5, <1>7, <2>1 DEF SameSums
  <2>2. SameSums(x, c) BY <2>1 DEF SameSums
  <2> QED BY <1>1, <1>4, <1>7, <2>2 DEF Matches
<1> QED BY <1>2, <1>6, <1>7 DEF Matches

LEMMA PersonasPanelSums ==
    ASSUME IInv, RecordInv, SumInv, NEW p \in Desktops, NEW q \in Personas,
           SavePersona(p, q) \/ RemovePersona(p, q)
    PROVE  SumInv' /\ SumStep
<1> DEFINE c == Committed
           b == view[p].board
           o == [kind |-> "persona", items |-> {}]
           alone == <<"writePersonas">>
           both == <<"writePair">>
<1>0. p \in Processes BY DEF Processes
<1>1. /\ CommittedOK(c) /\ IsPair(b) /\ IsFile(b.agents) /\ SoundOf(b.agents.of)
      /\ BoardOK(c, op[p], todo[p], view[p])
  BY <1>0, OfProcess DEF IsView, CopyOf, SoundFile, SumInv
<1>2. op[p].kind # "load"
  <2>1. MineOK(c, at[p], op[p], todo[p], mine[p]) BY <1>0 DEF SumInv
  <2> QED BY <2>1 DEF MineOK, Working, SavePersona, RemovePersona, Begin
<1>3. /\ PersonasCopy(c.personas, b.personas) /\ (IsCurrent(b, c) => Matches(b, c))
      /\ ~view[p].unsaved /\ b.personas.rev = c.personas.rev => Untouched(c.personas, b.personas)
  BY <1>1, <1>2 DEF BoardOK
<1>4. /\ o = [kind |-> "persona", items |-> {}] /\ o.kind = "persona"
      /\ alone # <<"loadPersonas">> /\ both # <<"loadPersonas">>
      /\ Head(alone) = "writePersonas" /\ Head(both) = "writePair"
  OBVIOUS
<1> HIDE DEF c, b, o, alone, both
<1>5. ASSUME NEW x, NEW t \in {alone, both}, Begin(p, "persona", {}, x, t),
             PersonasCopy(c.personas, x.personas), IsCurrent(x, c) => Matches(x, c),
             t = alone => /\ x.agents = b.agents
                          /\ ~view[p].unsaved /\ x.personas.rev = c.personas.rev => Untouched(c.personas, x.personas)
      PROVE  SumInv' /\ SumStep
  <2>1. MineOK(c, "asks", o, t, x) BY <1>4, <1>5 DEF MineOK
  <2>2. AloneOK(c, o, t, x, view[p])
    <3>1. CASE t = alone BY <1>5, <3>1 DEF AloneOK, b
    <3>2. CASE t = both BY <1>4, <3>2 DEF AloneOK
    <3> QED BY <1>5, <3>1, <3>2
  <2> QED BY <1>0, <1>4, <1>5, <2>1, <2>2, BeginSums DEF c
<1>6. CASE SavePersona(p, q)
  <2> DEFINE f == [b.personas EXCEPT !.of[q] = IF @ = Unborn THEN 0 ELSE @]
             x == [b EXCEPT !.personas = f]
             given(S) == [agents   |-> [b.agents EXCEPT !.of = Give(b.agents.of, S, q)],
                          personas |-> Sync(f, Give(b.agents.of, S, q))]
  <2>1. PICK S \in SUBSET Assigned(b.agents.of, NoPersona) :
           IF S = {} THEN Begin(p, "persona", {}, x, alone) ELSE Begin(p, "persona", {}, given(S), both)
    BY <1>6 DEF SavePersona, alone, both, b
  <2>2. CASE S = {}
    <3>1. Begin(p, "persona", {}, x, alone) BY <2>1, <2>2
    <3>2. f = Saved(b.personas, q) BY DEF Saved
    <3>3. PersonasCopy(c.personas, f) /\ f.rev = b.personas.rev
          /\ (f.rev = c.personas.rev /\ Untouched(c.personas, b.personas) => Untouched(c.personas, f))
      <4> HIDE DEF f
      <4> QED BY <1>1, <1>3, <3>2, SavedPersona
    <3> HIDE DEF f
    <3>4. x.agents = b.agents /\ x.personas = f BY <1>1 DEF IsPair
    <3> HIDE DEF x
    <3>5. IsCurrent(x, c) => Matches(x, c) BY <1>1, <1>3, <3>2, <3>4, SavedAlone
    <3> QED BY <1>3, <1>5, <3>1, <3>3, <3>4, <3>5
  <2>3. CASE S # {}
    <3> DEFINE y == given(S)
    <3>1. Begin(p, "persona", {}, y, both) /\ y = given(S) BY <2>1, <2>3
    <3>2. f = Saved(b.personas, q) BY DEF Saved
    <3>3. S \subseteq {a \in Agents : Born(b.agents.of, a)} BY <2>1 DEF Assigned
    <3> HIDE DEF f
    <3>4. /\ y.agents.of = Give(b.agents.of, S, q) /\ y.agents.rev = b.agents.rev
          /\ y.personas = Sync(f, y.agents.of)
      BY <1>1, FileUpdates DEF IsFile
    <3> HIDE DEF y
    <3>5. PersonasCopy(c.personas, y.personas) /\ (IsCurrent(y, c) => Matches(y, c))
      BY <1>1, <1>3, <3>2, <3>3, <3>4, SavedWith
    <3> QED BY <1>4, <1>5, <3>1, <3>5
  <2> QED BY <2>2, <2>3
<1>7. CASE RemovePersona(p, q)
  <2> DEFINE S == Assigned(b.agents.of, q)
             none == Give(b.agents.of, S, NoPersona)
             fewer == [b.agents EXCEPT !.of = none]
             f == [b.personas EXCEPT !.of[q] = Gone]
             x == [b EXCEPT !.agents.of = Give(@, S, NoPersona), !.personas.of[q] = Gone]
  <2>1. Begin(p, "persona", {}, x, IF S = {} THEN alone ELSE both)
    BY <1>7 DEF RemovePersona, alone, both, b
  <2>2. b = [agents |-> b.agents, personas |-> b.personas] BY <1>1 DEF IsPair
  <2>3. x.agents = fewer /\ x.personas = f
    <3> DEFINE y == [agents |-> fewer, personas |-> b.personas]
    <3>1. [b EXCEPT !.agents.of = Give(@, S, NoPersona)] = y BY <2>2
    <3>2. x = [[b EXCEPT !.agents.of = Give(@, S, NoPersona)] EXCEPT !.personas.of[q] = Gone]
      BY <2>2
    <3>3. [y EXCEPT !.personas.of[q] = Gone] = [agents |-> fewer, personas |-> f] OBVIOUS
    <3> HIDE DEF x, fewer, f, y
    <3> QED BY <3>1, <3>2, <3>3
  <2>4. fewer.of = none /\ fewer.rev = b.agents.rev BY <1>1, FileUpdates DEF IsFile
  <2>5. f = [b.personas EXCEPT !.of[q] = Gone] OBVIOUS
  <2>6. S = {} => fewer = b.agents
    <3>1. S = {} => none = b.agents.of BY <1>1 DEF Give, SoundOf
    <3> HIDE DEF none, S
    <3>2. b.agents = [rev |-> b.agents.rev, of |-> b.agents.of] BY <1>1 DEF IsFile
    <3> QED BY <3>1, <3>2
  <2>7. none = Give(b.agents.of, Assigned(b.agents.of, q), NoPersona) /\ S = Assigned(b.agents.of, q) OBVIOUS
  <2> HIDE DEF x, fewer, f, none, S
  <2>8. /\ PersonasCopy(c.personas, f) /\ f.rev = b.personas.rev
        /\ (Untouched(c.personas, b.personas) => Untouched(c.personas, f))
    BY <1>3, <2>5, RemovedPersona
  <2>9. IsCurrent(x, c) => Matches(x, c) BY <1>1, <1>3, <2>3, <2>4, <2>5, <2>7, RemovedWith
  <2>10. CASE S = {} BY <1>3, <1>5, <2>1, <2>3, <2>6, <2>8, <2>9, <2>10
  <2>11. CASE S # {} BY <1>4, <1>5, <2>1, <2>3, <2>8, <2>9, <2>11
  <2> QED BY <2>10, <2>11
<1> QED BY <1>6, <1>7

LEMMA StartSums ==
    ASSUME IInv, RecordInv, SumInv, NEW p \in Processes, Start(p)
    PROVE  SumInv' /\ SumStep
<1>1. /\ <<"loadAgents", "loadPersonas">> # <<"loadPersonas">> /\ SaveEvaluation # <<"loadPersonas">>
      /\ <<"commit">> # <<"loadPersonas">>
  BY DEF SaveEvaluation
<1>2. CASE p \notin Desktops
  <2>1. PICK items : Begin(p, "batch", items, Empty, <<"commit">>) BY <1>2 DEF Start, EvaluateBatch
  <2> QED BY <1>1, <2>1, BeginEmptySums
<1>3. CASE p \in Desktops
  <2>0. p \notin Clis BY <1>3, ProcessAssumption
  <2>1. CASE Load(p) BY <1>1, <2>1, BeginEmptySums DEF Load
  <2>2. CASE Retry(p) BY <1>1, <2>2, BeginEmptySums DEF Retry
  <2>3. ASSUME NEW a \in Agents, SaveAgent(p, a) \/ RemoveAgent(p, a) \/ ResetAgent(p, a)
        PROVE  SumInv' /\ SumStep
    BY <1>3, <2>3, AgentsPanelSums
  <2>4. ASSUME NEW a \in Agents, NEW k \in Keys, Evaluate(p, a, k) PROVE SumInv' /\ SumStep
    BY <1>1, <2>4, BeginEmptySums DEF Evaluate
  <2>5. ASSUME NEW q \in Personas, SavePersona(p, q) \/ RemovePersona(p, q) PROVE SumInv' /\ SumStep
    BY <1>3, <2>5, PersonasPanelSums
  <2> QED BY <1>3, <2>0, <2>1, <2>2, <2>3, <2>4, <2>5 DEF Start
<1> QED BY <1>2, <1>3

-----------------------------------------------------------------------------
(* What a failure leaves on display *)

LEMMA FailedSums ==
    ASSUME IInv, RecordInv, SumInv, NEW p \in Processes, Working(at[p]), Failed(p),
           UNCHANGED <<files, pending, journal>>
    PROVE  SumInv' /\ SumStep
<1> DEFINE c == Committed
           s == view[p]
           m == mine[p]
           t == todo[p]
           k == op[p].kind
<1>0. FilesStep /\ Committed' = c /\ files' = files BY NothingCommitted
<1>1. KnownStep /\ Advance BY <1>0, NothingSummed DEF FilesStep
<1>2. /\ WorkOK(p, at[p], op[p], t) /\ IsPair(m) /\ op = [op EXCEPT ![p] = op[p]]
      /\ mine = [mine EXCEPT ![p] = m] /\ CommittedOK(c)
      /\ MineOK(c, at[p], op[p], t, m) /\ After(k, t) /\ t \in Lefts(k)
  BY OfProcess, HeadOfLeft DEF SumInv, WorkOK
<1>3. p \in Desktops => IsView(s) /\ BoardOK(c, op[p], t, s) /\ AloneOK(c, op[p], t, m, s)
  BY OfProcess DEF SumInv
<1>4. CASE Head(t) = "loadAgents"
  <2> DEFINE f == Empty.agents
             v == [s EXCEPT !.agents = f, !.board.agents = f]
  <2>1. k = "load" /\ Tail(t) = <<"loadPersonas">> /\ p \in Desktops BY <1>2, <1>4 DEF After, WorkOK
  <2>2. Becomes(p, "asks", op[p], Tail(t), m, v) BY <1>2, <1>4, <2>1 DEF Failed, Move, Becomes
  <2>3. v.agents = f /\ v.board.agents = f /\ v.board.personas = s.board.personas /\ v.unsaved = s.unsaved
    <3> DEFINE b == s.board
               d == [b EXCEPT !.agents = f]
    <3>1. b = [agents |-> b.agents, personas |-> b.personas] BY <1>3, <2>1 DEF IsView, IsPair
    <3>2. v = [agents |-> f, board |-> d, unsaved |-> s.unsaved] BY <1>3, <2>1, EmptiedView
    <3> HIDE DEF b, v
    <3>3. d.agents = f /\ d.personas = b.personas BY <3>1
    <3> QED BY <3>2, <3>3 DEF b
  <2> HIDE DEF v
  <2>4. /\ AllKnown(f.of, c.personas.of) /\ f.rev # c.agents.rev
    BY <1>2, EmptyPersonas DEF CommittedOK, PersonasOK
  <2>5. BoardOK(c, op[p], Tail(t), v) BY <1>3, <2>1, <2>3, <2>4 DEF BoardOK
  <2>6. MineOK(c, "asks", op[p], Tail(t), m)
    <3>1. op[p].kind = "load" /\ Working("asks") BY <2>1 DEF Working
    <3>2. AllKnown(m.agents.of, c.personas.of) /\ PersonasCopy(c.personas, m.personas)
      BY <1>2, <3>1 DEF MineOK
    <3> DEFINE u == Tail(t)
    <3>3. u = <<"loadPersonas">> BY <2>1
    <3> HIDE DEF c, m, u
    <3>4. Head(u) = "loadPersonas" BY <3>3
    <3>5. MineOK(c, "asks", op[p], u, m) BY <3>1, <3>2, <3>4 DEF MineOK
    <3> QED BY <3>5 DEF u
  <2>7. AloneOK(c, op[p], Tail(t), m, v) BY <2>1 DEF AloneOK
  <2> QED BY <1>0, <1>1, <2>2, <2>5, <2>6, <2>7, OnlyOneSum
<1>5. CASE Head(t) # "loadAgents"
  <2>1. PICK x \in {"idle", "failed"} : Leave(p, x) BY <1>5 DEF Failed
  <2> DEFINE o == [NoOp EXCEPT !.items = IF x = "failed" THEN op[p].items ELSE {}]
  <2>2. /\ at' = [at EXCEPT ![p] = x] /\ op' = [op EXCEPT ![p] = o]
        /\ todo' = [todo EXCEPT ![p] = <<>>] /\ mine' = [mine EXCEPT ![p] = Empty]
    BY <1>5, <2>1 DEF Failed, Leave, Move
  <2>3. o.kind = "none" BY DEF NoOp
  <2> HIDE DEF o
  <2>4. MineOK(c, x, o, <<>>, Empty) BY <1>2, <2>3, EmptyMine
  <2>5. ASSUME NEW v, IF p \in Desktops THEN view' = [view EXCEPT ![p] = v] ELSE view' = view,
               p \in Desktops => BoardOK(c, o, <<>>, v)
        PROVE  SumInv' /\ SumStep
    <3>1. Becomes(p, x, o, <<>>, Empty, v) BY <2>2, <2>5 DEF Becomes
    <3>2. AloneOK(c, o, <<>>, Empty, v) BY <2>3 DEF AloneOK
    <3> QED BY <1>0, <1>1, <2>4, <2>5, <3>1, <3>2, OnlyOneSum
  <2>6. CASE p \notin Desktops
    <3>1. view' = view BY <2>6 DEF Failed
    <3> QED BY <2>5, <2>6, <3>1
  <2>7. CASE p \in Desktops /\ Head(t) = "loadPersonas"
    <3> DEFINE f == Empty.personas
               v == [s EXCEPT !.board.personas = f, !.unsaved = FALSE]
    <3>1. view' = [view EXCEPT ![p] = v] BY <2>7 DEF Failed
    <3>2. v.agents = s.agents /\ v.board.personas = f
      <4> DEFINE b == s.board
                 d == [b EXCEPT !.personas = f]
      <4>1. b = [agents |-> b.agents, personas |-> b.personas] BY <1>3, <2>7 DEF IsView, IsPair
      <4>2. v = [agents |-> s.agents, board |-> d, unsaved |-> FALSE] BY <1>3, <2>7, ReloadedView
      <4> HIDE DEF b, v
      <4>3. d.personas = f BY <4>1
      <4> QED BY <4>2, <4>3
    <3> HIDE DEF v
    <3>3. PersonasCopy(c.personas, f) /\ f.rev # c.personas.rev
      BY <1>2, EmptyPersonas DEF CommittedOK, PersonasOK
    <3>4. BoardOK(c, o, <<>>, v) BY <1>3, <2>7, <3>2, <3>3 DEF BoardOK, IsCurrent
    <3> QED BY <2>5, <2>7, <3>1, <3>4
  <2>8. CASE p \in Desktops /\ Head(t) = "writePersonas"
    <3> DEFINE f == m.personas
               v == [s EXCEPT !.board.personas = f]
    <3>0. k = "persona" BY <1>2, <2>8 DEF After
    <3>1. view' = [view EXCEPT ![p] = v] BY <2>8 DEF Failed
    <3>2. /\ v.agents = s.agents /\ v.board.agents = s.board.agents /\ v.board.personas = f
          /\ v.unsaved = s.unsaved
      <4> DEFINE b == s.board
                 d == [b EXCEPT !.personas = f]
      <4>1. b = [agents |-> b.agents, personas |-> b.personas] BY <1>3, <2>8 DEF IsView, IsPair
      <4>2. v = [agents |-> s.agents, board |-> d, unsaved |-> s.unsaved] BY <1>3, <2>8, PersonasView
      <4> HIDE DEF b, v
      <4>3. d.personas = f /\ d.agents = b.agents BY <4>1
      <4> QED BY <4>2, <4>3 DEF b
    <3> HIDE DEF v
    <3>3. /\ m.agents = s.board.agents /\ PersonasCopy(c.personas, f)
          /\ IsCurrent(m, c) => Matches(m, c)
          /\ ~s.unsaved /\ f.rev = c.personas.rev => Untouched(c.personas, f)
      BY <1>2, <1>3, <2>8, <3>0 DEF MineOK, AloneOK
    <3>4. IsCurrent(v.board, c) => Matches(v.board, c)
      BY <3>2, <3>3 DEF IsCurrent, Matches, Agree, SameSums
    <3>5. AllKnown(v.agents.of, c.personas.of) BY <1>3, <2>8, <3>2 DEF BoardOK
    <3>6. BoardOK(c, o, <<>>, v) BY <3>2, <3>3, <3>4, <3>5 DEF BoardOK
    <3> QED BY <2>5, <2>8, <3>1, <3>6
  <2>9. CASE p \in Desktops /\ Head(t) = "writePair" /\ k = "persona"
    <3> DEFINE v == [s EXCEPT !.board = m, !.unsaved = TRUE]
    <3>1. view' = [view EXCEPT ![p] = v] BY <2>9 DEF Failed
    <3>2. v = [agents |-> s.agents, board |-> m, unsaved |-> TRUE]
      <4>1. IsView(s) BY <1>3, <2>9
      <4> HIDE DEF m, s
      <4> QED BY <4>1, BoardView
    <3>3. v.agents = s.agents /\ v.board = m /\ v.unsaved = TRUE BY <3>2
    <3> HIDE DEF v
    <3>4. PersonasCopy(c.personas, m.personas) /\ (IsCurrent(m, c) => Matches(m, c))
      BY <1>2, <2>9 DEF MineOK
    <3>5. AllKnown(v.agents.of, c.personas.of) BY <1>3, <2>9, <3>3 DEF BoardOK
    <3>6. BoardOK(c, o, <<>>, v) BY <3>3, <3>4, <3>5 DEF BoardOK
    <3> QED BY <2>5, <2>9, <3>1, <3>6
  <2>10. CASE p \in Desktops /\ Head(t) = "writePair" /\ k = "agent"
    <3> DEFINE v == [s EXCEPT !.agents = m.agents]
    <3>1. view' = [view EXCEPT ![p] = v] BY <2>10 DEF Failed
    <3>2. v = [agents |-> m.agents, board |-> s.board, unsaved |-> s.unsaved] BY <1>3, <2>10, AgentsView
    <3>3. v.agents = m.agents /\ v.board = s.board /\ v.unsaved = s.unsaved BY <3>2
    <3> HIDE DEF v
    <3>4. AllKnown(m.agents.of, c.personas.of) BY <1>2, <2>10 DEF MineOK
    <3>5. BoardOK(c, o, <<>>, v) BY <1>3, <2>10, <3>3, <3>4 DEF BoardOK
    <3> QED BY <2>5, <2>10, <3>1, <3>5
  <2>11. CASE /\ p \in Desktops /\ Head(t) # "loadPersonas" /\ Head(t) # "writePersonas"
              /\ ~(Head(t) = "writePair" /\ k = "persona") /\ ~(Head(t) = "writePair" /\ k = "agent")
    <3>1. view' = [view EXCEPT ![p] = s] BY <1>5, <2>11 DEF Failed
    <3>2. k # "load"
      <4>1. k = "load" => t = <<"loadAgents", "loadPersonas">> \/ t = <<"loadPersonas">>
        BY <1>2 DEF Lefts
      <4>2. t = <<"loadAgents", "loadPersonas">> => Head(t) = "loadAgents" OBVIOUS
      <4>3. t = <<"loadPersonas">> => Head(t) = "loadPersonas" OBVIOUS
      <4> QED BY <1>5, <2>11, <4>1, <4>2, <4>3
    <3>3. BoardOK(c, o, <<>>, s)
      <4>1. <<>> # <<"loadPersonas">> OBVIOUS
      <4> QED BY <1>3, <2>11, <3>2, <4>1, BoardOn
    <3> QED BY <2>5, <2>11, <3>1, <3>3
  <2> QED BY <2>6, <2>7, <2>8, <2>9, <2>10, <2>11
<1> QED BY <1>4, <1>5

LEMMA LossSums ==
    ASSUME IInv, RecordInv, SumInv, NEW p \in Processes, Fault(p) \/ Crash(p)
    PROVE  SumInv' /\ SumStep
<1>1. UNCHANGED <<files, pending, journal>> BY DEF Fault, Crash
<1>3. CASE Fault(p)
  <2>1. Failed(p) /\ Working(at[p]) BY <1>3 DEF Fault, Working
  <2> QED BY <1>1, <2>1, FailedSums
<1>4. CASE Crash(p)
  <2>1. /\ at' = [at EXCEPT ![p] = "idle"] /\ op' = [op EXCEPT ![p] = NoOp]
        /\ todo' = [todo EXCEPT ![p] = <<>>] /\ mine' = [mine EXCEPT ![p] = Empty]
        /\ view' = [d \in Desktops |-> IF d = p THEN Blank ELSE view[d]]
    BY <1>4 DEF Crash, Move
  <2>2. Becomes(p, "idle", NoOp, <<>>, Empty, Blank)
    <3>1. view = [d \in Desktops |-> view[d]] BY DEF IInv, Shapes, ViewShape
    <3>2. CASE p \in Desktops
      <4>1. view' = [view EXCEPT ![p] = Blank] BY <2>1, <3>1, <3>2
      <4> QED BY <2>1, <3>2, <4>1 DEF Becomes
    <3>3. CASE p \notin Desktops
      <4>1. view' = view BY <2>1, <3>1, <3>3
      <4> QED BY <2>1, <3>3, <4>1 DEF Becomes
    <3> QED BY <3>2, <3>3
  <2>3. FilesStep /\ Committed' = Committed /\ files' = files BY <1>1, NothingCommitted
  <2>4. KnownStep /\ Advance BY <2>3, NothingSummed DEF FilesStep
  <2>5. NoOp.kind = "none" /\ CommittedOK(Committed) BY DEF NoOp, SumInv
  <2>6. MineOK(Committed, "idle", NoOp, <<>>, Empty) BY <2>5, EmptyMine
  <2>7. BoardOK(Committed, NoOp, <<>>, Blank) BY <2>5, BlankBoard
  <2>8. AloneOK(Committed, NoOp, <<>>, Empty, Blank) BY <2>5 DEF AloneOK
  <2> QED BY <2>2, <2>3, <2>4, <2>6, <2>7, <2>8, OnlyOneSum
<1> QED BY <1>3, <1>4

-----------------------------------------------------------------------------
(* The steps of a command *)

LEMMA AcquireSums ==
    ASSUME IInv, RecordInv, SumInv, NEW p \in Processes, Acquire(p)
    PROVE  SumInv' /\ SumStep
<1>1. FilesStep /\ Committed' = Committed /\ files' = files BY NothingCommitted DEF Acquire
<1>2. KnownStep /\ Advance BY <1>1, NothingSummed DEF FilesStep
<1>3. PICK x \in {"inside", "replayAgents"} : at' = [at EXCEPT ![p] = x] BY DEF Acquire, Move
<1>4. Working(x) /\ Working(at[p]) /\ UNCHANGED <<op, todo, mine, view>> BY DEF Acquire, Working
<1> QED BY <1>2, <1>3, <1>4, MoveSums

LEMMA PutSums ==
    ASSUME IInv, RecordInv, SumInv, Advance, NEW p \in Processes, PutAgents(p) \/ PutPersonas(p)
    PROVE  SumInv' /\ SumStep
<1>1. at[p] \in {"replayAgents", "commitAgents", "replayPersonas", "commitPersonas"}
  BY DEF PutAgents, PutPersonas
<1>2. pending BY <1>1 DEF IInv, Progresses, Progress, Holding
<1>3. UNCHANGED <<pending, journal, op, todo, mine, view>> BY DEF PutAgents, PutPersonas
<1>4. Committed' = Committed /\ Committed = journal BY <1>2, <1>3 DEF Committed
<1>5. files'.personas = files.personas \/ files'.personas = journal.personas
  BY DEF PutAgents, PutPersonas, IInv, Shapes, IsPair
<1>6. KnownStep BY <1>4, <1>5, NothingSummed
<1>7. PICK x \in {"replayPersonas", "commitPersonas", "replayUnlink", "commitUnlink"} :
         at' = [at EXCEPT ![p] = x]
  BY DEF PutAgents, PutPersonas, Move
<1>8. Working(x) /\ Working(at[p]) BY <1>1 DEF Working
<1> QED BY <1>3, <1>6, <1>7, <1>8, MoveSums

LEMMA ReplayedSums ==
    ASSUME IInv, RecordInv, SumInv, Advance, NEW p \in Processes, Replayed(p)
    PROVE  SumInv' /\ SumStep
<1>1. at[p] = "replayUnlink" /\ Unlink /\ files' = files /\ at' = [at EXCEPT ![p] = "inside"]
      /\ UNCHANGED <<op, todo, mine, view>>
  BY DEF Replayed, Move
<1>2. Committed' = Committed BY <1>1, UnlinkKeeps
<1>3. KnownStep BY <1>1, <1>2, NothingSummed
<1>4. Working("inside") /\ Working(at[p]) BY <1>1 DEF Working
<1> QED BY <1>1, <1>3, <1>4, MoveSums

LEMMA PairWrittenSums ==
    ASSUME IInv, RecordInv, SumInv, Advance, NEW p \in Processes, PairWritten(p)
    PROVE  SumInv' /\ SumStep
<1> DEFINE v == [agents |-> journal.agents, board |-> journal, unsaved |-> FALSE]
           left == Tail(todo[p])
<1>1. at[p] = "commitUnlink" /\ Unlink /\ Answer(p, left, mine[p]) /\ files' = files
  BY DEF PairWritten, Continue
<1>2. Committed' = Committed /\ Committed = journal BY <1>1, UnlinkKeeps
<1>3. KnownStep BY <1>1, <1>2, NothingSummed
<1>4. IF p \in Desktops THEN view' = [view EXCEPT ![p] = v] ELSE view' = view BY DEF PairWritten
<1>5. v.agents = journal.agents /\ v.board = journal OBVIOUS
<1> HIDE DEF v
<1>6. \A n : BoardOK(Committed', n, left, v)
  <2>1. CommittedOK(Committed') BY <1>3 DEF KnownStep
  <2> QED BY <1>2, <1>5, <2>1, ExactBoard
<1>7. /\ WorkOK(p, at[p], op[p], todo[p]) /\ MineOK(Committed', at[p], op[p], todo[p], mine[p])
      /\ Working(at[p]) /\ Committing(at[p])
  BY <1>1, <1>2, OfProcess DEF SumInv, Working, Committing
<1>8. After(op[p].kind, todo[p]) /\ Head(todo[p]) \in {"writePair", "commit"}
  BY <1>7, HeadOfLeft DEF WorkOK
<1>9. left = <<>> \/ (op[p].kind = "evaluate" /\ left = <<"mark">>) BY <1>8 DEF After
<1>10. left # <<>> => /\ MineOK(Committed', "asks", op[p], left, mine[p])
                      /\ AloneOK(Committed', op[p], left, mine[p], v)
  <2> HIDE DEF left
  <2>1. left = <<"mark">> => Head(left) = "mark" OBVIOUS
  <2> QED BY <1>7, <1>9, <2>1 DEF MineOK, AloneOK
<1> HIDE DEF left
<1> QED BY <1>1, <1>3, <1>4, <1>6, <1>10, AnswerSums

LEMMA LoadAgentsSums ==
    ASSUME IInv, RecordInv, SumInv, NEW p \in Processes, LoadAgents(p)
    PROVE  SumInv' /\ SumStep
<1> DEFINE f == files.agents
           s == view[p]
           v == [s EXCEPT !.agents = f, !.board.agents = f]
           c == Committed
           left == Tail(todo[p])
<1>1. at[p] = "inside" /\ Head(todo[p]) = "loadAgents" /\ Answer(p, left, mine[p])
      /\ UNCHANGED <<files, pending, journal>>
  BY DEF LoadAgents, Inside, Continue
<1>2. c = files /\ op[p].kind = "load" /\ p \in Desktops /\ left = <<"loadPersonas">>
  BY <1>1, CommandOf DEF After
<1>3. FilesStep /\ Committed' = c /\ files' = files BY <1>1, NothingCommitted
<1>4. KnownStep /\ Advance BY <1>3, NothingSummed DEF FilesStep
<1>5. /\ IsView(s) /\ BoardOK(c, op[p], todo[p], s) /\ CommittedOK(c)
      /\ MineOK(c, at[p], op[p], todo[p], mine[p])
  BY <1>2, OfProcess DEF SumInv
<1>6. view' = [view EXCEPT ![p] = v]
  <2>1. view' = [[view EXCEPT ![p].agents = f] EXCEPT ![p].board.agents = f] BY DEF LoadAgents
  <2> QED BY <1>2, <1>5, <2>1 DEF IInv, Shapes, ViewShape, IsView
<1>7. v.agents = f /\ v.board.agents = f /\ v.board.personas = s.board.personas /\ v.unsaved = s.unsaved
  <2> DEFINE b == s.board
             d == [b EXCEPT !.agents = f]
  <2>1. b = [agents |-> b.agents, personas |-> b.personas] BY <1>5 DEF IsView, IsPair
  <2>2. v = [agents |-> f, board |-> d, unsaved |-> s.unsaved] BY <1>5, EmptiedView
  <2> HIDE DEF b, v
  <2>3. d.agents = f /\ d.personas = b.personas BY <2>1
  <2> QED BY <2>2, <2>3 DEF b
<1> HIDE DEF v, c, left
<1>10. left # <<>> /\ Head(left) = "loadPersonas" BY <1>2
<1>8. BoardOK(c, op[p], left, v) BY <1>2, <1>5, <1>7 DEF BoardOK, CommittedOK
<1>9. MineOK(c, "asks", op[p], left, mine[p]) /\ AloneOK(c, op[p], left, mine[p], v)
  BY <1>2, <1>5 DEF MineOK, AloneOK, Working
<1> QED BY <1>1, <1>2, <1>3, <1>4, <1>6, <1>8, <1>9, <1>10, AnswerSums

LEMMA LoadPersonasSums ==
    ASSUME IInv, RecordInv, SumInv, NEW p \in Processes, LoadPersonas(p)
    PROVE  SumInv' /\ SumStep
<1> DEFINE f == files.personas
           s == view[p]
           v == [s EXCEPT !.board.personas = f, !.unsaved = FALSE]
           c == Committed
<1>1. at[p] = "inside" /\ Head(todo[p]) = "loadPersonas" /\ Answer(p, Tail(todo[p]), mine[p])
      /\ UNCHANGED <<files, pending, journal>>
  BY DEF LoadPersonas, Inside, Continue
<1>2. /\ c = files /\ op[p].kind = "load" /\ p \in Desktops /\ Tail(todo[p]) = <<>>
      /\ todo[p] \in Lefts(op[p].kind)
  BY <1>1, CommandOf DEF After
<1>3. FilesStep /\ Committed' = c /\ files' = files BY <1>1, NothingCommitted
<1>4. KnownStep /\ Advance BY <1>3, NothingSummed DEF FilesStep
<1>5. IsView(s) /\ BoardOK(c, op[p], todo[p], s) /\ CommittedOK(c) BY <1>2, OfProcess DEF SumInv
<1>6. view' = [view EXCEPT ![p] = v]
  <2>1. view' = [[view EXCEPT ![p].board.personas = f] EXCEPT ![p].unsaved = FALSE] BY DEF LoadPersonas
  <2> QED BY <1>2, <1>5, <2>1 DEF IInv, Shapes, ViewShape, IsView
<1>7. v.agents = s.agents /\ v.board.agents = s.board.agents /\ v.board.personas = f
  <2> DEFINE b == s.board
             d == [b EXCEPT !.personas = f]
  <2>1. b = [agents |-> b.agents, personas |-> b.personas] BY <1>5 DEF IsView, IsPair
  <2>2. v = [agents |-> s.agents, board |-> d, unsaved |-> FALSE] BY <1>5, ReloadedView
  <2> HIDE DEF b, v
  <2>3. d.agents = b.agents /\ d.personas = f BY <2>1
  <2> QED BY <2>2, <2>3 DEF b
<1> HIDE DEF v, c
<1>8. todo[p] = <<"loadPersonas">>
  <2>1. todo[p] = <<"loadAgents", "loadPersonas">> \/ todo[p] = <<"loadPersonas">> BY <1>2 DEF Lefts
  <2>2. todo[p] = <<"loadAgents", "loadPersonas">> => Head(todo[p]) = "loadAgents" OBVIOUS
  <2> QED BY <1>1, <2>1, <2>2
<1>9. PersonasCopy(c.personas, c.personas) /\ Untouched(c.personas, c.personas)
  BY <1>5, KnownItself DEF CommittedOK, PersonasOK, PersonasCopy, Untouched
<1>10. IsCurrent(v.board, c) => Matches(v.board, c)
  <2> SUFFICES ASSUME IsCurrent(v.board, c) PROVE Matches(v.board, c) OBVIOUS
  <2>1. v.board.agents = c.agents /\ v.board.personas = c.personas
    BY <1>2, <1>5, <1>7, <1>8 DEF IsCurrent, BoardOK
  <2>2. Untouched(c.personas, v.board.personas) BY <1>9, <2>1
  <2> QED BY <1>5, <2>1, <2>2 DEF Matches, SameSums, CommittedOK
<1>11. ASSUME NEW n PROVE BoardOK(c, n, <<>>, v)
  <2>1. <<>> # <<"loadPersonas">> OBVIOUS
  <2> QED BY <1>2, <1>5, <1>7, <1>9, <1>10, <2>1 DEF BoardOK
<1> QED BY <1>1, <1>2, <1>3, <1>4, <1>6, <1>11, AnswerSums

\* Recording scores gives nobody another persona.
LEMMA RecordedKnown ==
    ASSUME NEW of, SoundOf(of), NEW items, NEW personas, AllKnown(of, personas)
    PROVE  AllKnown(RecordAll(of, items), personas)
<1> DEFINE new == RecordAll(of, items)
<1> SUFFICES ASSUME NEW a \in Agents, Born(new, a)
             PROVE  new[a].persona = NoPersona \/ personas[new[a].persona] # Unborn
  BY DEF AllKnown
<1>1. Born(of, a) BY BornBefore
<1>2. of[a] \in AgentRecord BY <1>1, BornIsSound DEF Sound
<1>3. PICK s, n : new[a] = [of[a] EXCEPT !.keys = s, !.count = n] BY <1>1 DEF RecordAll
<1> HIDE DEF new
<1>4. new[a].persona = of[a].persona BY <1>2, <1>3 DEF AgentRecord
<1> QED BY <1>1, <1>4 DEF AllKnown

LEMMA ReadAgentsSums ==
    ASSUME IInv, RecordInv, SumInv, NEW p \in Processes, ReadAgents(p)
    PROVE  SumInv' /\ SumStep
<1> DEFINE f == files.agents
           of == RecordAll(files.agents.of, op[p].items)
           g == [files.agents EXCEPT !.of = of]
           left == IF of # files.agents.of THEN Tail(todo[p]) ELSE <<"readPersonas", "mark">>
           pair == [mine[p] EXCEPT !.agents = g]
           c == Committed
           s == view[p]
<1>1. at[p] = "inside" /\ Head(todo[p]) = "readAgents" /\ UNCHANGED <<files, pending, journal>>
  BY DEF ReadAgents, Inside
<1>2. /\ c = files /\ Working(at[p]) /\ p \in Desktops
      /\ op[p].kind = "evaluate" /\ Tail(todo[p]) = <<"readPersonas", "writePair", "mark">>
  BY <1>1, CommandOf DEF After
<1>3. FilesStep /\ Committed' = c /\ files' = files BY <1>1, NothingCommitted
<1>4. CASE Failed(p) BY <1>1, <1>2, <1>4, FailedSums
<1>5. CASE ~Failed(p)
  <2>1. Answer(p, left, pair) /\ view' = view BY <1>5 DEF ReadAgents
  <2>2. KnownStep /\ Advance BY <1>3, NothingSummed DEF FilesStep
  <2>3. /\ SoundOf(f.of) /\ IsFile(f) /\ CommittedOK(c) /\ BoardOK(c, op[p], todo[p], s)
        /\ MineOK(c, at[p], op[p], todo[p], mine[p]) /\ IsPair(mine[p]) /\ view = [view EXCEPT ![p] = s]
    BY <1>2, OfProcess, CommittedIsSound DEF SumInv, SoundFile
  <2>4. AllKnown(of, c.personas.of) BY <1>2, <2>3, RecordedKnown DEF CommittedOK
  <2>5. IsFile(g) /\ g.of = of BY <2>3, FileUpdates DEF IsFile
  <2>6. left = <<"readPersonas", "writePair", "mark">> \/ left = <<"readPersonas", "mark">> BY <1>2
  <2> HIDE DEF g, of, left, c, s
  <2>7. pair.agents = g /\ pair.personas = mine[p].personas BY <2>3, <2>5, PairUpdates
  <2> HIDE DEF pair
  <2>8. left # <<>> /\ left # <<"loadPersonas">> /\ Head(left) = "readPersonas" BY <2>6
  <2>9. PersonasCopy(c.personas, pair.personas) BY <2>3, <2>7 DEF MineOK
  <2>10. MineOK(c, "asks", op[p], left, pair) /\ AloneOK(c, op[p], left, pair, s)
    BY <1>2, <2>4, <2>5, <2>7, <2>8, <2>9 DEF MineOK, AloneOK
  <2>11. BoardOK(c, op[p], left, s) BY <1>2, <2>3, <2>8, BoardOn
  <2>12. IF p \in Desktops THEN view' = [view EXCEPT ![p] = s] ELSE view' = view BY <2>1, <2>3
  <2> QED BY <1>3, <2>1, <2>2, <2>8, <2>10, <2>11, <2>12, AnswerSums
<1> QED BY <1>4, <1>5

LEMMA ReadPersonasSums ==
    ASSUME IInv, RecordInv, SumInv, NEW p \in Processes, ReadPersonas(p)
    PROVE  SumInv' /\ SumStep
<1> DEFINE synced == Sync(files.personas, mine[p].agents.of)
           write == todo[p][2] = "writePair" \/ synced # files.personas
           mark == op[p].kind = "evaluate" /\ ~(op[p].items \subseteq saw[p])
           left == (IF write THEN <<"writePair">> ELSE <<>>) \o (IF mark THEN <<"mark">> ELSE <<>>)
           pair == [mine[p] EXCEPT !.personas = synced]
           c == Committed
           s == view[p]
<1>1. /\ at[p] = "inside" /\ Head(todo[p]) = "readPersonas" /\ Answer(p, left, pair)
      /\ UNCHANGED <<files, pending, journal, view>>
  BY DEF ReadPersonas, Inside
<1>2. c = files /\ p \in Desktops /\ op[p].kind \in {"evaluate", "agent"}
  BY <1>1, CommandOf DEF After
<1>3. FilesStep /\ Committed' = c /\ files' = files BY <1>1, NothingCommitted
<1>4. KnownStep /\ Advance BY <1>3, NothingSummed DEF FilesStep
<1>5. /\ CommittedOK(c) /\ BoardOK(c, op[p], todo[p], s) /\ MineOK(c, at[p], op[p], todo[p], mine[p])
      /\ IsPair(mine[p]) /\ view = [view EXCEPT ![p] = s] /\ SoundOf(mine[p].agents.of)
  BY <1>2, OfProcess DEF SumInv, CopyOf, SoundFile
<1>6. left \in {<<>>, <<"writePair">>, <<"mark">>, <<"writePair", "mark">>}
  <2>0. <<"writePair">> \o <<"mark">> = <<"writePair", "mark">>
    <3>1. "writePair" \in {"writePair", "mark"} /\ "mark" \in {"writePair", "mark"} OBVIOUS
    <3> QED BY <3>1, TwoInARow
  <2> HIDE DEF write, mark
  <2>1. CASE write /\ mark
    <3>1. left = <<"writePair">> \o <<"mark">> BY <2>1
    <3> HIDE DEF left
    <3> QED BY <2>0, <3>1
  <2>2. CASE write /\ ~mark BY <2>2
  <2>3. CASE ~write /\ mark BY <2>3
  <2>4. CASE ~write /\ ~mark BY <2>4
  <2> QED BY <2>1, <2>2, <2>3, <2>4
<1>7. PersonasCopy(c.personas, c.personas) /\ IsFile(files.personas)
  BY <1>2, <1>5, KnownItself DEF CommittedOK, PersonasOK, PersonasCopy
<1>8. PersonasCopy(c.personas, synced) /\ IsFile(synced)
  BY <1>2, <1>5, <1>7, SyncedPersonas, SyncKeepsRevision
<1>9. synced.of = Sync(files.personas, mine[p].agents.of).of OBVIOUS
<1> HIDE DEF synced, left, c, s
<1>10. pair.agents = mine[p].agents /\ pair.personas = synced BY <1>5, <1>8, PairUpdates
<1> HIDE DEF pair
<1>11. Agree(pair) BY <1>7, <1>9, <1>10, SyncAgrees
<1>12. MineOK(c, "asks", op[p], left, pair) /\ AloneOK(c, op[p], left, pair, s)
  BY <1>2, <1>5, <1>8, <1>10, <1>11 DEF MineOK, AloneOK, Working
<1>13. left # <<"loadPersonas">> BY <1>6
<1>14. \A n : (left # <<>> => n = op[p]) => BoardOK(c, n, left, s) BY <1>2, <1>5, <1>13, BoardOn
<1>15. IF p \in Desktops THEN view' = [view EXCEPT ![p] = s] ELSE view' = view BY <1>1, <1>5
<1> QED BY <1>1, <1>3, <1>4, <1>12, <1>14, <1>15, AnswerSums

LEMMA BumpedPersonas ==
    ASSUME NEW f, PersonasOK(f)
    PROVE  PersonasOK(Bumped(f)) /\ Bumped(f).of = f.of /\ Bumped(f).rev = f.rev + 1
<1>1. IsFile(Bumped(f)) /\ Bumped(f).of = f.of /\ Bumped(f).rev = f.rev + 1
  BY DEF PersonasOK, Bumped, IsFile
<1> HIDE DEF Bumped
<1> QED BY <1>1 DEF PersonasOK

\* The personas alone: with the committed summaries, or by the named accident.
LEMMA WritePersonasSums ==
    ASSUME IInv, RecordInv, SumInv, Advance, NEW p \in Processes, WritePersonas(p)
    PROVE  SumInv' /\ SumStep
<1> DEFINE m == mine[p]
           next == Bumped(m.personas)
           s == view[p]
           v == [s EXCEPT !.board.personas = next]
           c == Committed
           d == Committed'
<1>1. at[p] = "inside" /\ Head(todo[p]) = "writePersonas" /\ UNCHANGED <<pending, journal>>
  BY DEF WritePersonas, Inside
<1>2. /\ ~pending /\ c = files /\ Working(at[p]) /\ p \in Desktops
      /\ op[p].kind = "persona" /\ Tail(todo[p]) = <<>>
  BY <1>1, CommandOf DEF After
<1>3. CASE Failed(p) /\ UNCHANGED files BY <1>1, <1>2, <1>3, FailedSums
<1>4. CASE ~(Failed(p) /\ UNCHANGED files)
  <2>1. /\ files.personas.rev = m.personas.rev /\ files' = [files EXCEPT !.personas = next]
        /\ view' = [view EXCEPT ![p].board.personas = next] /\ Answer(p, Tail(todo[p]), m)
    BY <1>4 DEF WritePersonas, Continue, Current
  <2>2. /\ IsView(s) /\ SoundOf(s.agents.of) /\ SoundOf(m.agents.of) /\ CommittedOK(c)
        /\ BoardOK(c, op[p], todo[p], s) /\ AloneOK(c, op[p], todo[p], m, s)
        /\ MineOK(c, at[p], op[p], todo[p], m) /\ SoundOf(c.agents.of)
    BY <1>2, OfProcess, CommittedIsSound DEF SumInv, CopyOf, SoundFile
  <2>3. view' = [view EXCEPT ![p] = v] BY <1>2, <2>1, <2>2 DEF IInv, Shapes, ViewShape, IsView
  <2>4. PersonasOK(m.personas) /\ m.personas.rev = c.personas.rev
        /\ KeepsKnown(c.personas.of, m.personas.of)
    BY <1>2, <2>1, <2>2 DEF MineOK, PersonasCopy
  <2>5. PersonasOK(next) /\ next.of = m.personas.of /\ next.rev = m.personas.rev + 1
    BY <2>4, BumpedPersonas
  <2>6. d.agents = c.agents /\ d.personas = next /\ files'.personas = next
    <3>1. files'.agents = files.agents /\ files'.personas = next BY <2>1 DEF IInv, Shapes, IsPair
    <3> QED BY <1>1, <1>2, <3>1 DEF Committed
  <2>7. v.agents = s.agents /\ v.board.agents = s.board.agents /\ v.board.personas = next
    <3> DEFINE b == s.board
               e == [b EXCEPT !.personas = next]
    <3>1. b = [agents |-> b.agents, personas |-> b.personas] BY <2>2 DEF IsView, IsPair
    <3>2. v = [agents |-> s.agents, board |-> e, unsaved |-> s.unsaved] BY <2>2, PersonasView
    <3> HIDE DEF b, v, next
    <3>3. e.personas = next /\ e.agents = b.agents BY <3>1
    <3> QED BY <3>2, <3>3 DEF b
  <2> HIDE DEF next, v, c, d, m, s
  <2>8. KeepsKnown(c.personas.of, d.personas.of) BY <2>4, <2>5, <2>6
  <2>9. CommittedOK(d)
    <3>1. AllKnown(c.agents.of, d.personas.of) BY <2>2, <2>8, KnownOn DEF CommittedOK
    <3>2. next.rev >= 1 BY <2>2, <2>4, <2>5 DEF CommittedOK, PersonasOK
    <3> QED BY <2>2, <2>5, <2>6, <3>1, <3>2 DEF CommittedOK
  <2>10. SumStep
    <3> SUFFICES ASSUME Agree(c), \A e \in Desktops : ~SavesUnsaved(e) PROVE Agree(d)
      BY DEF SumStep, c, d
    <3>1. ~s.unsaved BY <1>1, <1>2 DEF SavesUnsaved, Inside, s
    <3>2. Untouched(c.personas, m.personas) BY <1>1, <1>2, <2>2, <2>4, <3>1 DEF AloneOK
    <3>3. Untouched(c.personas, d.personas) BY <2>5, <2>6, <3>2 DEF Untouched
    <3>4. SameSums(d, c) BY <2>6 DEF SameSums
    <3>5. Matches(d, c) BY <2>9, <3>3, <3>4 DEF Matches, CommittedOK
    <3> QED BY <2>2, <3>5, MatchesAgree
  <2>11. KnownStep
    <3>1. KeepsKnown(files'.personas.of, d.personas.of) BY <2>6, KnownItself
    <3> QED BY <2>8, <2>9, <2>10, <3>1 DEF KnownStep, c, d
  <2>12. PersonasCopy(d.personas, next) /\ Untouched(d.personas, next)
    BY <2>5, <2>6, KnownItself DEF PersonasOK, PersonasCopy, Untouched
  <2>13. AllKnown(s.agents.of, d.personas.of) BY <2>2, <2>8, KnownOn DEF BoardOK
  <2>14. IsCurrent(v.board, d) => Matches(v.board, d)
    <3> SUFFICES ASSUME IsCurrent(v.board, d) PROVE Matches(v.board, d) OBVIOUS
    <3>1. m.agents = v.board.agents BY <1>1, <1>2, <2>2, <2>7 DEF AloneOK
    <3>2. Matches(m, c) BY <1>2, <2>2, <2>4, <2>6, <3>1 DEF MineOK, IsCurrent
    <3>3. AllKnown(v.board.agents.of, v.board.personas.of) BY <2>5, <2>7, <3>1, <3>2 DEF Matches
    <3>4. CASE Agree(m)
      <4>1. Agree(v.board) BY <2>5, <2>7, <3>1, <3>4 DEF Agree
      <4> QED BY <3>3, <4>1 DEF Matches
    <3>5. CASE SameSums(m, c)
      <4>1. SameSums(v.board, d) BY <2>5, <2>6, <2>7, <3>1, <3>5 DEF SameSums
      <4> QED BY <2>7, <2>12, <3>3, <4>1 DEF Matches
    <3> QED BY <3>2, <3>4, <3>5 DEF Matches
  <2>15. ASSUME NEW n PROVE BoardOK(d, n, <<>>, v)
    <3>1. <<>> # <<"loadPersonas">> OBVIOUS
    <3> QED BY <2>7, <2>12, <2>13, <2>14, <3>1 DEF BoardOK
  <2> QED BY <1>2, <2>1, <2>3, <2>11, <2>15, AnswerSums DEF d
<1> QED BY <1>3, <1>4

LEMMA PublishSums ==
    ASSUME IInv, RecordInv, SumInv, Advance, NEW p \in Processes, at[p] = "inside",
           NEW pair, Publish(pair), Move(p, "commitAgents"), UNCHANGED <<files, op, todo, mine, view>>,
           CommittedOK(pair), KeepsKnown(Committed.personas.of, pair.personas.of),
           Agree(Committed) => Agree(pair)
    PROVE  SumInv' /\ SumStep
<1>1. Committed' = pair BY DEF Publish, Committed
<1>2. KeepsKnown(files'.personas.of, pair.personas.of) BY DEF SumInv, KeepsKnown
<1>3. KnownStep BY <1>1, <1>2 DEF KnownStep, SumStep
<1>4. Working(at[p]) /\ Working("commitAgents") BY DEF Working
<1> QED BY <1>3, <1>4, MoveSums DEF Move

\* A pair with the committed revisions agrees, when these registries do.
LEMMA WritePairSums ==
    ASSUME IInv, RecordInv, SumInv, Advance, NEW p \in Processes, WritePair(p)
    PROVE  SumInv' /\ SumStep
<1> DEFINE m == mine[p]
           c == Committed
           pair == [agents |-> Bumped(m.agents), personas |-> Bumped(m.personas)]
<1>1. at[p] = "inside" /\ Head(todo[p]) = "writePair" /\ UNCHANGED files BY DEF WritePair, Inside
<1>2. c = files /\ Working(at[p]) BY <1>1, CommandOf
<1>3. CASE Failed(p) /\ UNCHANGED <<pending, journal>> BY <1>1, <1>2, <1>3, FailedSums
<1>4. CASE ~(Failed(p) /\ UNCHANGED <<pending, journal>>)
  <2>1. /\ files.agents.rev = m.agents.rev /\ files.personas.rev = m.personas.rev
        /\ Publish(pair) /\ Move(p, "commitAgents") /\ UNCHANGED <<todo, op, mine, view>>
    BY <1>4 DEF WritePair, Current
  <2>2. /\ IsPair(m) /\ SoundOf(m.agents.of) /\ CommittedOK(c) /\ MineOK(c, at[p], op[p], todo[p], m)
        /\ c.agents.rev \in Nat
    BY OfProcess, CommittedIsSound DEF SumInv, CopyOf, SoundFile
  <2>3. PersonasOK(m.personas) /\ KeepsKnown(c.personas.of, m.personas.of) /\ IsCurrent(m, c)
    BY <1>2, <2>1, <2>2 DEF MineOK, PersonasCopy, IsCurrent
  <2>4. /\ PersonasOK(pair.personas) /\ pair.personas.of = m.personas.of
        /\ pair.personas.rev = m.personas.rev + 1
    BY <2>3, BumpedPersonas
  <2>5. pair.agents.of = m.agents.of /\ pair.agents.rev = m.agents.rev + 1
    BY <2>2 DEF IsPair, IsFile, Bumped
  <2> HIDE DEF pair, m, c
  <2>6. AllKnown(m.agents.of, m.personas.of)
    <3>1. CASE op[p].kind = "persona" BY <2>2, <2>3, <3>1 DEF MineOK, Matches
    <3>2. CASE op[p].kind # "persona"
      <4>1. AllKnown(m.agents.of, c.personas.of) BY <2>2, <3>2 DEF MineOK
      <4> QED BY <2>2, <2>3, <4>1, KnownOn
    <3> QED BY <3>1, <3>2
  <2>7. ASSUME Agree(c) PROVE Agree(m)
    <3>1. CASE op[p].kind = "persona"
      <4>1. Matches(m, c) BY <2>2, <2>3, <3>1 DEF MineOK
      <4> QED BY <2>2, <2>7, <4>1, MatchesAgree
    <3>2. CASE op[p].kind # "persona" BY <1>1, <1>2, <2>2, <3>2 DEF MineOK
    <3> QED BY <3>1, <3>2
  <2>8. Agree(c) => Agree(pair) BY <2>4, <2>5, <2>7 DEF Agree
  <2>9. CommittedOK(pair)
    <3>1. pair.agents.rev >= 1 /\ pair.personas.rev >= 1
      BY <2>2, <2>3, <2>4, <2>5 DEF IsCurrent, CommittedOK, PersonasOK
    <3> QED BY <2>4, <2>5, <2>6, <3>1 DEF CommittedOK
  <2>10. KeepsKnown(c.personas.of, pair.personas.of) BY <2>3, <2>4
  <2> QED BY <1>1, <2>1, <2>8, <2>9, <2>10, PublishSums DEF c
<1> QED BY <1>3, <1>4

LEMMA MarkSums ==
    ASSUME IInv, RecordInv, SumInv, NEW p \in Processes, Mark(p)
    PROVE  SumInv' /\ SumStep
<1> DEFINE c == Committed
           s == view[p]
<1>1. at[p] = "inside" /\ Head(todo[p]) = "mark" /\ UNCHANGED <<files, pending, journal>>
  BY DEF Mark, Inside
<1>2. Working(at[p]) /\ p \in Desktops /\ op[p].kind = "evaluate" /\ Tail(todo[p]) = <<>>
  BY <1>1, CommandOf DEF After
<1>3. FilesStep /\ Committed' = c /\ files' = files BY <1>1, NothingCommitted
<1>4. CASE Failed(p) BY <1>1, <1>2, <1>4, FailedSums
<1>5. CASE ~Failed(p)
  <2>1. Answer(p, Tail(todo[p]), mine[p]) /\ view' = view BY <1>5 DEF Mark, Continue
  <2>2. KnownStep /\ Advance BY <1>3, NothingSummed DEF FilesStep
  <2>3. BoardOK(c, op[p], todo[p], s) /\ view = [view EXCEPT ![p] = s] BY <1>2, OfProcess DEF SumInv
  <2>4. <<>> # <<"loadPersonas">> OBVIOUS
  <2>5. \A n : BoardOK(c, n, <<>>, s) BY <1>2, <2>3, <2>4, BoardOn
  <2> QED BY <1>2, <1>3, <2>1, <2>2, <2>3, <2>5, AnswerSums
<1> QED BY <1>4, <1>5

\* The command line writes the agents alone only if no summary changes.
LEMMA CommitSums ==
    ASSUME IInv, RecordInv, SumInv, Advance, NEW p \in Processes, Commit(p)
    PROVE  SumInv' /\ SumStep
<1> DEFINE c == Committed
           d == Committed'
           of == RecordAll(files.agents.of, op[p].items)
           recorded == [files.agents EXCEPT !.of = of]
           agents == IF of # files.agents.of THEN Bumped(recorded) ELSE files.agents
           synced == Sync(files.personas, of)
           pair == [agents |-> agents, personas |-> Bumped(synced)]
<1>1. at[p] = "inside" /\ Head(todo[p]) = "commit" BY DEF Commit, Inside
<1>2. ~pending /\ c = files /\ Working(at[p]) /\ op[p].kind = "batch" /\ Tail(todo[p]) = <<>>
  BY <1>1, CommandOf DEF After
<1>3. CASE Failed(p) /\ UNCHANGED <<files, pending, journal>> BY <1>1, <1>2, <1>3, FailedSums
<1>4. /\ p \notin Desktops /\ SoundFile(files.agents) /\ IsFile(files.agents) /\ IsPair(files)
      /\ CommittedOK(c) /\ PersonasOK(files.personas) /\ IsFile(files.personas)
  <2>1. WorkOK(p, at[p], op[p], todo[p]) BY OfProcess
  <2> QED BY <1>2, <2>1, CommittedIsSound DEF WorkOK, SumInv, CommittedOK, PersonasOK
<1>5. SoundOf(of) /\ AllKnown(of, c.personas.of)
  BY <1>2, <1>4, RecordedOnce, RecordedKnown DEF SoundFile, CommittedOK
<1>6. agents.of = of /\ agents.rev >= 1 /\ IsFile(agents)
  <2>1. IsFile(recorded) /\ recorded.of = of /\ recorded.rev = files.agents.rev
    BY <1>4, FileUpdates DEF IsFile
  <2> HIDE DEF recorded, of
  <2>2. IsFile(Bumped(recorded)) /\ Bumped(recorded).of = of /\ Bumped(recorded).rev = files.agents.rev + 1
    BY <2>1 DEF Bumped, IsFile
  <2>3. files.agents.rev \in Nat /\ files.agents.rev >= 1 BY <1>2, <1>4 DEF SoundFile, CommittedOK
  <2> QED BY <1>4, <2>2, <2>3
<1>7. synced.of = Sync(files.personas, of).of OBVIOUS
<1>8. PersonasCopy(c.personas, synced) /\ KeepsKnown(c.personas.of, synced.of) /\ synced.rev = files.personas.rev
  <2>1. PersonasCopy(c.personas, files.personas)
    BY <1>2, <1>4, KnownItself DEF PersonasOK, PersonasCopy
  <2> QED BY <1>2, <1>5, <2>1, SyncedPersonas
<1>9. CASE /\ synced = files.personas /\ files' = [files EXCEPT !.agents = agents] /\ Continue(p)
           /\ UNCHANGED <<pending, journal, view>>
  <2>1. Answer(p, <<>>, mine[p]) /\ view' = view BY <1>2, <1>9 DEF Continue
  <2> HIDE DEF agents, synced, of
  <2>2. files'.agents = agents /\ files'.personas = files.personas BY <1>4, <1>6, <1>9, PairUpdates
  <2>3. d = files' BY <1>2, <1>9 DEF Committed
  <2> HIDE DEF d
  <2>4. CommittedOK(d) BY <1>2, <1>4, <1>5, <1>6, <2>2, <2>3 DEF CommittedOK
  <2>5. Agree(d) BY <1>4, <1>6, <1>7, <1>9, <2>2, <2>3, SyncAgrees
  <2>6. /\ KeepsKnown(c.personas.of, d.personas.of)
        /\ KeepsKnown(files'.personas.of, d.personas.of)
    BY <1>2, <2>2, <2>3, KnownItself
  <2>7. KnownStep BY <2>4, <2>5, <2>6 DEF KnownStep, SumStep, d
  <2> QED BY <1>4, <2>1, <2>7, AnswerSums
<1>10. CASE /\ Publish(pair) /\ Move(p, "commitAgents") /\ UNCHANGED <<files, todo, op, mine, view>>
  <2>1. /\ PersonasOK(pair.personas) /\ pair.personas.of = synced.of
        /\ pair.personas.rev = synced.rev + 1
    <3>1. PersonasOK(synced) BY <1>8 DEF PersonasCopy
    <3> HIDE DEF synced
    <3> QED BY <3>1, BumpedPersonas
  <2>2. pair.agents = agents OBVIOUS
  <2> HIDE DEF pair, agents, synced, of, c
  <2>3. Agree(pair) BY <1>4, <1>6, <1>7, <2>1, <2>2, SyncAgrees
  <2>4. AllKnown(of, synced.of) BY <1>5, <1>8, KnownOn
  <2>5. pair.personas.rev >= 1 BY <1>4, <1>8, <2>1 DEF PersonasOK
  <2>6. CommittedOK(pair) BY <1>6, <2>1, <2>2, <2>4, <2>5 DEF CommittedOK
  <2> QED BY <1>1, <1>8, <1>10, <2>1, <2>3, <2>6, PublishSums DEF c
<1> QED BY <1>1, <1>3, <1>9, <1>10 DEF Commit

-----------------------------------------------------------------------------
(* The invariant of the summaries, and what it gives *)

LEMMA InitSums == Init => SumInv /\ Agree(Committed)
<1> SUFFICES ASSUME Init PROVE SumInv /\ Agree(Committed) OBVIOUS
<1>1. PICK hired \in SUBSET Agents, known \in SUBSET Personas :
        \E persona \in [hired -> known \cup {NoPersona}] :
          files = [agents   |-> [rev |-> 1, of |-> [a \in Agents |->
                                   IF a \in hired THEN NewAgent(persona[a]) ELSE Unborn]],
                   personas |-> [rev |-> 1, of |-> [q \in Personas |->
                                   IF q \in known THEN 0 ELSE Unborn]]]
  BY DEF Init
<1>2. PICK persona \in [hired -> known \cup {NoPersona}] :
          files = [agents   |-> [rev |-> 1, of |-> [a \in Agents |->
                                   IF a \in hired THEN NewAgent(persona[a]) ELSE Unborn]],
                   personas |-> [rev |-> 1, of |-> [q \in Personas |->
                                   IF q \in known THEN 0 ELSE Unborn]]]
  BY <1>1
<1> DEFINE of == files.agents.of
           g == files.personas.of
           c == Committed
<1>3. /\ of = [a \in Agents |-> IF a \in hired THEN NewAgent(persona[a]) ELSE Unborn]
      /\ g = [q \in Personas |-> IF q \in known THEN 0 ELSE Unborn]
      /\ files.agents.rev = 1 /\ files.personas.rev = 1 /\ IsFile(files.personas)
  BY <1>2 DEF IsFile
<1>4. c = files BY DEF Init, Committed
<1> HIDE DEF of, g, c
<1>5. PersonasOK(files.personas) BY <1>3 DEF PersonasOK, g
<1>6. ASSUME NEW a \in Agents, Born(of, a)
      PROVE  of[a].count = 0 /\ (of[a].persona = NoPersona \/ g[of[a].persona] # Unborn)
  <2>1. a \in hired /\ of[a] = NewAgent(persona[a]) BY <1>3, <1>6 DEF Born
  <2>2. of[a].count = 0 /\ of[a].persona = persona[a] BY <2>1 DEF NewAgent
  <2>3. persona[a] \in known \cup {NoPersona} BY <2>1
  <2>4. 0 # Unborn BY RecordAssumption
  <2> QED BY <1>3, <2>2, <2>3, <2>4
<1>7. CommittedOK(c)
  <2>1. AllKnown(of, g) BY <1>6 DEF AllKnown
  <2> QED BY <1>3, <1>4, <1>5, <2>1 DEF CommittedOK, of, g
<1>8. Agree(c)
  <2>1. \A q \in Personas : Summary(of, q) = 0 BY <1>6, NoScoresNoSummary DEF Assigned
  <2>2. ASSUME NEW q \in Personas, Born(g, q) PROVE g[q] = Summary(of, q)
    <3>1. g[q] = 0 BY <1>3, <2>2 DEF Born
    <3> QED BY <2>1, <3>1
  <2> QED BY <1>4, <2>2 DEF Agree, of, g
<1>9. /\ \A p \in Processes : mine[p] = Empty /\ op[p] = NoOp
      /\ \A d \in Desktops : /\ d \in Processes
                             /\ view[d] = Blank \/ view[d] = [agents |-> files.agents, board |-> files, unsaved |-> FALSE]
  BY DEF Init, Processes
<1>10. NoOp.kind = "none" BY DEF NoOp
<1>11. \A p \in Processes : MineOK(c, at[p], op[p], todo[p], mine[p]) BY <1>7, <1>9, <1>10, EmptyMine
<1>12. ASSUME NEW d \in Desktops
       PROVE  BoardOK(c, op[d], todo[d], view[d]) /\ AloneOK(c, op[d], todo[d], mine[d], view[d])
  <2>1. BoardOK(c, op[d], todo[d], view[d])
    <3>1. CASE view[d] = Blank BY <1>7, <3>1, BlankBoard
    <3>2. CASE view[d] = [agents |-> files.agents, board |-> files, unsaved |-> FALSE]
      BY <1>4, <1>7, <3>2, ExactBoard
    <3> QED BY <1>9, <3>1, <3>2
  <2> QED BY <1>9, <1>10, <2>1 DEF AloneOK
<1>13. KeepsKnown(files.personas.of, c.personas.of) BY <1>4, KnownItself
<1> QED BY <1>7, <1>8, <1>11, <1>12, <1>13 DEF SumInv, c

Sums == Records /\ SumInv

LEMMA SumsKept == Sums /\ [Next]_vars => Sums' /\ [SumStep]_vars
<1> SUFFICES ASSUME IInv, RecordInv, SumInv, [Next]_vars PROVE Sums' /\ [SumStep]_vars
  BY DEF Sums, Records
<1>1. Records' /\ [Advance]_vars BY RecordsKept, NextKeeps DEF Records
<1>2. CASE UNCHANGED vars
  <2>1. Committed' = Committed /\ files' = files BY <1>2 DEF vars, Committed
  <2>2. SumInv' BY <1>2, <2>1 DEF vars, SumInv
  <2> QED BY <1>1, <1>2, <2>2 DEF Sums
<1>3. CASE Next /\ vars' # vars
  <2>0. Advance BY <1>1, <1>3
  <2>1. PICK p \in Processes : Start(p) \/ Run(p) \/ Fault(p) \/ Crash(p) BY <1>3 DEF Next
  <2>2. SumInv' /\ SumStep
    <3>1. CASE Start(p) BY <3>1, StartSums
    <3>2. CASE Fault(p) \/ Crash(p) BY <3>2, LossSums
    <3>3. CASE Run(p)
      <4>1. CASE Acquire(p) BY <4>1, AcquireSums
      <4>2. CASE PutAgents(p) \/ PutPersonas(p) BY <2>0, <4>2, PutSums
      <4>3. CASE Replayed(p) BY <2>0, <4>3, ReplayedSums
      <4>4. CASE PairWritten(p) BY <2>0, <4>4, PairWrittenSums
      <4>5. CASE LoadAgents(p) BY <4>5, LoadAgentsSums
      <4>6. CASE LoadPersonas(p) BY <4>6, LoadPersonasSums
      <4>7. CASE ReadAgents(p) BY <4>7, ReadAgentsSums
      <4>8. CASE ReadPersonas(p) BY <4>8, ReadPersonasSums
      <4>9. CASE WritePersonas(p) BY <2>0, <4>9, WritePersonasSums
      <4>10. CASE WritePair(p) BY <2>0, <4>10, WritePairSums
      <4>11. CASE Mark(p) BY <4>11, MarkSums
      <4>12. CASE Commit(p) BY <2>0, <4>12, CommitSums
      <4> QED BY <3>3, <4>1, <4>2, <4>3, <4>4, <4>5, <4>6, <4>7, <4>8, <4>9, <4>10, <4>11, <4>12 DEF Run
    <3> QED BY <2>1, <3>1, <3>2, <3>3
  <2> QED BY <1>1, <2>2 DEF Sums
<1> QED BY <1>2, <1>3

\* The summaries are right at the start, and no step makes them wrong but the named
\* accident (SummariesAgree: syncPersonaEvaluationSummariesFromAgents and its Rust
\* counterpart): with a window that shows an unsaved pair, PersonasPanel saves the
\* personas of that pair alone. So everybody else - evaluations, agents panels, the
\* command line, replays after crashes, personas saved from what was loaded - may
\* work on old copies in any order.
THEOREM SummariesStayRight == Spec => Agree(Committed) /\ SummariesAgree
<1>1. Init => Sums /\ Agree(Committed) BY InitEstablishes, InitRecords, InitSums DEF Sums, Records
<1>2. Sums /\ [Next]_vars => Sums' /\ [SumStep]_vars BY SumsKept
<1>3. Spec => [][SumStep]_vars /\ Agree(Committed) BY <1>1, <1>2, PTL DEF Spec
<1> QED BY <1>3 DEF SummariesAgree, SumStep

=============================================================================
