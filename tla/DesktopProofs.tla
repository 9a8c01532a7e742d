---------------------------- MODULE DesktopProofs ----------------------------
(***************************************************************************)
(* Parts of the desktop that share no state. Access to a workspace: the     *)
(* interface and the main thread agree on the session of its vault, and a   *)
(* lock is final, for any number of sessions, commands, answers, panels and *)
(* verifications. The project board: what it shows as running is what       *)
(* runs, and what it links as a clone is a whole one, for any number of     *)
(* repositories, views and commands, whatever fails, is removed or dies.    *)
(* Repository tasks: what is told of a run is so. The inspections: the      *)
(* scheduler's queue and counts are exact, for any number of scans,         *)
(* repositories, paths and workers. And sending and receiving: what is told *)
(* to be sent or received is so, for any number of panels, workflows and    *)
(* versions, whatever other computers push and other workflows save.        *)
(***************************************************************************)
EXTENDS WorkspaceAccess, RepositoryOperations, RepositoryTaskState, RepositoryInspectionState,
        WorkspaceSyncState, FiniteSetTheorems, WellFoundedInduction, TLAPS

\* What only the tasks have. A constant or variable that several parts name alike, as
\* inputs, is one here; no theorem is about more than one part.
CONSTANTS Concurrency, Kinds, MaxRuns
VARIABLES term, old, dir, launch, shown, poll

Tasks == INSTANCE RepositoryTasks

\* What only the inspections have.
CONSTANTS Projects, Paths, Workers, TTL, HomePath, MaxScans, MaxClock, MaxChanges
VARIABLES path, priority, open, cache, gen, active, refresh, single, worker, events, flight, now,
          spent

Inspection == INSTANCE RepositoryInspection

\* What only sending and receiving have.
CONSTANTS SyncPanels, Slots, PlainFiles
VARIABLES tracked, mounted, errors

Sync == INSTANCE WorkspaceSync WITH Panels <- SyncPanels

-----------------------------------------------------------------------------
(* What is under way, as one queue: the commands executed, then the others. *)

Worlds == [view : Sessions \cup {None}, closing : Nat, asked : Seq(Commands),
           answered : Seq(Commands), panel : Panels \cup {None}]

Size(w) == Len(w.answered) + Len(w.asked)
Nth(w, i) == IF i <= Len(w.answered) THEN w.answered[i] ELSE w.asked[i - Len(w.answered)]

\* The flows of a mounted panel.
PanelFlows == {"init", "reopen", "op", "failed", "lockVault"}

Counted(w) == w.closing = Closes(w.asked) + Closes(w.answered)
Hidden(w) == w.closing > 0 => w.view = None
\* Nothing that opens a session is sent behind a close.
NoneBehind(w) ==
    \A i, j \in 1..Size(w) : i < j /\ Nth(w, i).op = "close" => Nth(w, j).op \notin VaultOps
\* What an answer is refused for is a close behind it.
DeadBefore(w) ==
    \A i \in 1..Size(w) : ~Nth(w, i).live =>
        \E j \in 1..Size(w) : i < j /\ Nth(w, j).op = "close"
GoneIsDead(w) ==
    \A i \in 1..Size(w) : Nth(w, i).by = "gone" /\ Nth(w, i).op \in VaultOps => ~Nth(w, i).live
Waited(w) == \A i \in 1..Size(w) : Nth(w, i).by \in PanelFlows => w.panel # None
\* Nothing has happened to a command that was not executed.
Fresh(w) ==
    \A i \in 1..Len(w.asked) :
        w.asked[i].ok /\ (w.asked[i].op = "open" => w.asked[i].env \in Names)

Good(w) ==
    /\ w \in Worlds
    /\ Counted(w) /\ Hidden(w) /\ NoneBehind(w) /\ DeadBefore(w) /\ GoneIsDead(w) /\ Waited(w)
    /\ Fresh(w)

Made(c) == c.op \in VaultOps /\ c.ok
Revoked(w, s) == \A i \in 1..Len(w.answered) : w.answered[i].op = "close" => s = None
Told(w, s) ==
    w.closing = 0 =>
        \/ s = w.view /\ \A i \in 1..Len(w.answered) : ~Made(w.answered[i])
        \/ \E i \in 1..Len(w.answered) :
              /\ Made(w.answered[i]) /\ w.answered[i].out = s
              /\ \A j \in 1..Len(w.answered) : i < j => ~Made(w.answered[j])
Held(w, s) == Revoked(w, s) /\ Told(w, s)

VaultInv ==
    /\ Good(Quiet) /\ Held(Quiet, session)
    /\ session \in Sessions \cup {None} /\ file \in Names \cup {None} /\ made \in 0..MaxMade

UnlockInv ==
    /\ unlocked \in BOOLEAN /\ cooling \in BOOLEAN
    /\ verifying \subseteq [id : 1..MaxInputs, right : BOOLEAN, since : Nat]
    /\ current \in 0..MaxInputs /\ attempts \in 0..MaxAttempts /\ locks \in Nat
    /\ inputs \in 0..MaxInputs /\ failures \in 0..MaxFailures
    /\ current <= inputs /\ \A v \in verifying : v.id <= inputs
    /\ unlocked => current = 0
    /\ current # 0 => ~cooling /\ \A v \in verifying : v.id = current => v.since = locks

AccessInv == VaultInv /\ UnlockInv

-----------------------------------------------------------------------------
(* Sequences of commands. *)

LEMMA SeqFacts ==
    ASSUME NEW S, NEW s \in Seq(S)
    PROVE  /\ Len(s) \in Nat /\ DOMAIN s = 1..Len(s)
           /\ \A i \in 1..Len(s) : s[i] \in S
  OBVIOUS

LEMMA ListIsSeq ==
    ASSUME NEW S, NEW n \in Nat, NEW t \in [1..n -> S]
    PROVE  t \in Seq(S) /\ Len(t) = n
  OBVIOUS

LEMMA AppendFacts ==
    ASSUME NEW S, NEW s \in Seq(S), NEW c \in S
    PROVE  /\ Append(s, c) \in Seq(S) /\ Len(Append(s, c)) = Len(s) + 1
           /\ \A i \in 1..Len(s) : Append(s, c)[i] = s[i]
           /\ Append(s, c)[Len(s) + 1] = c
  OBVIOUS

LEMMA TailFacts ==
    ASSUME NEW S, NEW s \in Seq(S), s # <<>>
    PROVE  /\ Tail(s) \in Seq(S) /\ Len(Tail(s)) = Len(s) - 1 /\ Len(s) \in Nat \ {0}
           /\ \A i \in 1..(Len(s) - 1) : Tail(s)[i] = s[i + 1]
           /\ Head(s) = s[1] /\ Head(s) \in S
  OBVIOUS

CloseAt(s) == {i \in 1..Len(s) : s[i].op = "close"}

LEMMA ClosesIsCount ==
    ASSUME NEW S, NEW s \in Seq(S)
    PROVE  /\ Closes(s) = Cardinality(CloseAt(s)) /\ IsFiniteSet(CloseAt(s)) /\ Closes(s) \in Nat
           /\ Closes(s) = 0 <=> \A i \in 1..Len(s) : s[i].op # "close"
  <1>1. DOMAIN s = 1..Len(s) /\ Len(s) \in Nat BY SeqFacts
  <1>2. Closes(s) = Cardinality(CloseAt(s)) BY <1>1 DEF Closes, CloseAt
  <1>3. IsFiniteSet(CloseAt(s))
    <2>1. IsFiniteSet(1..Len(s)) /\ CloseAt(s) \subseteq 1..Len(s) BY <1>1, FS_Interval DEF CloseAt
    <2> QED BY <2>1, FS_Subset
  <1>4. Cardinality(CloseAt(s)) \in Nat /\ (Cardinality(CloseAt(s)) = 0 <=> CloseAt(s) = {})
    BY <1>3, FS_CardinalityType, FS_EmptySet
  <1> QED BY <1>2, <1>3, <1>4 DEF CloseAt

LEMMA ClosesAlike ==
    ASSUME NEW S, NEW s \in Seq(S), NEW t \in Seq(S), Len(s) = Len(t),
           \A i \in 1..Len(s) : s[i].op = t[i].op
    PROVE  Closes(t) = Closes(s)
  <1>1. CloseAt(s) = CloseAt(t) BY DEF CloseAt
  <1> QED BY <1>1, ClosesIsCount

LEMMA ClosesGrow ==
    ASSUME NEW S, NEW s \in Seq(S), NEW t \in Seq(S), Len(t) = Len(s) + 1,
           \A i \in 1..Len(s) : t[i].op = s[i].op
    PROVE  Closes(t) = Closes(s) + (IF t[Len(s) + 1].op = "close" THEN 1 ELSE 0)
  <1> DEFINE n == Len(s) + 1
  <1>1. Len(s) \in Nat /\ Len(t) = n BY SeqFacts
  <1>2. /\ Closes(s) = Cardinality(CloseAt(s)) /\ IsFiniteSet(CloseAt(s)) /\ Closes(s) \in Nat
        /\ Closes(t) = Cardinality(CloseAt(t))
    BY ClosesIsCount
  <1>3. CASE t[n].op = "close"
    <2>1. CloseAt(t) = CloseAt(s) \cup {n} /\ n \notin CloseAt(s) BY <1>1, <1>3 DEF CloseAt
    <2>2. Cardinality(CloseAt(s) \cup {n}) = Cardinality(CloseAt(s)) + 1
      BY <2>1, <1>2, FS_AddElement
    <2> QED BY <1>2, <1>3, <2>1, <2>2
  <1>4. CASE t[n].op # "close"
    <2>1. CloseAt(t) = CloseAt(s) BY <1>1, <1>4 DEF CloseAt
    <2> QED BY <1>2, <1>4, <2>1
  <1> QED BY <1>3, <1>4

LEMMA ClosesOfTail ==
    ASSUME NEW S, NEW s \in Seq(S), s # <<>>
    PROVE  Closes(s) = Closes(Tail(s)) + (IF Head(s).op = "close" THEN 1 ELSE 0)
  <1> DEFINE t == Tail(s)
             R == CloseAt(s) \ {1}
  <1>1. /\ t \in Seq(S) /\ Len(t) = Len(s) - 1 /\ Len(s) \in Nat \ {0}
        /\ \A i \in 1..(Len(s) - 1) : t[i] = s[i + 1]
        /\ Head(s) = s[1]
    BY TailFacts
  <1>2. /\ Closes(s) = Cardinality(CloseAt(s)) /\ IsFiniteSet(CloseAt(s)) /\ Closes(s) \in Nat
        /\ Closes(t) = Cardinality(CloseAt(t)) /\ IsFiniteSet(CloseAt(t)) /\ Closes(t) \in Nat
    BY <1>1, ClosesIsCount
  <1> HIDE DEF t
  <1>3. Cardinality(R) = Cardinality(CloseAt(t))
    <2> DEFINE f == [i \in CloseAt(t) |-> i + 1]
    <2>1. f \in Bijection(CloseAt(t), R)
      <3>1. \A i \in CloseAt(t) : f[i] \in R BY <1>1 DEF CloseAt
      <3>2. \A i, j \in CloseAt(t) : f[i] = f[j] => i = j BY <1>1 DEF CloseAt
      <3>3. \A k \in R : \E i \in CloseAt(t) : f[i] = k
        <4> SUFFICES ASSUME NEW k \in R PROVE k - 1 \in CloseAt(t) /\ f[k - 1] = k OBVIOUS
        <4> QED BY <1>1 DEF CloseAt
      <3> QED BY <3>1, <3>2, <3>3 DEF Bijection, Injection, Surjection, IsInjective
    <2>2. ExistsBijection(CloseAt(t), R) BY <2>1 DEF ExistsBijection
    <2> QED BY <1>2, <2>2, FS_Bijection
  <1>4. CASE Head(s).op = "close"
    <2>1. 1 \in CloseAt(s) BY <1>1, <1>4 DEF CloseAt
    <2>2. Cardinality(R) = Cardinality(CloseAt(s)) - 1 BY <2>1, <1>2, FS_RemoveElement
    <2> QED BY <1>2, <1>3, <1>4, <2>2 DEF t
  <1>5. CASE Head(s).op # "close"
    <2>1. R = CloseAt(s) BY <1>1, <1>5 DEF CloseAt
    <2>2. Cardinality(R) = Cardinality(CloseAt(s)) BY <2>1
    <2>3. Closes(s) = Closes(t) + 0
      <3> HIDE DEF R
      <3> QED BY <1>2, <1>3, <2>2
    <2> QED BY <1>5, <2>3 DEF t
  <1> QED BY <1>4, <1>5

-----------------------------------------------------------------------------
(* What steps do to the queue. *)

\* What stands where, when n commands are answered and m are not.
Placed(w, n, m) ==
    /\ Size(w) = n + m /\ Size(w) \in Nat
    /\ \A i \in 1..n : i \in 1..Size(w) /\ Nth(w, i) = w.answered[i]
    /\ \A i \in 1..m : i + n \in 1..Size(w) /\ Nth(w, i + n) = w.asked[i]
    /\ \A i \in 1..Size(w) : \/ i \in 1..n /\ Nth(w, i) = w.answered[i]
                             \/ i - n \in 1..m /\ Nth(w, i) = w.asked[i - n]

LEMMA Positions ==
    ASSUME NEW w, NEW n \in Nat, NEW m \in Nat, Len(w.answered) = n, Len(w.asked) = m
    PROVE  Placed(w, n, m)
  <1>1. Size(w) = n + m /\ Size(w) \in Nat BY DEF Size
  <1>2. \A i \in 1..n : i \in 1..Size(w) /\ i <= n BY <1>1
  <1>3. \A i \in 1..m : i + n \in 1..Size(w) /\ ~(i + n <= n) /\ (i + n) - n = i BY <1>1
  <1>4. \A i \in 1..Size(w) : (i \in 1..n /\ i <= n) \/ (i - n \in 1..m /\ ~(i <= n)) BY <1>1
  <1> QED BY <1>1, <1>2, <1>3, <1>4 DEF Nth, Placed

LEMMA WorldFacts ==
    ASSUME NEW w \in Worlds
    PROVE  /\ w.asked \in Seq(Commands) /\ w.answered \in Seq(Commands)
           /\ Len(w.asked) \in Nat /\ Len(w.answered) \in Nat /\ Size(w) \in Nat
           /\ \A i \in 1..Size(w) :
                 /\ Nth(w, i) \in Commands
                 /\ \/ i \in 1..Len(w.answered) /\ Nth(w, i) = w.answered[i]
                    \/ /\ i - Len(w.answered) \in 1..Len(w.asked)
                       /\ Nth(w, i) = w.asked[i - Len(w.answered)]
           /\ \A i \in 1..Len(w.answered) : i \in 1..Size(w) /\ Nth(w, i) = w.answered[i]
           /\ \A i \in 1..Len(w.asked) : /\ i + Len(w.answered) \in 1..Size(w)
                                         /\ Nth(w, i + Len(w.answered)) = w.asked[i]
           /\ Closes(w.asked) \in Nat /\ Closes(w.answered) \in Nat /\ w.closing \in Nat
  <1>1. w.asked \in Seq(Commands) /\ w.answered \in Seq(Commands) /\ w.closing \in Nat BY DEF Worlds
  <1>2. /\ Len(w.asked) \in Nat /\ Len(w.answered) \in Nat
        /\ Closes(w.asked) \in Nat /\ Closes(w.answered) \in Nat
        /\ \A i \in 1..Len(w.asked) : w.asked[i] \in Commands
        /\ \A i \in 1..Len(w.answered) : w.answered[i] \in Commands
    BY <1>1, SeqFacts, ClosesIsCount
  <1>3. /\ Size(w) \in Nat
        /\ \A i \in 1..Len(w.answered) : i \in 1..Size(w) /\ Nth(w, i) = w.answered[i]
        /\ \A i \in 1..Len(w.asked) : /\ i + Len(w.answered) \in 1..Size(w)
                                      /\ Nth(w, i + Len(w.answered)) = w.asked[i]
        /\ \A i \in 1..Size(w) : \/ i \in 1..Len(w.answered) /\ Nth(w, i) = w.answered[i]
                                 \/ /\ i - Len(w.answered) \in 1..Len(w.asked)
                                    /\ Nth(w, i) = w.asked[i - Len(w.answered)]
    <2>1. Placed(w, Len(w.answered), Len(w.asked)) BY <1>2, Positions
    <2> QED BY <1>2, <2>1 DEF Placed
  <1> QED BY <1>1, <1>2, <1>3

\* While no close is under way, there is none in the queue and every answer counts.
LEMMA NoneClosing ==
    ASSUME NEW w, Good(w), w.closing = 0
    PROVE  \A i \in 1..Size(w) : Nth(w, i).op # "close" /\ Nth(w, i).live
  <1>1. w \in Worlds /\ Counted(w) /\ DeadBefore(w) BY DEF Good
  <1>2. Closes(w.asked) = 0 /\ Closes(w.answered) = 0 BY <1>1, WorldFacts DEF Counted
  <1>3. /\ \A i \in 1..Len(w.asked) : w.asked[i].op # "close"
        /\ \A i \in 1..Len(w.answered) : w.answered[i].op # "close"
    BY <1>1, <1>2, WorldFacts, ClosesIsCount
  <1>4. \A i \in 1..Size(w) : Nth(w, i).op # "close"
    <2> TAKE i \in 1..Size(w)
    <2>1. \/ i \in 1..Len(w.answered) /\ Nth(w, i) = w.answered[i]
          \/ /\ i - Len(w.answered) \in 1..Len(w.asked)
             /\ Nth(w, i) = w.asked[i - Len(w.answered)]
      BY <1>1, WorldFacts
    <2> QED BY <1>3, <2>1
  <1> QED BY <1>1, <1>4 DEF DeadBefore

\* An answer is taken off the front.
LEMMA PopFacts ==
    ASSUME NEW w \in Worlds, NEW v \in Worlds, w.answered # <<>>,
           v.answered = Tail(w.answered), v.asked = w.asked
    PROVE  /\ Size(w) = Size(v) + 1 /\ Size(v) \in Nat /\ Len(w.answered) = Len(v.answered) + 1
           /\ \A i \in 1..Size(v) : Nth(v, i) = Nth(w, i + 1)
           /\ Nth(w, 1) = Head(w.answered) /\ Head(w.answered) = w.answered[1]
           /\ Closes(w.asked) + Closes(w.answered)
                = Closes(v.asked) + Closes(v.answered)
                  + (IF Head(w.answered).op = "close" THEN 1 ELSE 0)
  <1>1. /\ Len(v.answered) = Len(w.answered) - 1 /\ Len(w.answered) \in Nat \ {0}
        /\ \A i \in 1..(Len(w.answered) - 1) : v.answered[i] = w.answered[i + 1]
        /\ Head(w.answered) = w.answered[1]
    BY WorldFacts, TailFacts
  <1>2. Closes(w.answered) = Closes(v.answered) + (IF Head(w.answered).op = "close" THEN 1 ELSE 0)
    BY WorldFacts, ClosesOfTail
  <1>3. Len(w.asked) \in Nat BY WorldFacts
  <1> DEFINE n == Len(v.answered)
             m == Len(w.asked)
  <1>8. /\ n \in Nat /\ m \in Nat /\ Len(v.answered) = n /\ Len(v.asked) = m
        /\ Len(w.answered) = n + 1 /\ Len(w.asked) = m
        /\ \A i \in 1..n : v.answered[i] = w.answered[i + 1]
    BY <1>1, <1>3
  <1>9. /\ Size(v) = n + m /\ Size(w) = (n + 1) + m
        /\ \A i \in 1..Size(v) : \/ i \in 1..n /\ Nth(v, i) = v.answered[i]
                                 \/ i - n \in 1..m /\ Nth(v, i) = v.asked[i - n]
        /\ \A i \in 1..(n + 1) : Nth(w, i) = w.answered[i]
        /\ \A i \in 1..m : Nth(w, i + (n + 1)) = w.asked[i]
    <2> HIDE DEF n, m
    <2>1. n + 1 \in Nat BY <1>8
    <2>2. /\ Size(v) = n + m
          /\ \A i \in 1..Size(v) : \/ i \in 1..n /\ Nth(v, i) = v.answered[i]
                                   \/ i - n \in 1..m /\ Nth(v, i) = v.asked[i - n]
      <3>1. n \in Nat /\ m \in Nat /\ Len(v.answered) = n /\ Len(v.asked) = m BY <1>8
      <3>2. Placed(v, n, m) BY ONLY <3>1, Positions
      <3> QED BY <3>2 DEF Placed
    <2>3. /\ Size(w) = (n + 1) + m
          /\ \A i \in 1..(n + 1) : Nth(w, i) = w.answered[i]
          /\ \A i \in 1..m : Nth(w, i + (n + 1)) = w.asked[i]
      <3>1. n + 1 \in Nat /\ m \in Nat /\ Len(w.answered) = n + 1 /\ Len(w.asked) = m BY <1>8, <2>1
      <3>2. Placed(w, n + 1, m) BY ONLY <3>1, Positions
      <3> QED BY <3>2 DEF Placed
    <2> QED BY <2>2, <2>3
  <1>4. Size(w) = Size(v) + 1 /\ Size(v) \in Nat
    <2> HIDE DEF n, m
    <2> QED BY <1>8, <1>9
  <1>5. \A i \in 1..Size(v) : Nth(v, i) = Nth(w, i + 1)
    <2> HIDE DEF n, m
    <2> TAKE i \in 1..Size(v)
    <2>1. CASE i \in 1..n /\ Nth(v, i) = v.answered[i]
      <3>1. i + 1 \in 1..(n + 1) BY <1>8, <2>1
      <3> QED BY <1>8, <1>9, <2>1, <3>1
    <2>2. CASE i - n \in 1..m /\ Nth(v, i) = v.asked[i - n]
      <3>1. (i - n) + (n + 1) = i + 1 BY <1>8, <1>9
      <3>2. Nth(w, (i - n) + (n + 1)) = w.asked[i - n] BY <1>9, <2>2
      <3> QED BY <2>2, <3>1, <3>2
    <2> QED BY <1>9, <2>1, <2>2
  <1>6. Nth(w, 1) = w.answered[1] BY <1>1 DEF Nth
  <1>7. /\ Closes(w.asked) \in Nat /\ Closes(w.answered) \in Nat /\ Closes(v.answered) \in Nat
    BY WorldFacts
  <1> QED BY <1>1, <1>2, <1>4, <1>5, <1>6, <1>7

Popped(w, v) ==
    /\ w.answered # <<>> /\ v \in Worlds
    /\ v.answered = Tail(w.answered) /\ v.asked = w.asked /\ v.panel = w.panel
    /\ v.closing = w.closing - (IF Head(w.answered).op = "close" THEN 1 ELSE 0)

LEMMA PopGood ==
    ASSUME NEW w, NEW v, Good(w), Popped(w, v), v.closing > 0 => v.view = w.view
    PROVE  Good(v)
  <1>1. /\ w \in Worlds /\ Counted(w) /\ Hidden(w) /\ NoneBehind(w) /\ DeadBefore(w)
        /\ GoneIsDead(w) /\ Waited(w)
        /\ v \in Worlds
    BY DEF Good, Popped
  <1>2. /\ Size(w) = Size(v) + 1 /\ Size(v) \in Nat
        /\ \A i \in 1..Size(v) : Nth(v, i) = Nth(w, i + 1)
        /\ Closes(w.asked) + Closes(w.answered)
             = Closes(v.asked) + Closes(v.answered)
               + (IF Head(w.answered).op = "close" THEN 1 ELSE 0)
    BY <1>1, PopFacts DEF Popped
  <1>3. w.closing \in Nat /\ v.closing \in Nat /\ Closes(v.asked) + Closes(v.answered) \in Nat
    BY <1>1, WorldFacts
  <1>4. Counted(v) BY <1>1, <1>2, <1>3 DEF Counted, Popped
  <1>5. Hidden(v) BY <1>1, <1>3 DEF Hidden, Popped
  <1>6. NoneBehind(v)
    <2> SUFFICES ASSUME NEW i \in 1..Size(v), NEW j \in 1..Size(v), i < j, Nth(v, i).op = "close"
                 PROVE  Nth(v, j).op \notin VaultOps
      BY DEF NoneBehind
    <2>1. i + 1 \in 1..Size(w) /\ j + 1 \in 1..Size(w) /\ i + 1 < j + 1 BY <1>2
    <2> QED BY <1>1, <1>2, <2>1 DEF NoneBehind
  <1>7. DeadBefore(v)
    <2> SUFFICES ASSUME NEW i \in 1..Size(v), ~Nth(v, i).live
                 PROVE  \E j \in 1..Size(v) : i < j /\ Nth(v, j).op = "close"
      BY DEF DeadBefore
    <2>1. i + 1 \in 1..Size(w) /\ ~Nth(w, i + 1).live BY <1>2
    <2>2. PICK k \in 1..Size(w) : i + 1 < k /\ Nth(w, k).op = "close" BY <1>1, <2>1 DEF DeadBefore
    <2>3. k - 1 \in 1..Size(v) /\ i < k - 1 /\ (k - 1) + 1 = k BY <1>2, <2>2
    <2>4. Nth(v, k - 1) = Nth(w, (k - 1) + 1) BY <1>2, <2>3
    <2> QED BY <2>2, <2>3, <2>4
  <1>8. GoneIsDead(v) /\ Waited(v)
    <2>1. \A i \in 1..Size(v) : i + 1 \in 1..Size(w) BY <1>2
    <2>2. v.panel = w.panel BY DEF Popped
    <2> QED BY <1>1, <1>2, <2>1, <2>2 DEF GoneIsDead, Waited
  <1>9. Fresh(v) BY DEF Fresh, Good, Popped
  <1> QED BY <1>1, <1>4, <1>5, <1>6, <1>7, <1>8, <1>9 DEF Good

LEMMA PopHeld ==
    ASSUME NEW w, NEW v, NEW s, Good(w), Held(w, s), Popped(w, v),
           v.closing = 0 => v.view = IF Made(Head(w.answered)) /\ w.closing = 0
                                     THEN Head(w.answered).out ELSE w.view
    PROVE  Held(v, s)
  <1> DEFINE c == Head(w.answered)
             n == Len(v.answered)
  <1>1. w \in Worlds /\ Counted(w) /\ Hidden(w) /\ NoneBehind(w) /\ v \in Worlds BY DEF Good, Popped
  <1>2. /\ Size(w) = Size(v) + 1 /\ Size(v) \in Nat /\ Len(w.answered) = n + 1
        /\ \A i \in 1..Size(v) : Nth(v, i) = Nth(w, i + 1)
        /\ Nth(w, 1) = c /\ w.answered[1] = c
    BY <1>1, PopFacts DEF Popped
  <1>3. /\ n \in Nat /\ \A i \in 1..n : i \in 1..Size(v) /\ Nth(v, i) = v.answered[i]
        /\ \A i \in 1..(n + 1) : i \in 1..Size(w) /\ Nth(w, i) = w.answered[i]
    BY <1>1, <1>2, WorldFacts
  <1>4. \A i \in 1..n : i + 1 \in 1..(n + 1) /\ v.answered[i] = w.answered[i + 1]
    <2> TAKE i \in 1..n
    <2>1. i + 1 \in 1..(n + 1) BY <1>3
    <2> QED BY <1>2, <1>3, <2>1
  <1>5. Revoked(v, s) BY <1>2, <1>3, <1>4 DEF Revoked, Held
  <1>6. ASSUME v.closing = 0
        PROVE  \/ s = v.view /\ \A i \in 1..n : ~Made(v.answered[i])
               \/ \E i \in 1..n : /\ Made(v.answered[i]) /\ v.answered[i].out = s
                                  /\ \A j \in 1..n : i < j => ~Made(v.answered[j])
    <2>1. CASE c.op = "close"
      <3>1. w.closing = 1 BY <1>1, <1>6, <2>1, WorldFacts DEF Popped
      <3>2. w.view = None /\ v.view = None BY <1>1, <1>6, <2>1, <3>1 DEF Hidden
      <3>3. s = None BY <1>2, <1>3, <2>1 DEF Held, Revoked
      <3>4. \A i \in 1..n : ~Made(v.answered[i])
        <4> SUFFICES ASSUME NEW i \in 1..n PROVE v.answered[i].op \notin VaultOps BY DEF Made
        <4>1. 1 \in 1..Size(w) /\ i + 1 \in 1..Size(w) /\ 1 < i + 1 BY <1>2, <1>3
        <4>2. Nth(w, i + 1).op \notin VaultOps BY <1>1, <1>2, <2>1, <4>1 DEF NoneBehind
        <4> QED BY <1>2, <1>3, <4>2
      <3> QED BY <3>2, <3>3, <3>4
    <2>2. CASE c.op # "close"
      <3>1. w.closing = 0 BY <1>1, <1>6, <2>2, WorldFacts DEF Popped
      <3>2. CASE s = w.view /\ \A i \in 1..(n + 1) : ~Made(w.answered[i])
        <4>1. ~Made(c) BY <1>2, <1>3, <3>2
        <4> QED BY <1>4, <1>6, <3>2, <4>1
      <3>3. CASE \E i \in 1..(n + 1) :
                    /\ Made(w.answered[i]) /\ w.answered[i].out = s
                    /\ \A j \in 1..(n + 1) : i < j => ~Made(w.answered[j])
        <4>1. PICK i \in 1..(n + 1) :
                    /\ Made(w.answered[i]) /\ w.answered[i].out = s
                    /\ \A j \in 1..(n + 1) : i < j => ~Made(w.answered[j])
          BY <3>3
        <4>2. CASE i = 1
          <5>1. v.view = s BY <1>2, <1>6, <3>1, <4>1, <4>2
          <5>2. \A j \in 1..n : ~Made(v.answered[j])
            <6> TAKE j \in 1..n
            <6>1. 1 < j + 1 /\ j + 1 \in 1..(n + 1) /\ v.answered[j] = w.answered[j + 1]
              BY <1>3, <1>4
            <6> QED BY <4>1, <4>2, <6>1
          <5> QED BY <5>1, <5>2
        <4>3. CASE i # 1
          <5>1. i - 1 \in 1..n /\ v.answered[i - 1] = w.answered[i]
            <6>1. i - 1 \in 1..n /\ (i - 1) + 1 = i BY <1>3, <4>3
            <6> QED BY <1>4, <6>1
          <5>2. \A j \in 1..n : i - 1 < j => ~Made(v.answered[j])
            <6> SUFFICES ASSUME NEW j \in 1..n, i - 1 < j PROVE ~Made(v.answered[j]) OBVIOUS
            <6>1. i < j + 1 /\ j + 1 \in 1..(n + 1) /\ v.answered[j] = w.answered[j + 1]
              BY <1>3, <1>4
            <6> QED BY <4>1, <6>1
          <5> QED BY <4>1, <5>1, <5>2
        <4> QED BY <4>2, <4>3
      <3> QED BY <1>2, <3>1, <3>2, <3>3 DEF Held, Told
    <2> QED BY <2>1, <2>2
  <1> QED BY <1>5, <1>6 DEF Held, Told

\* A close is sent, and with it nothing counts that was under way.
Sealed(w, v) ==
    /\ v \in Worlds /\ v.closing = w.closing + 1 /\ v.view = None
    /\ Len(v.answered) = Len(w.answered) /\ Len(v.asked) = Len(w.asked) + 1
    /\ \A i \in 1..Len(w.answered) : v.answered[i].op = w.answered[i].op /\ ~v.answered[i].live
    /\ \A i \in 1..Len(w.asked) : v.asked[i].op = w.asked[i].op /\ ~v.asked[i].live
    /\ v.asked[Len(w.asked) + 1].op = "close" /\ v.asked[Len(w.asked) + 1].live
    /\ Fresh(v)

LEMMA SealGood ==
    ASSUME NEW w, NEW v, NEW s, Good(w), Sealed(w, v), Waited(v)
    PROVE  Good(v) /\ (Held(w, s) => Held(v, s))
  <1> DEFINE n == Len(w.answered)
             m == Len(w.asked)
             z == Size(v)
  <1>1. /\ w \in Worlds /\ Counted(w) /\ NoneBehind(w) /\ v \in Worlds
        /\ n \in Nat /\ m \in Nat /\ w.closing \in Nat
        /\ Len(v.answered) = n /\ Len(v.asked) = m + 1 /\ Len(w.answered) = n /\ Len(w.asked) = m
    BY WorldFacts DEF Good, Sealed
  <1>2. /\ z = n + (m + 1) /\ Size(w) = n + m /\ z \in Nat
        /\ \A i \in 1..z : \/ i \in 1..n /\ Nth(v, i) = v.answered[i]
                           \/ i - n \in 1..(m + 1) /\ Nth(v, i) = v.asked[i - n]
        /\ \A i \in 1..Size(w) : \/ i \in 1..n /\ Nth(w, i) = w.answered[i]
                                 \/ i - n \in 1..m /\ Nth(w, i) = w.asked[i - n]
        /\ Nth(v, (m + 1) + n) = v.asked[m + 1]
    <2> HIDE DEF n, m
    <2>1. m + 1 \in Nat /\ m + 1 \in 1..(m + 1) BY <1>1
    <2>2. /\ z = n + (m + 1) /\ z \in Nat
          /\ \A i \in 1..z : \/ i \in 1..n /\ Nth(v, i) = v.answered[i]
                             \/ i - n \in 1..(m + 1) /\ Nth(v, i) = v.asked[i - n]
          /\ \A i \in 1..(m + 1) : Nth(v, i + n) = v.asked[i]
      <3>1. n \in Nat /\ m + 1 \in Nat /\ Len(v.answered) = n /\ Len(v.asked) = m + 1 BY <1>1, <2>1
      <3>2. Placed(v, n, m + 1) BY ONLY <3>1, Positions
      <3> QED BY <3>2 DEF Placed
    <2>3. /\ Size(w) = n + m
          /\ \A i \in 1..Size(w) : \/ i \in 1..n /\ Nth(w, i) = w.answered[i]
                                   \/ i - n \in 1..m /\ Nth(w, i) = w.asked[i - n]
      <3>1. Placed(w, n, m) BY <1>1, Positions
      <3> QED BY <3>1 DEF Placed
    <2> QED BY <2>1, <2>2, <2>3
  \* The last command is a close that counts; the others were there and do not.
  <1>3. /\ z \in 1..z /\ Nth(v, z).op = "close" /\ Nth(v, z).live
        /\ \A i \in 1..z : i # z => /\ i \in 1..Size(w) /\ i < z
                                    /\ Nth(v, i).op = Nth(w, i).op /\ ~Nth(v, i).live
    <2> HIDE DEF n, m, z
    <2>1. z = (m + 1) + n /\ z \in 1..z BY <1>1, <1>2
    <2>2. Nth(v, z).op = "close" /\ Nth(v, z).live BY <1>2, <2>1 DEF Sealed, m
    <2>3. ASSUME NEW i \in 1..z, i # z
          PROVE  /\ i \in 1..Size(w) /\ i < z
                 /\ Nth(v, i).op = Nth(w, i).op /\ ~Nth(v, i).live
      <3>1. i \in 1..Size(w) /\ i < z BY <1>1, <1>2, <2>3
      <3>2. CASE i \in 1..n
        <4>1. ~(i - n \in 1..m) /\ ~(i - n \in 1..(m + 1)) BY <1>1, <3>2
        <4>2. Nth(v, i) = v.answered[i] /\ Nth(w, i) = w.answered[i] BY <1>2, <3>1, <4>1
        <4> QED BY <3>1, <3>2, <4>2 DEF Sealed, n
      <3>3. CASE i \notin 1..n
        <4>1. Nth(v, i) = v.asked[i - n] /\ Nth(w, i) = w.asked[i - n] /\ i - n \in 1..m
          BY <1>2, <3>1, <3>3
        <4> QED BY <3>1, <4>1 DEF Sealed, m
      <3> QED BY <3>2, <3>3
    <2> QED BY <2>1, <2>2, <2>3
  <1>4. Counted(v)
    <2>1. Closes(v.answered) = Closes(w.answered)
      <3>1. /\ w.answered \in Seq(Commands) /\ v.answered \in Seq(Commands)
            /\ Len(w.answered) = Len(v.answered)
            /\ \A i \in 1..Len(w.answered) : w.answered[i].op = v.answered[i].op
        BY <1>1, WorldFacts DEF Sealed
      <3> QED BY ONLY <3>1, ClosesAlike
    <2>2. Closes(v.asked) = Closes(w.asked) + 1 BY <1>1, WorldFacts, ClosesGrow DEF Sealed
    <2> QED BY <1>1, <2>1, <2>2, WorldFacts DEF Counted, Sealed
  <1>5. Hidden(v) BY DEF Hidden, Sealed
  <1>6. NoneBehind(v)
    <2> SUFFICES ASSUME NEW i \in 1..z, NEW j \in 1..z, i < j, Nth(v, i).op = "close"
                 PROVE  Nth(v, j).op \notin VaultOps
      BY DEF NoneBehind
    <2>1. CASE j = z BY <1>3, <2>1 DEF VaultOps
    <2>2. CASE j # z
      <3>0. i # z
        <4>1. \A k \in Nat : \A x, y \in 1..k : x < y => x # k OBVIOUS
        <4> QED BY <1>2, <4>1
      <3>1. i \in 1..Size(w) /\ j \in 1..Size(w) BY <1>3, <2>2, <3>0
      <3> QED BY <1>1, <1>3, <2>2, <3>0, <3>1 DEF NoneBehind
    <2> QED BY <2>1, <2>2
  <1>7. DeadBefore(v) BY <1>3 DEF DeadBefore
  <1>8. GoneIsDead(v)
    <2> SUFFICES ASSUME NEW i \in 1..z, Nth(v, i).op \in VaultOps PROVE ~Nth(v, i).live
      BY DEF GoneIsDead
    <2> QED BY <1>3 DEF VaultOps
  <1>9. Good(v) BY <1>1, <1>4, <1>5, <1>6, <1>7, <1>8 DEF Good, Sealed
  <1>10. Held(w, s) => Held(v, s)
    <2>1. v.closing # 0 BY <1>1 DEF Sealed
    <2>2. Revoked(w, s) => Revoked(v, s) BY DEF Revoked, Sealed
    <2> QED BY <2>1, <2>2 DEF Held, Told
  <1> QED BY <1>9, <1>10

\* A command that is no close is sent.
Sent(w, v, c) ==
    /\ w \in Worlds /\ v \in Worlds /\ c \in Commands
    /\ v.view = w.view /\ v.closing = w.closing /\ v.answered = w.answered
    /\ v.asked = Append(w.asked, c)
    /\ c.op # "close" /\ c.live /\ c.by # "gone" /\ c.ok
    /\ c.op = "open" => c.env \in Names
    /\ c.op \in VaultOps => w.closing = 0
    /\ w.panel # None => v.panel # None
    /\ c.by \in PanelFlows => v.panel # None

LEMMA SendGood ==
    ASSUME NEW w, NEW v, NEW c, NEW s, Good(w), Sent(w, v, c)
    PROVE  Good(v) /\ (Held(w, s) => Held(v, s))
  <1> DEFINE n == Len(w.answered)
             m == Len(w.asked)
             z == Size(v)
  <1>1. /\ w \in Worlds /\ Counted(w) /\ Hidden(w) /\ NoneBehind(w) /\ DeadBefore(w)
        /\ GoneIsDead(w) /\ Waited(w)
        /\ v \in Worlds
        /\ n \in Nat /\ m \in Nat /\ w.closing \in Nat
        /\ Len(v.answered) = n /\ Len(v.asked) = m + 1 /\ Len(w.answered) = n /\ Len(w.asked) = m
        /\ v.answered = w.answered /\ \A i \in 1..m : v.asked[i] = w.asked[i]
        /\ v.asked[m + 1] = c
    BY WorldFacts, AppendFacts DEF Good, Sent
  <1>2. /\ z = n + (m + 1) /\ Size(w) = n + m /\ z \in Nat
        /\ \A i \in 1..z : \/ i \in 1..n /\ Nth(v, i) = v.answered[i]
                           \/ i - n \in 1..(m + 1) /\ Nth(v, i) = v.asked[i - n]
        /\ \A i \in 1..Size(w) : \/ i \in 1..n /\ Nth(w, i) = w.answered[i]
                                 \/ i - n \in 1..m /\ Nth(w, i) = w.asked[i - n]
        /\ Nth(v, (m + 1) + n) = v.asked[m + 1]
    <2> HIDE DEF n, m
    <2>1. m + 1 \in Nat /\ m + 1 \in 1..(m + 1) BY <1>1
    <2>2. /\ z = n + (m + 1) /\ z \in Nat
          /\ \A i \in 1..z : \/ i \in 1..n /\ Nth(v, i) = v.answered[i]
                             \/ i - n \in 1..(m + 1) /\ Nth(v, i) = v.asked[i - n]
          /\ \A i \in 1..(m + 1) : Nth(v, i + n) = v.asked[i]
      <3>1. n \in Nat /\ m + 1 \in Nat /\ Len(v.answered) = n /\ Len(v.asked) = m + 1 BY <1>1, <2>1
      <3>2. Placed(v, n, m + 1) BY ONLY <3>1, Positions
      <3> QED BY <3>2 DEF Placed
    <2>3. /\ Size(w) = n + m
          /\ \A i \in 1..Size(w) : \/ i \in 1..n /\ Nth(w, i) = w.answered[i]
                                   \/ i - n \in 1..m /\ Nth(w, i) = w.asked[i - n]
      <3>1. Placed(w, n, m) BY <1>1, Positions
      <3> QED BY <3>1 DEF Placed
    <2> QED BY <2>1, <2>2, <2>3
  <1>3. /\ z \in 1..z /\ Nth(v, z) = c
        /\ \A i \in 1..z : i # z => i \in 1..Size(w) /\ i < z /\ Nth(v, i) = Nth(w, i)
        /\ \A i \in 1..Size(w) : i \in 1..z /\ i # z
    <2> HIDE DEF n, m, z
    <2>1. z = (m + 1) + n /\ z \in 1..z BY <1>1, <1>2
    <2>2. Nth(v, z) = c BY <1>1, <1>2, <2>1
    <2>3. ASSUME NEW i \in 1..z, i # z
          PROVE  i \in 1..Size(w) /\ i < z /\ Nth(v, i) = Nth(w, i)
      <3>1. i \in 1..Size(w) /\ i < z BY <1>1, <1>2, <2>3
      <3>2. CASE i \in 1..n
        <4>1. ~(i - n \in 1..m) /\ ~(i - n \in 1..(m + 1)) BY <1>1, <3>2
        <4> QED BY <1>1, <1>2, <3>1, <4>1
      <3>3. CASE i \notin 1..n
        <4>1. Nth(v, i) = v.asked[i - n] /\ Nth(w, i) = w.asked[i - n] /\ i - n \in 1..m
          BY <1>2, <3>1, <3>3
        <4> QED BY <1>1, <3>1, <4>1
      <3> QED BY <3>2, <3>3
    <2>4. \A i \in 1..Size(w) : i \in 1..z /\ i # z BY <1>1, <1>2
    <2> QED BY <2>1, <2>2, <2>3, <2>4
  <1>4. Counted(v)
    <2>1. Closes(v.asked) = Closes(w.asked) + 0
      <3>1. /\ w.asked \in Seq(Commands) /\ v.asked \in Seq(Commands)
            /\ Len(v.asked) = Len(w.asked) + 1
            /\ \A i \in 1..Len(w.asked) : v.asked[i].op = w.asked[i].op
        BY <1>1, WorldFacts
      <3>2. v.asked[Len(w.asked) + 1].op # "close" BY <1>1 DEF Sent
      <3> QED BY ONLY <3>1, <3>2, ClosesGrow
    <2> QED BY <1>1, <2>1, WorldFacts DEF Counted, Sent
  <1>5. Hidden(v) BY <1>1 DEF Hidden, Sent
  <1>6. NoneBehind(v)
    <2> SUFFICES ASSUME NEW i \in 1..z, NEW j \in 1..z, i < j, Nth(v, i).op = "close"
                 PROVE  Nth(v, j).op \notin VaultOps
      BY DEF NoneBehind
    <2>0. i # z /\ i \in 1..Size(w) /\ Nth(w, i).op = "close" BY <1>3 DEF Sent
    <2>1. CASE j = z
      <3>1. w.closing # 0 BY <2>0, NoneClosing
      <3> QED BY <1>3, <2>1, <3>1 DEF Sent
    <2>2. CASE j # z BY <1>1, <1>3, <2>0, <2>2 DEF NoneBehind
    <2> QED BY <2>1, <2>2
  <1>7. DeadBefore(v)
    <2> SUFFICES ASSUME NEW i \in 1..z, ~Nth(v, i).live
                 PROVE  \E j \in 1..z : i < j /\ Nth(v, j).op = "close"
      BY DEF DeadBefore
    <2>1. i \in 1..Size(w) /\ ~Nth(w, i).live BY <1>3 DEF Sent
    <2>2. PICK j \in 1..Size(w) : i < j /\ Nth(w, j).op = "close" BY <1>1, <2>1 DEF DeadBefore
    <2> QED BY <1>3, <2>2
  <1>8. GoneIsDead(v) /\ Waited(v) BY <1>1, <1>3 DEF GoneIsDead, Waited, Sent
  <1>11. Fresh(v)
    <2> SUFFICES ASSUME NEW i \in 1..(m + 1)
                 PROVE  v.asked[i].ok /\ (v.asked[i].op = "open" => v.asked[i].env \in Names)
      BY <1>1 DEF Fresh
    <2>1. i \in 1..m \/ i = m + 1 BY <1>1
    <2> QED BY <1>1, <2>1 DEF Fresh, Good, Sent
  <1>9. Good(v) BY <1>1, <1>4, <1>5, <1>6, <1>7, <1>8, <1>11 DEF Good
  <1>10. Held(w, s) => Held(v, s) BY DEF Held, Revoked, Told, Sent
  <1> QED BY <1>9, <1>10

\* Nothing but the panel changes, and it stays where it is.
Kept(w, v) ==
    /\ v \in Worlds
    /\ v.view = w.view /\ v.closing = w.closing /\ v.answered = w.answered /\ v.asked = w.asked
    /\ w.panel # None => v.panel # None

LEMMA KeepGood ==
    ASSUME NEW w, NEW v, NEW s, Good(w), Kept(w, v)
    PROVE  Good(v) /\ (Held(w, s) => Held(v, s))
  <1>1. Size(v) = Size(w) /\ \A i : Nth(v, i) = Nth(w, i) BY DEF Kept, Size, Nth
  <1>2. Counted(v) /\ Hidden(v) BY DEF Kept, Good, Counted, Hidden
  <1>3. NoneBehind(v) /\ DeadBefore(v) /\ GoneIsDead(v) /\ Waited(v)
    BY <1>1 DEF Kept, Good, NoneBehind, DeadBefore, GoneIsDead, Waited
  <1>5. Fresh(v) BY DEF Kept, Good, Fresh
  <1>4. Held(w, s) => Held(v, s) BY DEF Kept, Held, Revoked, Told
  <1> QED BY <1>2, <1>3, <1>4, <1>5 DEF Good, Kept

\* The main thread executes the first command that it was sent.
Executed(w, v, c) ==
    /\ w.asked # <<>> /\ v \in Worlds /\ c \in Commands
    /\ c.op = Head(w.asked).op /\ c.by = Head(w.asked).by /\ c.live = Head(w.asked).live
    /\ v.view = w.view /\ v.closing = w.closing /\ v.panel = w.panel
    /\ v.asked = Tail(w.asked) /\ v.answered = Append(w.answered, c)

Left(c, s) == IF c.op = "close" THEN None ELSE IF Made(c) THEN c.out ELSE s

LEMMA ExecuteGood ==
    ASSUME NEW w, NEW v, NEW c, NEW s, Good(w), Held(w, s), Executed(w, v, c)
    PROVE  Good(v) /\ Held(v, Left(c, s))
  <1> DEFINE n == Len(w.answered)
             m == Len(v.asked)
  <1>1. /\ w \in Worlds /\ Counted(w) /\ Hidden(w) /\ NoneBehind(w) /\ DeadBefore(w)
        /\ GoneIsDead(w) /\ Waited(w)
        /\ v \in Worlds
        /\ n \in Nat /\ m \in Nat /\ w.closing \in Nat
        /\ Len(v.answered) = n + 1 /\ Len(v.asked) = m /\ Len(w.answered) = n
        /\ Len(w.asked) = m + 1
        /\ \A i \in 1..n : v.answered[i] = w.answered[i]
        /\ v.answered[n + 1] = c /\ Head(w.asked) = w.asked[1]
        /\ \A i \in 1..m : v.asked[i] = w.asked[i + 1]
    <2>1. w \in Worlds /\ v \in Worlds BY DEF Good, Executed
    <2>2. /\ Len(v.answered) = n + 1 /\ \A i \in 1..n : v.answered[i] = w.answered[i]
          /\ v.answered[n + 1] = c
      BY <2>1, WorldFacts, AppendFacts DEF Executed
    <2>3. /\ m = Len(w.asked) - 1 /\ Head(w.asked) = w.asked[1]
          /\ \A i \in 1..(Len(w.asked) - 1) : v.asked[i] = w.asked[i + 1]
      BY <2>1, WorldFacts, TailFacts DEF Executed
    <2>4. n \in Nat /\ m \in Nat /\ Len(w.asked) \in Nat /\ w.closing \in Nat BY <2>1, WorldFacts
    <2>5. Len(w.asked) = m + 1 /\ Len(w.asked) - 1 = m BY <2>3, <2>4
    <2> QED BY <2>1, <2>2, <2>3, <2>4, <2>5 DEF Good
  <1>2. /\ Size(v) = (n + 1) + m /\ Size(w) = n + (m + 1)
        /\ \A i \in 1..Size(v) : \/ i \in 1..(n + 1) /\ Nth(v, i) = v.answered[i]
                                 \/ i - (n + 1) \in 1..m /\ Nth(v, i) = v.asked[i - (n + 1)]
        /\ \A i \in 1..n : Nth(w, i) = w.answered[i]
        /\ \A i \in 1..(m + 1) : Nth(w, i + n) = w.asked[i]
    <2> HIDE DEF n, m
    <2>1. n + 1 \in Nat /\ m + 1 \in Nat BY <1>1
    <2>2. /\ Size(v) = (n + 1) + m
          /\ \A i \in 1..Size(v) : \/ i \in 1..(n + 1) /\ Nth(v, i) = v.answered[i]
                                   \/ i - (n + 1) \in 1..m /\ Nth(v, i) = v.asked[i - (n + 1)]
      <3>1. n + 1 \in Nat /\ m \in Nat /\ Len(v.answered) = n + 1 /\ Len(v.asked) = m BY <1>1, <2>1
      <3>2. Placed(v, n + 1, m) BY ONLY <3>1, Positions
      <3> QED BY <3>2 DEF Placed
    <2>3. /\ Size(w) = n + (m + 1)
          /\ \A i \in 1..n : Nth(w, i) = w.answered[i]
          /\ \A i \in 1..(m + 1) : Nth(w, i + n) = w.asked[i]
      <3>1. n \in Nat /\ m + 1 \in Nat /\ Len(w.answered) = n /\ Len(w.asked) = m + 1 BY <1>1, <2>1
      <3>2. Placed(w, n, m + 1) BY ONLY <3>1, Positions
      <3> QED BY <3>2 DEF Placed
    <2> QED BY <2>2, <2>3
  \* Every command stays at its place, and at what it is for.
  <1>3. /\ Size(v) = Size(w) /\ Size(w) \in Nat
        /\ \A i \in 1..Size(w) : /\ Nth(v, i).op = Nth(w, i).op /\ Nth(v, i).by = Nth(w, i).by
                                 /\ Nth(v, i).live = Nth(w, i).live
        /\ n + 1 \in 1..Size(w) /\ Nth(w, n + 1).op = c.op
        /\ \A i \in 1..n : i \in 1..Size(w)
    <2> HIDE DEF n, m
    <2>1. Size(v) = Size(w) /\ Size(w) \in Nat /\ n + 1 \in 1..Size(w) BY <1>1, <1>2
    <2>2. Nth(w, n + 1) = w.asked[1]
      <3>1. 1 \in 1..(m + 1) /\ 1 + n = n + 1 BY <1>1
      <3> QED BY <1>2, <3>1
    <2>3. ASSUME NEW i \in 1..Size(w)
          PROVE  /\ Nth(v, i).op = Nth(w, i).op /\ Nth(v, i).by = Nth(w, i).by
                 /\ Nth(v, i).live = Nth(w, i).live
      <3>1. CASE i \in 1..(n + 1) /\ Nth(v, i) = v.answered[i]
        <4>1. CASE i = n + 1 BY <1>1, <2>2, <3>1, <4>1 DEF Executed
        <4>2. CASE i # n + 1
          <5>1. i \in 1..n BY <1>1, <3>1, <4>2
          <5> QED BY <1>1, <1>2, <3>1, <5>1
        <4> QED BY <4>1, <4>2
      <3>2. CASE i - (n + 1) \in 1..m /\ Nth(v, i) = v.asked[i - (n + 1)]
        <4> DEFINE k == i - (n + 1)
        <4>1. k \in 1..m /\ k + 1 \in 1..(m + 1) /\ (k + 1) + n = i
          <5>1. n \in Nat /\ m \in Nat /\ i \in Int BY <1>1, <2>1
          <5>2. k \in 1..m BY <3>2
          <5>3. k + 1 + n = i BY ONLY <5>1 DEF k
          <5> HIDE DEF k
          <5> QED BY ONLY <5>1, <5>2, <5>3
        <4>2. Nth(v, i) = w.asked[k + 1] /\ Nth(w, (k + 1) + n) = w.asked[k + 1]
          <5> HIDE DEF k
          <5>1. v.asked[k] = w.asked[k + 1] /\ Nth(w, (k + 1) + n) = w.asked[k + 1]
            BY <1>1, <1>2, <4>1
          <5> QED BY <3>2, <5>1 DEF k
        <4> QED BY <4>1, <4>2
      <3> QED BY <1>2, <2>1, <3>1, <3>2
    <2>4. Nth(w, n + 1).op = c.op BY <1>1, <2>2 DEF Executed
    <2>5. \A i \in 1..n : i \in 1..Size(w) BY <1>1, <2>1
    <2> QED BY <2>1, <2>3, <2>4, <2>5
  <1>4. Counted(v)
    <2>1. Closes(w.asked) = Closes(v.asked) + (IF c.op = "close" THEN 1 ELSE 0)
      <3>1. w.asked \in Seq(Commands) /\ w.asked # <<>> BY <1>1, WorldFacts DEF Executed
      <3>2. Closes(w.asked) = Closes(Tail(w.asked)) + (IF Head(w.asked).op = "close" THEN 1 ELSE 0)
        BY ONLY <3>1, ClosesOfTail
      <3> QED BY <3>2 DEF Executed
    <2>2. Closes(v.answered) = Closes(w.answered) + (IF c.op = "close" THEN 1 ELSE 0)
      <3>1. /\ w.answered \in Seq(Commands) /\ v.answered \in Seq(Commands)
            /\ Len(v.answered) = Len(w.answered) + 1
            /\ \A i \in 1..Len(w.answered) : v.answered[i].op = w.answered[i].op
        BY <1>1, WorldFacts
      <3>2. v.answered[Len(w.answered) + 1] = c BY <1>1
      <3> QED BY ONLY <3>1, <3>2, ClosesGrow
    <2>3. /\ Closes(w.asked) \in Nat /\ Closes(v.asked) \in Nat
          /\ Closes(w.answered) \in Nat /\ Closes(v.answered) \in Nat
      BY <1>1, WorldFacts
    <2> QED BY <1>1, <2>1, <2>2, <2>3 DEF Counted, Executed
  <1>5. Hidden(v) BY <1>1 DEF Hidden, Executed
  <1>6. NoneBehind(v) /\ DeadBefore(v) /\ GoneIsDead(v) /\ Waited(v)
    <2>1. v.panel = w.panel BY DEF Executed
    <2>0. /\ NoneBehind(w) /\ DeadBefore(w) /\ GoneIsDead(w) /\ Waited(w) /\ Size(v) = Size(w)
          /\ \A i \in 1..Size(w) : /\ Nth(v, i).op = Nth(w, i).op /\ Nth(v, i).by = Nth(w, i).by
                                   /\ Nth(v, i).live = Nth(w, i).live
      BY <1>1, <1>3
    <2>2. NoneBehind(v) BY ONLY <2>0 DEF NoneBehind
    <2>3. DeadBefore(v) BY ONLY <2>0 DEF DeadBefore
    <2>4. GoneIsDead(v) BY ONLY <2>0 DEF GoneIsDead
    <2>5. Waited(v) BY ONLY <2>0, <2>1 DEF Waited
    <2> QED BY <2>2, <2>3, <2>4, <2>5
  <1>10. Fresh(v)
    <2> SUFFICES ASSUME NEW i \in 1..m
                 PROVE  v.asked[i].ok /\ (v.asked[i].op = "open" => v.asked[i].env \in Names)
      BY DEF Fresh
    <2>1. i + 1 \in 1..(m + 1) BY <1>1
    <2> QED BY <1>1, <2>1 DEF Fresh, Good
  <1>7. Good(v) BY <1>1, <1>4, <1>5, <1>6, <1>10 DEF Good
  <1>8. Revoked(v, Left(c, s))
    <2> SUFFICES ASSUME NEW i \in 1..(n + 1), v.answered[i].op = "close" PROVE Left(c, s) = None
      BY <1>1 DEF Revoked
    <2>1. CASE i = n + 1 BY <1>1, <2>1 DEF Left
    <2>2. CASE i # n + 1
      <3>1. i \in 1..n /\ i < n + 1 BY <1>1, <2>2
      <3>2. w.answered[i].op = "close" /\ Nth(w, i) = w.answered[i] /\ i \in 1..Size(w)
        BY <1>1, <1>2, <1>3, <3>1
      <3>3. s = None BY <3>1, <3>2 DEF Held, Revoked
      <3>4. c.op \notin VaultOps BY <1>1, <1>3, <3>1, <3>2 DEF NoneBehind
      <3> QED BY <3>3, <3>4 DEF Left, Made
    <2> QED BY <2>1, <2>2
  <1>9. Told(v, Left(c, s))
    <2> SUFFICES ASSUME w.closing = 0
                 PROVE  \/ Left(c, s) = v.view /\ \A i \in 1..(n + 1) : ~Made(v.answered[i])
                        \/ \E i \in 1..(n + 1) :
                              /\ Made(v.answered[i]) /\ v.answered[i].out = Left(c, s)
                              /\ \A j \in 1..(n + 1) : i < j => ~Made(v.answered[j])
      BY <1>1 DEF Told, Executed
    <2>1. c.op # "close" BY <1>3, NoneClosing
    <2>2. n + 1 \in 1..(n + 1) /\ \A j \in 1..(n + 1) : ~(n + 1 < j) /\ (j \in 1..n \/ j = n + 1)
      BY <1>1
    <2>3. CASE Made(c) BY <1>1, <2>1, <2>2, <2>3 DEF Left
    <2>4. CASE ~Made(c)
      <3>1. Left(c, s) = s /\ v.view = w.view BY <2>1, <2>4 DEF Left, Executed
      <3>2. CASE s = w.view /\ \A i \in 1..n : ~Made(w.answered[i]) BY <1>1, <2>2, <2>4, <3>1, <3>2
      <3>3. CASE \E i \in 1..n : /\ Made(w.answered[i]) /\ w.answered[i].out = s
                                 /\ \A j \in 1..n : i < j => ~Made(w.answered[j])
        <4>1. PICK i \in 1..n : /\ Made(w.answered[i]) /\ w.answered[i].out = s
                                /\ \A j \in 1..n : i < j => ~Made(w.answered[j])
          BY <3>3
        <4>2. i \in 1..(n + 1) BY <1>1
        <4>3. \A j \in 1..(n + 1) : i < j => ~Made(v.answered[j]) BY <1>1, <2>2, <2>4, <4>1
        <4> QED BY <1>1, <3>1, <4>1, <4>2, <4>3
      <3> QED BY <1>1, <3>2, <3>3 DEF Held, Told
    <2> QED BY <2>3, <2>4
  <1> QED BY <1>7, <1>8, <1>9 DEF Held

-----------------------------------------------------------------------------
(* The handlers' operators. *)

Fit(w) == Good(w) /\ Held(w, session)

LEMMA WorldFields ==
    /\ Quiet.view = view /\ Quiet.closing = closing /\ Quiet.asked = asked
    /\ Quiet.answered = answered /\ Quiet.panel = panel
    /\ World.view = view /\ World.closing = closing /\ World.asked = asked
    /\ World.answered = Tail(answered) /\ World.panel = panel
    /\ World = [view |-> view, closing |-> closing, asked |-> asked,
                answered |-> Tail(answered), panel |-> panel]
  <1> DEFINE t == Tail(answered)
             v == [view |-> view, closing |-> closing, asked |-> asked,
                   answered |-> t, panel |-> panel]
  <1>1. /\ Quiet.view = view /\ Quiet.closing = closing /\ Quiet.asked = asked
        /\ Quiet.answered = answered /\ Quiet.panel = panel
    BY DEF Quiet
  <1>2. World = [Quiet EXCEPT !.answered = t] BY <1>1 DEF World
  <1> HIDE DEF t
  <1>3. World = v BY <1>2 DEF Quiet
  <1>4. v.view = view /\ v.closing = closing /\ v.asked = asked /\ v.answered = t /\ v.panel = panel
    OBVIOUS
  <1> HIDE DEF v
  <1> QED BY <1>1, <1>3, <1>4 DEF t, v

LEMMA QuietTypes ==
    ASSUME VaultInv
    PROVE  /\ view \in Sessions \cup {None} /\ closing \in Nat /\ asked \in Seq(Commands)
           /\ answered \in Seq(Commands) /\ panel \in Panels \cup {None}
           /\ answered # <<>> =>
                /\ Answer \in Commands /\ Nth(Quiet, 1) = Answer /\ 1 \in 1..Size(Quiet)
                /\ Tail(answered) \in Seq(Commands)
  <1>1. Quiet \in Worlds BY DEF VaultInv, Good
  <1>2. /\ view \in Sessions \cup {None} /\ closing \in Nat /\ asked \in Seq(Commands)
        /\ answered \in Seq(Commands) /\ panel \in Panels \cup {None}
    BY <1>1 DEF Worlds, Quiet
  <1>3. ASSUME answered # <<>>
        PROVE  /\ Answer \in Commands /\ Nth(Quiet, 1) = Answer /\ 1 \in 1..Size(Quiet)
               /\ Tail(answered) \in Seq(Commands)
    <2>1. /\ Head(answered) \in Commands /\ Head(answered) = answered[1]
          /\ Len(answered) \in Nat \ {0} /\ Tail(answered) \in Seq(Commands)
      BY <1>2, <1>3, TailFacts
    <2>2. 1 \in 1..Len(answered) BY <2>1
    <2>3. 1 \in 1..Size(Quiet) /\ Nth(Quiet, 1) = answered[1] BY <1>1, <2>2, WorldFacts, WorldFields
    <2> QED BY <2>1, <2>3 DEF Answer
  <1> QED BY <1>2, <1>3

\* The answer to a close is counted off.
LEMMA ClosedFit ==
    ASSUME VaultInv, answered # <<>>, Answer.op = "close"
    PROVE  Fit(Closed) /\ Closed.panel = panel
  <1> DEFINE v == Closed
  <1>1. closing \in Nat \ {0}
    <2>1. Quiet.closing # 0 BY QuietTypes, NoneClosing DEF VaultInv
    <2> QED BY <2>1, QuietTypes, WorldFields
  <1>2. v = [view |-> view, closing |-> closing - 1, asked |-> asked,
             answered |-> Tail(answered), panel |-> panel]
    <2> DEFINE t == Tail(answered)
    <2>1. World = [view |-> view, closing |-> closing, asked |-> asked, answered |-> t,
                   panel |-> panel]
      BY WorldFields
    <2> HIDE DEF t
    <2>2. Closed = [view |-> view, closing |-> closing - 1, asked |-> asked, answered |-> t,
                    panel |-> panel]
      BY <2>1 DEF Closed
    <2> QED BY <2>2 DEF t
  <1>3. v \in Worlds BY <1>1, <1>2, QuietTypes DEF Worlds
  <1>4. Popped(Quiet, v) BY <1>2, <1>3, WorldFields DEF Popped, Answer
  <1>5. Good(v) BY <1>2, <1>4, PopGood, WorldFields DEF VaultInv
  <1>6. ~(Made(Answer)) BY DEF Made, VaultOps
  <1>7. Held(v, session) BY <1>2, <1>4, <1>6, PopHeld, WorldFields DEF VaultInv, Answer
  <1> QED BY <1>2, <1>5, <1>7 DEF Fit

\* An answer that tells of no session, or that nobody waits for any more.
LEMMA WorldFit ==
    ASSUME VaultInv, answered # <<>>, Answer.op # "close",
           Answer.op \notin VaultOps \/ Answer.by = "gone"
    PROVE  Fit(World) /\ World.panel = panel
  <1>1. World \in Worlds BY QuietTypes, WorldFields DEF Worlds
  <1>2. Popped(Quiet, World)
    <2>1. closing - 0 = closing BY QuietTypes
    <2> QED BY <1>1, <2>1, WorldFields DEF Popped, Answer
  <1>3. Good(World) BY <1>2, PopGood, WorldFields DEF VaultInv
  <1>4. ~(Made(Answer) /\ closing = 0)
    <2>1. CASE Answer.op \notin VaultOps BY <2>1 DEF Made
    <2>2. CASE Answer.op \in VaultOps /\ Answer.by = "gone"
      <3>1. ~Nth(Quiet, 1).live BY <2>2, QuietTypes DEF VaultInv, Good, GoneIsDead
      <3>2. Quiet.closing # 0 BY <3>1, QuietTypes, NoneClosing DEF VaultInv
      <3> QED BY <3>2, WorldFields
    <2> QED BY <2>1, <2>2
  <1>5. Held(World, session) BY <1>2, <1>4, PopHeld, WorldFields DEF VaultInv, Answer
  <1> QED BY <1>3, <1>5, WorldFields DEF Fit

\* The answer of a command that opens or changes a session.
LEMMA SeenFit ==
    ASSUME VaultInv, answered # <<>>, Answer.op \in VaultOps
    PROVE  Fit(Seen(Answer)) /\ Seen(Answer).panel = panel /\ Seen(Answer).closing = closing
  <1> DEFINE v == Seen(Answer)
             x == IF Current(Answer) THEN Answer.out ELSE view
  <1>1. v = [view |-> x, closing |-> closing, asked |-> asked,
             answered |-> Tail(answered), panel |-> panel]
    BY WorldFields DEF Seen
  <1>2. x \in Sessions \cup {None} BY QuietTypes DEF Commands
  <1>3. v \in Worlds
    <2> HIDE DEF x
    <2> QED BY <1>1, <1>2, QuietTypes DEF Worlds
  <1>4. Popped(Quiet, v)
    <2>1. closing - 0 = closing /\ Answer.op # "close" BY QuietTypes DEF VaultOps
    <2> QED BY <1>1, <1>3, <2>1, WorldFields DEF Popped, Answer
  <1>5. v.closing > 0 => v.view = view BY <1>1, QuietTypes DEF Current
  <1>6. Good(v) BY <1>4, <1>5, PopGood, WorldFields DEF VaultInv
  <1>7. v.closing = 0 => v.view = IF Made(Answer) /\ closing = 0 THEN Answer.out ELSE view
    <2> SUFFICES ASSUME closing = 0 PROVE Current(Answer) <=> Made(Answer) BY <1>1
    <2>1. Answer.live BY QuietTypes, NoneClosing, WorldFields DEF VaultInv
    <2> QED BY <2>1 DEF Current, Made
  <1>8. Held(v, session) BY <1>4, <1>7, PopHeld, WorldFields DEF VaultInv, Answer
  <1> QED BY <1>1, <1>6, <1>8 DEF Fit

LEMMA PanelFit ==
    ASSUME NEW w, Fit(w), NEW p \in Panels, p # None
    PROVE  /\ Fit([w EXCEPT !.panel = p]) /\ [w EXCEPT !.panel = p].panel = p
           /\ [w EXCEPT !.panel = p].closing = w.closing
  <1> DEFINE v == [w EXCEPT !.panel = p]
  <1>1. w \in Worlds BY DEF Fit, Good
  <1>2. /\ v \in Worlds /\ v.panel = p /\ v.view = w.view /\ v.closing = w.closing
        /\ v.answered = w.answered /\ v.asked = w.asked
    BY <1>1 DEF Worlds
  <1>3. Kept(w, v) BY <1>2 DEF Kept
  <1> HIDE DEF v
  <1>4. Fit(v) BY <1>3, KeepGood DEF Fit
  <1> QED BY <1>2, <1>4 DEF v

\* The flows that send commands.
Flows == {"init", "reopen", "op", "failed", "lockVault", "lock", "orphan", "gone", "consumer"}

LEMMA CommandFacts ==
    ASSUME NEW op \in VaultOps \cup {"close", "read", "write"}, NEW by \in Flows,
           NEW env \in Names \cup {None}
    PROVE  /\ Command(op, by, env) \in Commands
           /\ Command(op, by, env).op = op /\ Command(op, by, env).by = by
           /\ Command(op, by, env).live /\ Command(op, by, env).ok
           /\ Command(op, by, env).env = env
  BY DEF Command, Commands, Flows

LEMMA SendFit ==
    ASSUME NEW w, Fit(w), NEW op \in VaultOps \cup {"read", "write"},
           NEW by \in Flows \ {"gone"}, NEW env \in Names \cup {None},
           op \in VaultOps => w.closing = 0,
           op = "open" => env # None,
           by \in PanelFlows => w.panel # None
    PROVE  Fit(Send(w, op, by, env))
  <1> DEFINE c == Command(op, by, env)
             v == Send(w, op, by, env)
  <1>1. /\ c \in Commands /\ c.op = op /\ c.by = by /\ c.live /\ c.ok /\ c.env = env
        /\ op # "close" /\ by # "gone"
    BY CommandFacts DEF VaultOps
  <1>2. w \in Worlds BY DEF Fit, Good
  <1>3. v = [w EXCEPT !.asked = Append(@, c)] BY DEF Send
  <1> HIDE DEF c
  <1>4. Append(w.asked, c) \in Seq(Commands) BY <1>1, <1>2, WorldFacts, AppendFacts
  <1>5. /\ v \in Worlds /\ v.view = w.view /\ v.closing = w.closing
        /\ v.answered = w.answered /\ v.asked = Append(w.asked, c) /\ v.panel = w.panel
    BY <1>2, <1>3, <1>4 DEF Worlds
  <1>6. Sent(w, v, c) BY <1>1, <1>2, <1>5 DEF Sent
  <1> HIDE DEF v
  <1>7. Fit(v) BY <1>6, SendGood DEF Fit
  <1> QED BY <1>7 DEF v

\* Sealing what is under way.
LEMMA SilencedFacts ==
    ASSUME NEW s \in Seq(Commands)
    PROVE  LET t == [i \in DOMAIN s |-> [s[i] EXCEPT !.live = FALSE]]
           IN  /\ t \in Seq(Commands) /\ Len(t) = Len(s)
               /\ \A i \in 1..Len(s) : /\ t[i].op = s[i].op /\ t[i].by = s[i].by /\ ~t[i].live
                                        /\ t[i].ok = s[i].ok /\ t[i].env = s[i].env
  <1> DEFINE t == [i \in DOMAIN s |-> [s[i] EXCEPT !.live = FALSE]]
  <1>1. DOMAIN s = 1..Len(s) /\ Len(s) \in Nat /\ \A i \in 1..Len(s) : s[i] \in Commands BY SeqFacts
  <1>2. \A i \in 1..Len(s) : /\ t[i] \in Commands /\ t[i].op = s[i].op /\ t[i].by = s[i].by
                             /\ ~t[i].live /\ t[i].ok = s[i].ok /\ t[i].env = s[i].env
    BY <1>1 DEF Commands
  <1>3. t \in [1..Len(s) -> Commands] BY <1>1, <1>2
  <1> HIDE DEF t
  <1>4. t \in Seq(Commands) /\ Len(t) = Len(s) BY <1>1, <1>3, ListIsSeq
  <1> QED BY <1>2, <1>4 DEF t

LEMMA CloseSeals ==
    ASSUME NEW w \in Worlds, Fresh(w), NEW by \in Flows, NEW env \in Names \cup {None}
    PROVE  LET v == Close(w, by, env)
           IN  /\ Sealed(w, v) /\ v.panel = w.panel
               /\ \A i \in 1..Len(w.answered) : v.answered[i].by = w.answered[i].by
               /\ \A i \in 1..Len(w.asked) : v.asked[i].by = w.asked[i].by
               /\ v.asked[Len(w.asked) + 1].by = by
  <1> DEFINE v == Close(w, by, env)
             c == Command("close", by, env)
             s == [i \in DOMAIN w.asked |-> [w.asked[i] EXCEPT !.live = FALSE]]
             t == [i \in DOMAIN w.answered |-> [w.answered[i] EXCEPT !.live = FALSE]]
             n == Len(w.asked)
  <1>1. w.asked \in Seq(Commands) /\ w.answered \in Seq(Commands) /\ n \in Nat BY WorldFacts
  <1>2. v = [w EXCEPT !.view = None, !.closing = @ + 1, !.asked = Append(s, c), !.answered = t]
    BY DEF Close
  <1>3. /\ s \in Seq(Commands) /\ Len(s) = n
        /\ \A i \in 1..n : /\ s[i].op = w.asked[i].op /\ s[i].by = w.asked[i].by /\ ~s[i].live
                             /\ s[i].ok = w.asked[i].ok /\ s[i].env = w.asked[i].env
    BY <1>1, SilencedFacts
  <1>4. /\ t \in Seq(Commands) /\ Len(t) = Len(w.answered)
        /\ \A i \in 1..Len(w.answered) : /\ t[i].op = w.answered[i].op
                                         /\ t[i].by = w.answered[i].by /\ ~t[i].live
    BY <1>1, SilencedFacts
  <1>5. c \in Commands /\ c.op = "close" /\ c.by = by /\ c.live /\ c.ok BY CommandFacts
  <1> HIDE DEF s, t, c
  <1> DEFINE a == Append(s, c)
  <1>6. /\ a \in Seq(Commands) /\ Len(a) = n + 1 /\ \A i \in 1..n : a[i] = s[i]
        /\ a[n + 1] = c
    BY <1>1, <1>3, <1>5, AppendFacts
  <1>10. v = [w EXCEPT !.view = None, !.closing = @ + 1, !.asked = a, !.answered = t] BY <1>2
  <1> HIDE DEF a, v
  <1>13. /\ w = [view |-> w.view, closing |-> w.closing, asked |-> w.asked,
                 answered |-> w.answered, panel |-> w.panel]
         /\ w.closing \in Nat /\ w.panel \in Panels \cup {None}
    BY DEF Worlds
  <1>12. v = [view |-> None, closing |-> w.closing + 1, asked |-> a, answered |-> t,
              panel |-> w.panel]
    BY <1>10, <1>13
  <1>7. /\ v \in Worlds /\ v.closing = w.closing + 1 /\ v.view = None /\ v.panel = w.panel
        /\ v.asked = a /\ v.answered = t
    BY <1>4, <1>6, <1>13, <1>12 DEF Worlds
  <1>14. Fresh(v)
    <2> SUFFICES ASSUME NEW i \in 1..(n + 1)
                 PROVE  a[i].ok /\ (a[i].op = "open" => a[i].env \in Names)
      BY <1>6, <1>7 DEF Fresh
    <2>1. CASE i = n + 1 BY <1>5, <1>6, <2>1
    <2>2. CASE i # n + 1
      <3>1. i \in 1..n BY <1>1, <2>2
      <3>2. a[i].ok = w.asked[i].ok /\ a[i].op = w.asked[i].op /\ a[i].env = w.asked[i].env
        BY <1>3, <1>6, <3>1
      <3> QED BY <3>1, <3>2 DEF Fresh
    <2> QED BY <2>1, <2>2
  <1>8. Sealed(w, v)
    <2>1. \A i \in 1..n : a[i].op = w.asked[i].op /\ ~a[i].live BY <1>3, <1>6
    <2>2. \A i \in 1..Len(w.answered) : t[i].op = w.answered[i].op /\ ~t[i].live BY <1>4
    <2> QED BY <1>4, <1>5, <1>6, <1>7, <1>14, <2>1, <2>2 DEF Sealed
  <1>9. /\ \A i \in 1..Len(w.answered) : v.answered[i].by = w.answered[i].by
        /\ \A i \in 1..Len(w.asked) : v.asked[i].by = w.asked[i].by
        /\ v.asked[Len(w.asked) + 1].by = by
    BY <1>3, <1>4, <1>5, <1>6, <1>7
  <1> QED BY <1>7, <1>8, <1>9 DEF v

LEMMA CloseFit ==
    ASSUME NEW w, Fit(w), NEW by \in Flows, NEW env \in Names \cup {None},
           by \in PanelFlows => w.panel # None
    PROVE  Fit(Close(w, by, env))
  <1> DEFINE v == Close(w, by, env)
  <1>1. w \in Worlds /\ Waited(w) /\ Fresh(w) BY DEF Fit, Good
  <1>2. /\ Sealed(w, v) /\ v.panel = w.panel
        /\ \A i \in 1..Len(w.answered) : v.answered[i].by = w.answered[i].by
        /\ \A i \in 1..Len(w.asked) : v.asked[i].by = w.asked[i].by
        /\ v.asked[Len(w.asked) + 1].by = by
    BY <1>1, CloseSeals
  <1> HIDE DEF v
  <1>3. Waited(v)
    <2> SUFFICES ASSUME NEW i \in 1..Size(v), Nth(v, i).by \in PanelFlows PROVE w.panel # None
      BY <1>2 DEF Waited
    <2>1. v \in Worlds /\ Len(v.answered) = Len(w.answered) /\ Len(v.asked) = Len(w.asked) + 1
      BY <1>2 DEF Sealed
    <2>2. CASE i \in 1..Len(v.answered) /\ Nth(v, i) = v.answered[i]
      <3>1. i \in 1..Len(w.answered) /\ w.answered[i].by \in PanelFlows BY <1>2, <2>1, <2>2
      <3> QED BY <1>1, <3>1, WorldFacts DEF Waited
    <2>3. CASE i - Len(v.answered) \in 1..Len(v.asked) /\ Nth(v, i) = v.asked[i - Len(v.answered)]
      <3> DEFINE k == i - Len(v.answered)
      <3>1. k \in 1..(Len(w.asked) + 1) /\ v.asked[k].by \in PanelFlows BY <2>1, <2>3
      <3> HIDE DEF k
      <3>2. CASE k = Len(w.asked) + 1 BY <1>2, <3>1, <3>2
      <3>3. CASE k # Len(w.asked) + 1
        <4>1. k \in 1..Len(w.asked) BY <1>1, <3>1, <3>3, WorldFacts
        <4>2. w.asked[k].by \in PanelFlows BY <1>2, <3>1, <4>1
        <4> QED BY <1>1, <4>1, <4>2, WorldFacts DEF Waited
      <3> QED BY <3>2, <3>3
    <2> QED BY <2>1, <2>2, <2>3, WorldFacts
  <1>4. Fit(v) BY <1>2, <1>3, SealGood DEF Fit
  <1> QED BY <1>4 DEF v

LEMMA LeaveFacts ==
    ASSUME NEW s \in Seq(Commands)
    PROVE  LET t == [i \in DOMAIN s |->
                        [s[i] EXCEPT !.by = IF @ \in {"consumer", "lock", "orphan"} THEN @
                                            ELSE IF s[i].op = "write" THEN "orphan" ELSE "gone"]]
           IN  /\ t \in Seq(Commands) /\ Len(t) = Len(s)
               /\ \A i \in 1..Len(s) : /\ t[i].op = s[i].op /\ t[i].ok = s[i].ok
                                       /\ t[i].env = s[i].env /\ t[i].by \notin PanelFlows
  <1> DEFINE b(i) == IF s[i].by \in {"consumer", "lock", "orphan"} THEN s[i].by
                     ELSE IF s[i].op = "write" THEN "orphan" ELSE "gone"
             t == [i \in DOMAIN s |->
                        [s[i] EXCEPT !.by = IF @ \in {"consumer", "lock", "orphan"} THEN @
                                            ELSE IF s[i].op = "write" THEN "orphan" ELSE "gone"]]
  <1>1. DOMAIN s = 1..Len(s) /\ Len(s) \in Nat /\ \A i \in 1..Len(s) : s[i] \in Commands BY SeqFacts
  <1>2. \A i \in 1..Len(s) : b(i) \in {"consumer", "lock", "orphan", "gone"} OBVIOUS
  <1>3. \A i \in 1..Len(s) : t[i] = [s[i] EXCEPT !.by = b(i)] BY <1>1
  <1> HIDE DEF b
  <1>4. \A i \in 1..Len(s) : /\ t[i] \in Commands /\ t[i].op = s[i].op /\ t[i].ok = s[i].ok
                             /\ t[i].env = s[i].env /\ t[i].by = b(i)
    <2> HIDE DEF t
    <2> TAKE i \in 1..Len(s)
    <2>2. s[i] \in Commands /\ b(i) \in {"consumer", "lock", "orphan", "gone"} BY <1>1, <1>2
    <2>3. t[i] = [s[i] EXCEPT !.by = b(i)] BY <1>3
    <2> DEFINE c == s[i]
               x == b(i)
               d == [c EXCEPT !.by = x]
    <2>4. c \in Commands /\ x \in {"consumer", "lock", "orphan", "gone"} BY <2>2
    <2>5. t[i] = d BY <2>3
    <2> HIDE DEF c, x
    <2>6. d \in Commands /\ d.op = c.op /\ d.ok = c.ok /\ d.env = c.env /\ d.by = x
      BY <2>4 DEF Commands
    <2> HIDE DEF d
    <2> QED BY <2>5, <2>6 DEF c, x
  <1>5. t \in [1..Len(s) -> Commands] BY <1>1, <1>4
  <1> HIDE DEF t
  <1>6. t \in Seq(Commands) /\ Len(t) = Len(s) BY <1>1, <1>5, ListIsSeq
  <1> QED BY <1>2, <1>4, <1>6 DEF t, PanelFlows

LEMMA TeardownFit ==
    ASSUME NEW w, Fit(w)
    PROVE  Fit(Teardown(w)) /\ Sealed(w, Teardown(w))
  <1> DEFINE leave(s) == [i \in DOMAIN s |->
                            [s[i] EXCEPT !.by = IF @ \in {"consumer", "lock", "orphan"} THEN @
                                                ELSE IF s[i].op = "write" THEN "orphan" ELSE "gone"]]
             x == leave(w.asked)
             y == leave(w.answered)
             u == [w EXCEPT !.panel = None, !.asked = x, !.answered = y]
             v == Close(u, "gone", None)
  <1>1. /\ w \in Worlds /\ Fresh(w) /\ w.asked \in Seq(Commands) /\ w.answered \in Seq(Commands)
        /\ Len(w.asked) \in Nat
    BY WorldFacts DEF Fit, Good
  <1>2. /\ x \in Seq(Commands) /\ Len(x) = Len(w.asked)
        /\ \A i \in 1..Len(w.asked) : /\ x[i].op = w.asked[i].op /\ x[i].ok = w.asked[i].ok
                                      /\ x[i].env = w.asked[i].env /\ x[i].by \notin PanelFlows
    BY <1>1, LeaveFacts
  <1>3. /\ y \in Seq(Commands) /\ Len(y) = Len(w.answered)
        /\ \A i \in 1..Len(w.answered) : y[i].op = w.answered[i].op /\ y[i].by \notin PanelFlows
    BY <1>1, LeaveFacts
  <1>4. Teardown(w) = v BY DEF Teardown
  <1> HIDE DEF x, y, v
  <1>5. /\ u \in Worlds /\ u.asked = x /\ u.answered = y /\ u.closing = w.closing
        /\ u.panel = None
    BY <1>1, <1>2, <1>3 DEF Worlds
  <1> HIDE DEF u
  <1>6. Fresh(u) BY <1>1, <1>2, <1>5 DEF Fresh
  <1>7. /\ Sealed(u, v) /\ v.panel = None
        /\ \A i \in 1..Len(y) : v.answered[i].by = y[i].by
        /\ \A i \in 1..Len(x) : v.asked[i].by = x[i].by
        /\ v.asked[Len(x) + 1].by = "gone"
    BY <1>5, <1>6, CloseSeals DEF Flows, v
  <1>8. Sealed(w, v) BY <1>2, <1>3, <1>5, <1>7 DEF Sealed
  <1>9. Waited(v)
    <2> SUFFICES ASSUME NEW i \in 1..Size(v) PROVE Nth(v, i).by \notin PanelFlows BY DEF Waited
    <2>1. v \in Worlds /\ Len(v.answered) = Len(y) /\ Len(v.asked) = Len(x) + 1
      BY <1>5, <1>7 DEF Sealed
    <2>2. CASE i \in 1..Len(v.answered) /\ Nth(v, i) = v.answered[i] BY <1>3, <1>7, <2>1, <2>2
    <2>3. CASE i - Len(v.answered) \in 1..Len(v.asked) /\ Nth(v, i) = v.asked[i - Len(v.answered)]
      <3> DEFINE k == i - Len(v.answered)
      <3>1. k \in 1..(Len(x) + 1) /\ Nth(v, i) = v.asked[k] BY <2>1, <2>3
      <3> HIDE DEF k
      <3>2. CASE k = Len(x) + 1 BY <1>7, <3>1, <3>2 DEF PanelFlows
      <3>3. CASE k # Len(x) + 1
        <4>1. k \in 1..Len(x) BY <1>1, <1>2, <3>1, <3>3
        <4> QED BY <1>2, <1>7, <3>1, <4>1
      <3> QED BY <3>2, <3>3
    <2> QED BY <2>1, <2>2, <2>3, WorldFacts
  <1>10. Fit(v) BY <1>8, <1>9, SealGood DEF Fit
  <1> QED BY <1>4, <1>8, <1>10

LEMMA ResetFit ==
    ASSUME AccessConstants, NEW w, Fit(w), w.panel # None, NEW env \in Names \cup {None}
    PROVE  Fit(Reset(w, env)) /\ Reset(w, env).panel # None
  <1> DEFINE q == w.panel
             p == [q EXCEPT !.read = TRUE, !.auto = FALSE, !.env = env, !.vault = None]
  <1>1. q \in Panels BY DEF Fit, Good, Worlds
  <1> HIDE DEF q
  <1>2. p \in Panels BY <1>1 DEF Panels
  <1> HIDE DEF p
  <1>3. p # None BY <1>2 DEF AccessConstants
  <1>4. Reset(w, env) = [w EXCEPT !.panel = p] BY DEF Reset, p, q
  <1> QED BY <1>2, <1>3, <1>4, PanelFit

LEMMA TryOpenFit ==
    ASSUME AccessConstants, NEW w, Fit(w), w.panel # None
    PROVE  Fit(TryOpen(w))
  <1> DEFINE q == w.panel
             p == [q EXCEPT !.auto = TRUE]
             b == [p EXCEPT !.busy = TRUE]
             tried == [w EXCEPT !.panel.auto = TRUE]
             u == [tried EXCEPT !.panel.busy = TRUE]
             op == IF q.env = None THEN "create" ELSE "open"
  <1>1. q \in Panels BY DEF Fit, Good, Worlds
  <1>2. TryOpen(w) = IF q.busy \/ ~unlocked THEN w
                     ELSE IF ~Sendable(w) THEN tried ELSE Send(u, op, "op", q.env)
    BY DEF TryOpen
  <1>3. p \in Panels /\ b \in Panels /\ q.env \in Names \cup {None}
    <2> HIDE DEF q
    <2> QED BY <1>1 DEF Panels
  <1>4. p # None /\ b # None BY <1>3 DEF AccessConstants
  <1>5. tried = [w EXCEPT !.panel = p] OBVIOUS
  <1>6. Fit(tried) /\ tried.panel = p /\ tried.closing = w.closing
    <2> HIDE DEF p, tried
    <2> QED BY <1>3, <1>4, <1>5, PanelFit
  <1> HIDE DEF q, tried
  <1>7. u = [tried EXCEPT !.panel = b]
    <2>1. tried.panel = p BY <1>6
    <2> HIDE DEF p
    <2> QED BY <2>1
  <1> HIDE DEF p, b, u
  <1>8. Fit(u) /\ u.panel = b /\ u.closing = w.closing BY <1>3, <1>4, <1>6, <1>7, PanelFit
  <1>9. ASSUME Sendable(w) PROVE Fit(Send(u, op, "op", q.env))
    <2>1. /\ op \in VaultOps \cup {"read", "write"} /\ "op" \in Flows \ {"gone"}
          /\ u.closing = 0 /\ (op = "open" => q.env # None)
      BY <1>8, <1>9 DEF Sendable, Flows, VaultOps
    <2> HIDE DEF op
    <2> QED BY <1>3, <1>4, <1>8, <2>1, SendFit
  <1> QED BY <1>2, <1>6, <1>9

LEMMA BecomeFit ==
    ASSUME VaultInv, NEW w, Fit(w), Become(w), UNCHANGED <<session, file, made>>
    PROVE  VaultInv'
  <1>1. w = [view |-> w.view, closing |-> w.closing, asked |-> w.asked,
             answered |-> w.answered, panel |-> w.panel]
    BY DEF Fit, Good, Worlds
  <1>2. Quiet' = w BY <1>1 DEF Become, Quiet
  <1>3. Good(Quiet') /\ Held(Quiet', session') BY <1>2 DEF Fit
  <1> QED BY <1>3 DEF VaultInv

-----------------------------------------------------------------------------
(* The answers. *)

\* What the flow of a panel waits for arrives while the panel is there.
LEMMA PanelThere ==
    ASSUME VaultInv, answered # <<>>, Answer.by \in PanelFlows
    PROVE  panel # None /\ panel \in Panels
  <1>1. Nth(Quiet, 1) = Answer /\ 1 \in 1..Size(Quiet) BY QuietTypes
  <1>2. panel # None BY <1>1, WorldFields DEF VaultInv, Good, Waited
  <1> QED BY <1>2, QuietTypes

LEMMA AnswerEnv ==
    ASSUME VaultInv, answered # <<>>
    PROVE  Answer.env \in Names \cup {None} /\ Answer.out \in Sessions \cup {None}
  BY QuietTypes DEF Commands

LEMMA InitialFits ==
    ASSUME AccessConstants, VaultInv, InitialClosed \/ InitialRead \/ Reopened
    PROVE  VaultInv'
  <1>1. CASE InitialClosed
    <2>1. answered # <<>> /\ Answer.by = "init" /\ Answer.op = "close"
      BY <1>1 DEF InitialClosed, Arrived, Answer
    <2>2. Fit(Closed) /\ Closed.panel # None BY <2>1, ClosedFit, PanelThere DEF PanelFlows
    <2>3. Fit(Send(Closed, "read", "init", None)) BY <2>2, SendFit DEF Flows, VaultOps
    <2> QED BY <1>1, <2>3, BecomeFit DEF InitialClosed
  <1>2. CASE InitialRead
    <2>1. answered # <<>> /\ Answer.by = "init" /\ Answer.op = "read"
      BY <1>2 DEF InitialRead, Arrived, Answer
    <2>2. Fit(World) /\ World.panel # None BY <2>1, WorldFit, PanelThere DEF PanelFlows, VaultOps
    <2>3. Fit(TryOpen(Reset(World, Answer.env))) BY <2>1, <2>2, AnswerEnv, ResetFit, TryOpenFit
    <2> QED BY <1>2, <2>2, <2>3, BecomeFit DEF InitialRead
  <1>3. CASE Reopened
    <2>1. answered # <<>> /\ Answer.by = "reopen" /\ Answer.op = "close"
      BY <1>3 DEF Reopened, Arrived, Answer
    <2>2. Fit(Closed) /\ Closed.panel # None BY <2>1, ClosedFit, PanelThere DEF PanelFlows
    <2>3. Fit(TryOpen(Reset(Closed, Answer.env))) BY <2>1, <2>2, AnswerEnv, ResetFit, TryOpenFit
    <2> QED BY <1>3, <2>3, BecomeFit DEF Reopened
  <1> QED BY <1>1, <1>2, <1>3

LEMMA PanelOpenedFits ==
    ASSUME AccessConstants, VaultInv, PanelOpened
    PROVE  VaultInv'
  <1> DEFINE w == Seen(Answer)
             x == IF Current(Answer) THEN Answer.out ELSE panel.vault
             p == [panel EXCEPT !.busy = FALSE, !.vault = x]
             v == [w EXCEPT !.panel.busy = FALSE,
                            !.panel.vault = IF Current(Answer) THEN Answer.out ELSE @]
  <1>1. answered # <<>> /\ Answer.by = "op" /\ Answer.op = "open"
    BY DEF PanelOpened, Arrived, Answer
  <1>2. Fit(w) /\ w.panel = panel BY <1>1, SeenFit DEF VaultOps
  <1>3. panel \in Panels BY <1>1, PanelThere DEF PanelFlows
  <1>4. x \in Sessions \cup {None} BY <1>1, <1>3, AnswerEnv DEF Panels
  <1>5. Become(v) BY DEF PanelOpened
  <1> HIDE DEF w
  <1>6. v = [w EXCEPT !.panel = p] BY <1>2
  <1> HIDE DEF x, v
  <1>7. p \in Panels BY <1>3, <1>4 DEF Panels
  <1> HIDE DEF p
  <1>8. Fit(v) BY <1>2, <1>6, <1>7, PanelFit DEF AccessConstants
  <1> QED BY <1>5, <1>8, BecomeFit DEF PanelOpened

LEMMA PanelMutatedFits ==
    ASSUME AccessConstants, VaultInv, PanelMutated
    PROVE  VaultInv'
  <1> DEFINE w == Seen(Answer)
             c == [Command("write", "op", Answer.env) EXCEPT !.out = Answer.out]
             sent == [w EXCEPT !.asked = Append(@, c)]
             p == [panel EXCEPT !.busy = FALSE]
             v == [w EXCEPT !.panel.busy = FALSE]
  <1>1. answered # <<>> /\ Answer.by = "op" /\ Answer.op \in VaultOps
    BY DEF PanelMutated, Arrived, Answer, VaultOps
  <1>2. Fit(w) /\ w.panel = panel BY <1>1, SeenFit
  <1>3. panel # None /\ panel \in Panels BY <1>1, PanelThere DEF PanelFlows
  <1>4. Become(IF Current(Answer) THEN sent ELSE v) BY DEF PanelMutated
  <1>5. /\ c \in Commands /\ c.op = "write" /\ c.by = "op" /\ c.live /\ c.ok
    BY <1>1, AnswerEnv DEF Command, Commands
  <1> HIDE DEF w, c
  <1>6. Fit(sent)
    <2>1. w \in Worlds /\ w.asked \in Seq(Commands) BY <1>2, WorldFacts DEF Fit, Good
    <2>2. Append(w.asked, c) \in Seq(Commands) BY <1>5, <2>1, AppendFacts
    <2>3. /\ sent \in Worlds /\ sent.view = w.view /\ sent.closing = w.closing
          /\ sent.answered = w.answered /\ sent.asked = Append(w.asked, c) /\ sent.panel = w.panel
      BY <2>1, <2>2 DEF Worlds
    <2>4. Sent(w, sent, c) BY <1>2, <1>3, <1>5, <2>1, <2>3 DEF Sent, VaultOps
    <2> HIDE DEF sent
    <2> QED BY <1>2, <2>4, SendGood DEF Fit
  <1>7. Fit(v)
    <2>1. v = [w EXCEPT !.panel = p] BY <1>2
    <2> HIDE DEF v
    <2>2. p \in Panels BY <1>3 DEF Panels
    <2> HIDE DEF p
    <2> QED BY <1>2, <2>1, <2>2, PanelFit DEF AccessConstants
  <1> HIDE DEF sent, v
  <1> QED BY <1>4, <1>6, <1>7, BecomeFit DEF PanelMutated

LEMMA PanelWrittenFits ==
    ASSUME AccessConstants, VaultInv, PanelWritten
    PROVE  VaultInv'
  <1> DEFINE p == [panel EXCEPT !.busy = FALSE, !.env = Answer.env, !.vault = Answer.out]
             v == [World EXCEPT !.panel = [@ EXCEPT !.busy = FALSE, !.env = Answer.env,
                                                    !.vault = Answer.out]]
             u == Close(World, "failed", panel.env)
  <1>1. answered # <<>> /\ Answer.by = "op" /\ Answer.op = "write"
    BY DEF PanelWritten, Arrived, Answer
  <1>2. Fit(World) /\ World.panel = panel BY <1>1, WorldFit DEF VaultOps
  <1>3. panel # None /\ panel \in Panels BY <1>1, PanelThere DEF PanelFlows
  <1>4. Answer.env \in Names \cup {None} /\ Answer.out \in Sessions \cup {None} BY <1>1, AnswerEnv
  <1>5. Become(IF Answer.ok THEN v ELSE u) BY DEF PanelWritten
  <1>6. Fit(v)
    <2>1. v = [World EXCEPT !.panel = p] BY <1>2
    <2> HIDE DEF v
    <2>2. p \in Panels BY <1>3, <1>4 DEF Panels
    <2> HIDE DEF p
    <2> QED BY <1>2, <2>1, <2>2, PanelFit DEF AccessConstants
  <1>7. Fit(u)
    <2>1. panel.env \in Names \cup {None} BY <1>3 DEF Panels
    <2> QED BY <1>2, <1>3, <2>1, CloseFit DEF Flows
  <1> HIDE DEF u, v
  <1> QED BY <1>5, <1>6, <1>7, BecomeFit DEF PanelWritten

LEMMA FailureClosedFits ==
    ASSUME AccessConstants, VaultInv, FailureClosed
    PROVE  VaultInv'
  <1> DEFINE p == [panel EXCEPT !.busy = FALSE, !.env = Answer.env, !.vault = None]
             v == [Closed EXCEPT !.panel = [@ EXCEPT !.busy = FALSE, !.env = Answer.env,
                                                     !.vault = None]]
  <1>1. answered # <<>> /\ Answer.by = "failed" /\ Answer.op = "close"
    BY DEF FailureClosed, Arrived, Answer
  <1>2. Fit(Closed) /\ Closed.panel = panel BY <1>1, ClosedFit
  <1>3. panel \in Panels BY <1>1, PanelThere DEF PanelFlows
  <1>4. Answer.env \in Names \cup {None} BY <1>1, AnswerEnv
  <1>5. Become(v) BY DEF FailureClosed
  <1>6. v = [Closed EXCEPT !.panel = p] BY <1>2
  <1> HIDE DEF v
  <1>7. p \in Panels BY <1>3, <1>4 DEF Panels
  <1> HIDE DEF p
  <1>8. Fit(v) BY <1>2, <1>6, <1>7, PanelFit DEF AccessConstants
  <1> QED BY <1>5, <1>8, BecomeFit DEF FailureClosed

LEMMA OrphanWrittenFits ==
    ASSUME AccessConstants, VaultInv, OrphanWritten
    PROVE  VaultInv'
  <1> DEFINE p == [panel EXCEPT !.env = Answer.env]
             q == [panel EXCEPT !.read = FALSE]
             u == [World EXCEPT !.panel.env = Answer.env]
             v == [World EXCEPT !.panel.read = FALSE]
             w == Close(World, "gone", None)
             x == Close(v, "reopen", Answer.env)
  <1>1. answered # <<>> /\ Answer.op = "write" BY DEF OrphanWritten, Arrived, Answer
  <1>2. Fit(World) /\ World.panel = panel BY <1>1, WorldFit DEF VaultOps
  <1>3. Answer.env \in Names \cup {None} BY <1>1, AnswerEnv
  <1>4. Become(IF ~Answer.ok THEN w ELSE IF panel = None THEN World
               ELSE IF panel.busy THEN u ELSE x)
    BY DEF OrphanWritten
  <1>5. Fit(w) BY <1>2, CloseFit DEF Flows, PanelFlows
  <1>6. ASSUME panel # None PROVE Fit(u) /\ Fit(x)
    <2>1. panel \in Panels BY <1>6, QuietTypes
    <2>2. u = [World EXCEPT !.panel = p] /\ v = [World EXCEPT !.panel = q] BY <1>2
    <2> HIDE DEF u, v
    <2>3. p \in Panels /\ q \in Panels BY <1>3, <2>1 DEF Panels
    <2> HIDE DEF p, q
    <2>4. Fit(u) /\ Fit(v) /\ v.panel # None BY <1>2, <2>2, <2>3, PanelFit DEF AccessConstants
    <2>5. Fit(x) BY <1>3, <2>4, CloseFit DEF Flows
    <2> QED BY <2>4, <2>5
  <1> HIDE DEF u, w, x
  <1> QED BY <1>2, <1>4, <1>5, <1>6, BecomeFit DEF OrphanWritten

LEMMA VaultLockedFits ==
    ASSUME AccessConstants, VaultInv, VaultLocked
    PROVE  VaultInv'
  <1> DEFINE w == Reset(Closed, panel.env)
             q == w.panel
             p == [q EXCEPT !.busy = FALSE, !.read = panel.read]
             v == [w EXCEPT !.panel.busy = FALSE, !.panel.read = panel.read]
  <1>1. answered # <<>> /\ Answer.by = "lockVault" /\ Answer.op = "close"
    BY DEF VaultLocked, Arrived, Answer
  <1>2. Fit(Closed) /\ Closed.panel = panel BY <1>1, ClosedFit
  <1>3. panel # None /\ panel \in Panels /\ panel.env \in Names \cup {None} /\ panel.read \in BOOLEAN
    BY <1>1, PanelThere DEF PanelFlows, Panels
  <1>4. Fit(w) /\ q # None BY <1>2, <1>3, ResetFit
  <1>5. Become(v) BY DEF VaultLocked
  <1> HIDE DEF w
  <1>6. q \in Panels BY <1>4 DEF Fit, Good, Worlds
  <1>7. v = [w EXCEPT !.panel = p] OBVIOUS
  <1> HIDE DEF v, q
  <1>8. p \in Panels BY <1>3, <1>6 DEF Panels
  <1> HIDE DEF p
  <1>9. Fit(v) BY <1>4, <1>7, <1>8, PanelFit DEF AccessConstants
  <1> QED BY <1>5, <1>9, BecomeFit DEF VaultLocked

LEMMA DroppedFits ==
    ASSUME VaultInv, Dropped
    PROVE  VaultInv'
  <1>1. CASE Answer.op = "close" BY <1>1, ClosedFit, BecomeFit DEF Dropped
  <1>2. CASE Answer.op # "close" BY <1>2, WorldFit, BecomeFit DEF Dropped
  <1> QED BY <1>1, <1>2

LEMMA WorkspaceLockedFits ==
    ASSUME VaultInv, WorkspaceLocked
    PROVE  VaultInv'
  <1>1. answered # <<>> /\ Answer.op = "close" BY DEF WorkspaceLocked, Arrived, Answer
  <1>2. Fit(Closed) BY <1>1, ClosedFit
  <1>3. Fit(Teardown(Closed)) BY <1>2, TeardownFit
  <1> QED BY <1>2, <1>3, BecomeFit DEF WorkspaceLocked

LEMMA ConsumerFits ==
    ASSUME VaultInv, ConsumerRead \/ ConsumerOpened
    PROVE  VaultInv'
  <1>1. CASE ConsumerRead
    <2>1. answered # <<>> /\ Answer.op = "read" BY <1>1 DEF ConsumerRead, Arrived, Answer
    <2>2. Fit(World) BY <2>1, WorldFit DEF VaultOps
    <2>3. ASSUME Answer.env # None, Sendable(World)
          PROVE  Fit(Send(World, "open", "consumer", Answer.env))
      BY <2>1, <2>2, <2>3, AnswerEnv, SendFit DEF Sendable, Flows, PanelFlows, VaultOps
    <2> QED BY <1>1, <2>2, <2>3, BecomeFit DEF ConsumerRead
  <1>2. CASE ConsumerOpened
    <2>1. answered # <<>> /\ Answer.op \in VaultOps
      BY <1>2 DEF ConsumerOpened, Arrived, Answer, VaultOps
    <2> QED BY <1>2, <2>1, SeenFit, BecomeFit DEF ConsumerOpened
  <1> QED BY <1>1, <1>2

LEMMA AnswersFit == AccessConstants /\ VaultInv /\ Answers => VaultInv'
  BY InitialFits, PanelOpenedFits, PanelMutatedFits, PanelWrittenFits, FailureClosedFits,
    OrphanWrittenFits, VaultLockedFits, DroppedFits, WorkspaceLockedFits, ConsumerFits DEF Answers

-----------------------------------------------------------------------------
(* Users, and the main thread. *)

LEMMA QuietFit ==
    ASSUME VaultInv
    PROVE  Fit(Quiet) /\ Quiet.panel = panel /\ Quiet.closing = closing
  BY WorldFields DEF Fit, VaultInv

LEMMA PanelInputsFit ==
    ASSUME AccessConstants, VaultInv, SubmitVault \/ MutateSecret \/ LockVault
    PROVE  VaultInv'
  <1> DEFINE p == [panel EXCEPT !.busy = TRUE]
             w == [Quiet EXCEPT !.panel.busy = TRUE]
             op == IF panel.env = None THEN "create" ELSE "open"
  <1>1. panel # None /\ panel \in Panels /\ panel.env \in Names \cup {None}
    <2>1. panel # None BY DEF SubmitVault, MutateSecret, LockVault
    <2> QED BY <2>1, QuietTypes DEF Panels
  <1>2. w = [Quiet EXCEPT !.panel = p] BY WorldFields
  <1>3. p \in Panels BY <1>1 DEF Panels
  <1> HIDE DEF p
  <1>4. Fit(w) /\ w.panel # None /\ w.closing = closing
    <2> HIDE DEF w
    <2> QED BY <1>2, <1>3, QuietFit, PanelFit DEF AccessConstants
  <1>5. CASE SubmitVault
    <2>1. Become(Send(w, op, "op", panel.env)) /\ closing = 0
      BY <1>5, WorldFields DEF SubmitVault, Sendable
    <2>2. op \in VaultOps \cup {"read", "write"} /\ (op = "open" => panel.env # None)
      BY DEF VaultOps
    <2>3. "op" \in Flows \ {"gone"} BY DEF Flows
    <2> HIDE DEF w, op
    <2>4. Fit(Send(w, op, "op", panel.env)) BY <1>1, <1>4, <2>1, <2>2, <2>3, SendFit
    <2> QED BY <1>5, <2>1, <2>4, BecomeFit DEF SubmitVault
  <1>6. CASE MutateSecret
    <2>1. Become(Send(w, "mutate", "op", None)) /\ closing = 0
      BY <1>6, WorldFields DEF MutateSecret, Sendable
    <2> HIDE DEF w
    <2>2. Fit(Send(w, "mutate", "op", None)) BY <1>4, <2>1, SendFit DEF VaultOps, Flows
    <2> QED BY <1>6, <2>1, <2>2, BecomeFit DEF MutateSecret
  <1>7. CASE LockVault
    <2>1. Become(Close(w, "lockVault", None)) BY <1>7 DEF LockVault
    <2> HIDE DEF w
    <2>2. Fit(Close(w, "lockVault", None)) BY <1>4, CloseFit DEF Flows
    <2> QED BY <1>7, <2>1, <2>2, BecomeFit DEF LockVault
  <1> QED BY <1>5, <1>6, <1>7

LEMMA OtherInputsFit ==
    ASSUME AccessConstants, VaultInv, OpenPanel \/ ClosePanel \/ LockWorkspace \/ ConsumerOpens
    PROVE  VaultInv'
  <1>1. CASE OpenPanel
    <2> DEFINE p == [busy |-> FALSE, read |-> FALSE, auto |-> FALSE, env |-> None, vault |-> None]
               w == [Quiet EXCEPT !.panel = p]
    <2>1. Become(Close(w, "init", None)) BY <1>1 DEF OpenPanel
    <2>2. p \in Panels BY DEF Panels
    <2> HIDE DEF p
    <2>3. Fit(w) /\ w.panel # None BY <2>2, QuietFit, PanelFit DEF AccessConstants
    <2> HIDE DEF w
    <2>4. Fit(Close(w, "init", None)) BY <2>3, CloseFit DEF Flows
    <2> QED BY <1>1, <2>1, <2>4, BecomeFit DEF OpenPanel
  <1>2. CASE ClosePanel BY <1>2, QuietFit, TeardownFit, BecomeFit DEF ClosePanel
  <1>3. CASE LockWorkspace
    <2>1. Fit(Close(Quiet, "lock", None)) BY QuietFit, CloseFit DEF Flows, PanelFlows
    <2> QED BY <1>3, <2>1, BecomeFit DEF LockWorkspace
  <1>4. CASE ConsumerOpens
    <2>1. Fit(Send(Quiet, "read", "consumer", None))
      BY QuietFit, SendFit DEF Flows, PanelFlows, VaultOps
    <2> QED BY <1>4, <2>1, BecomeFit DEF ConsumerOpens
  <1> QED BY <1>1, <1>2, <1>3, <1>4

LEMMA OutcomeFacts ==
    ASSUME AccessConstants, session \in Sessions \cup {None}, file \in Names \cup {None},
           made \in 0..MaxMade, NEW b \in Commands, NEW ok \in BOOLEAN,
           b.ok, b.op = "open" => b.env \in Names,
           b.op \in VaultOps /\ Outcome(b, ok).ok => made < MaxMade
    PROVE  /\ Outcome(b, ok) \in Commands
           /\ Outcome(b, ok).op = b.op /\ Outcome(b, ok).by = b.by /\ Outcome(b, ok).live = b.live
  <1> DEFINE k == made + 1
             s == [gen |-> k, content |-> k]
             c == Outcome(b, ok)
  <1>1. made < MaxMade => k \in Names BY DEF Names, AccessConstants
  <1>2. CASE ~ok
    <2>1. c = [b EXCEPT !.ok = FALSE] BY <1>2 DEF Outcome
    <2> QED BY <2>1 DEF Commands
  <1>3. CASE ok /\ b.op = "open"
    <2> DEFINE x == [gen |-> k, content |-> b.env]
    <2>1. c = [b EXCEPT !.out = x] BY <1>3 DEF Outcome
    <2>2. c.ok BY <2>1 DEF Commands
    <2>3. x \in Sessions BY <1>1, <1>3, <2>2 DEF Sessions, VaultOps
    <2> HIDE DEF x
    <2> QED BY <2>1, <2>3 DEF Commands
  <1>4. CASE ok /\ b.op = "create"
    <2>1. c = [b EXCEPT !.out = s, !.env = k] BY <1>4 DEF Outcome
    <2>2. c.ok BY <2>1 DEF Commands
    <2>3. s \in Sessions /\ k \in Names BY <1>1, <1>4, <2>2 DEF Sessions, VaultOps
    <2> HIDE DEF s, k
    <2> QED BY <2>1, <2>3 DEF Commands
  <1>5. CASE ok /\ b.op = "mutate"
    <2>1. CASE session = None
      <3>1. c = [b EXCEPT !.ok = FALSE] BY <1>5, <2>1 DEF Outcome
      <3> QED BY <3>1 DEF Commands
    <2>2. CASE session # None
      <3> DEFINE x == [session EXCEPT !.content = k]
      <3>1. c = [b EXCEPT !.out = x, !.env = k] BY <1>5, <2>2 DEF Outcome
      <3>2. c.ok BY <3>1 DEF Commands
      <3>3. x \in Sessions /\ k \in Names BY <1>1, <1>5, <2>2, <3>2 DEF Sessions, VaultOps
      <3> HIDE DEF x, k
      <3> QED BY <3>1, <3>3 DEF Commands
    <2> QED BY <2>1, <2>2
  <1>6. CASE ok /\ b.op = "read"
    <2>1. c = [b EXCEPT !.env = file] BY <1>6 DEF Outcome
    <2> QED BY <2>1 DEF Commands
  <1>7. CASE ok /\ b.op \notin {"open", "create", "mutate", "read"}
    <2>1. c = b BY <1>7 DEF Outcome
    <2> QED BY <2>1
  <1> QED BY <1>2, <1>3, <1>4, <1>5, <1>6, <1>7

LEMMA ExecuteFits ==
    ASSUME AccessConstants, VaultInv, NEW ok \in BOOLEAN, Execute(ok)
    PROVE  VaultInv'
  <1> DEFINE b == Head(asked)
             c == Outcome(b, ok)
             makes == b.op \in VaultOps /\ c.ok
             s == Tail(asked)
             t == Append(answered, c)
             v == [view |-> view, closing |-> closing, asked |-> s, answered |-> t, panel |-> panel]
  <1>1. /\ asked # <<>> /\ asked' = s /\ answered' = t
        /\ session' = IF c.op = "close" THEN None
                      ELSE IF makes THEN c.out ELSE session
        /\ file' = IF c.op = "write" /\ c.ok THEN c.env ELSE file
        /\ makes => made < MaxMade
        /\ made' = IF makes THEN made + 1 ELSE made
        /\ UNCHANGED <<view, closing, panel>>
    <2>1. /\ asked # <<>> /\ asked' = s /\ answered' = t
          /\ UNCHANGED <<view, closing, panel>>
      BY DEF Execute
    <2>2. session' = IF c.op = "close" THEN None ELSE IF makes THEN c.out ELSE session
      BY DEF Execute
    <2>3. file' = IF c.op = "write" /\ c.ok THEN c.env ELSE file BY DEF Execute
    <2>4. /\ makes => made < MaxMade
          /\ made' = IF makes THEN made + 1 ELSE made
      BY DEF Execute
    <2> QED BY <2>1, <2>2, <2>3, <2>4
  <1>2. b \in Commands /\ b.ok /\ (b.op = "open" => b.env \in Names) /\ s \in Seq(Commands)
    <2>1. b = asked[1] /\ b \in Commands /\ s \in Seq(Commands) /\ Len(asked) \in Nat \ {0}
      BY <1>1, QuietTypes, TailFacts
    <2>2. 1 \in 1..Len(asked) BY <2>1
    <2>3. asked[1].ok /\ (asked[1].op = "open" => asked[1].env \in Names)
      BY <2>2, WorldFields DEF VaultInv, Good, Fresh
    <2> QED BY <2>1, <2>3
  <1>3. c \in Commands /\ c.op = b.op /\ c.by = b.by /\ c.live = b.live
    BY <1>1, <1>2, OutcomeFacts DEF VaultInv
  <1> HIDE DEF c
  <1>4. t \in Seq(Commands) BY <1>3, QuietTypes, AppendFacts
  <1>5. v \in Worlds
    <2> HIDE DEF s, t
    <2> QED BY <1>2, <1>4, QuietTypes DEF Worlds
  <1>6. Executed(Quiet, v, c) BY <1>1, <1>3, <1>5, WorldFields DEF Executed
  <1>7. Good(v) /\ Held(v, Left(c, session)) BY <1>6, ExecuteGood DEF VaultInv
  <1>8. Quiet' = v /\ session' = Left(c, session) BY <1>1, <1>3 DEF Quiet, Left, Made
  <1>9. Good(Quiet') /\ Held(Quiet', session') BY <1>7, <1>8
  <1>10. session' \in Sessions \cup {None} /\ file' \in Names \cup {None}
    <2>1. c.out \in Sessions \cup {None} /\ c.env \in Names \cup {None} BY <1>3 DEF Commands
    <2> QED BY <1>1, <2>1 DEF VaultInv
  <1>11. made' \in 0..MaxMade BY <1>1 DEF VaultInv, AccessConstants
  <1> QED BY <1>9, <1>10, <1>11 DEF VaultInv

-----------------------------------------------------------------------------
(* Verifications. *)

\* What a step leaves alone: the vault, or everything a verification has.
UnlockKept ==
    /\ UNCHANGED <<unlocked, verifying, current, attempts, cooling, locks>>
    /\ inputs' \in inputs..MaxInputs /\ failures' \in 0..MaxFailures

LEMMA KeptUnlock == ASSUME AccessConstants, UnlockInv, UnlockKept PROVE UnlockInv'
  <1>1. inputs \in Nat /\ inputs' \in Nat /\ inputs <= inputs' /\ inputs' \in 0..MaxInputs
    BY DEF UnlockKept, UnlockInv, AccessConstants
  <1>2. /\ \A v \in verifying : v.id \in Nat
        /\ current \in Nat
    BY DEF UnlockInv, AccessConstants
  <1>3. current <= inputs' /\ \A v \in verifying : v.id <= inputs' BY <1>1, <1>2 DEF UnlockInv
  <1> QED BY <1>1, <1>3 DEF UnlockInv, UnlockKept

LEMMA AskKeeps ==
    ASSUME AccessConstants, UnlockInv, Ask
    PROVE  inputs' \in inputs..MaxInputs /\ inputs' = inputs + 1 /\ inputs' \in 1..MaxInputs
  BY DEF Ask, UnlockInv, AccessConstants

LEMMA VaultStepsKeepUnlock ==
    ASSUME AccessConstants, UnlockInv,
           \/ \E ok \in BOOLEAN : Execute(ok)
           \/ Answers /\ ~WorkspaceLocked
           \/ OpenPanel \/ ClosePanel \/ SubmitVault \/ MutateSecret \/ LockVault
           \/ LockWorkspace \/ ConsumerOpens
    PROVE  UnlockInv'
  <1>1. UNCHANGED <<inputs, failures>> => inputs' \in inputs..MaxInputs /\ failures' \in 0..MaxFailures
    BY DEF UnlockInv
  <1>2. CASE \E ok \in BOOLEAN : Execute(ok)
    <2>1. PICK ok \in BOOLEAN : Execute(ok) BY <1>2
    <2>2. ~ok => failures < MaxFailures BY <2>1 DEF Execute
    <2>3. failures' = IF ok THEN failures ELSE failures + 1 BY <2>1 DEF Execute
    <2>4. UNCHANGED <<unlockVars, inputs>> BY <2>1 DEF Execute
    <2>5. UnlockKept BY <2>2, <2>3, <2>4 DEF UnlockKept, UnlockInv, unlockVars, AccessConstants
    <2> QED BY <2>5, KeptUnlock
  <1>3. CASE Answers /\ ~WorkspaceLocked
    <2>1. UNCHANGED <<unlockVars, inputs, failures>>
      BY <1>3 DEF Answers, InitialClosed, InitialRead, Reopened, PanelOpened, PanelMutated,
        PanelWritten, FailureClosed, OrphanWritten, VaultLocked, Dropped, ConsumerRead,
        ConsumerOpened
    <2> QED BY <1>1, <2>1, KeptUnlock DEF UnlockKept, unlockVars
  <1>4. CASE \/ OpenPanel \/ ClosePanel \/ SubmitVault \/ MutateSecret \/ LockVault
             \/ LockWorkspace \/ ConsumerOpens
    <2>1. Ask /\ UNCHANGED <<unlockVars, failures>>
      BY <1>4 DEF OpenPanel, ClosePanel, SubmitVault, MutateSecret, LockVault, LockWorkspace,
        ConsumerOpens
    <2>2. UnlockKept BY <2>1, AskKeeps DEF UnlockKept, UnlockInv, unlockVars
    <2> QED BY <2>2, KeptUnlock
  <1> QED BY <1>2, <1>3, <1>4

\* A lock revokes every verification there is.
LEMMA LockKeepsUnlock == ASSUME AccessConstants, UnlockInv, WorkspaceLocked PROVE UnlockInv'
  <1>1. /\ unlocked' = FALSE /\ current' = 0 /\ locks' = locks + 1
        /\ UNCHANGED <<verifying, attempts, cooling, inputs, failures>>
    BY DEF WorkspaceLocked, MarkLocked
  <1>2. current' \in 0..MaxInputs /\ current' <= inputs' /\ locks' \in Nat
    BY <1>1 DEF UnlockInv, AccessConstants
  <1>3. unlocked' \in BOOLEAN /\ (unlocked' => current' = 0)
        /\ (current' # 0 => ~cooling' /\ \A v \in verifying' : v.id = current' => v.since = locks')
    BY <1>1
  <1> QED BY <1>1, <1>2, <1>3 DEF UnlockInv

LEMMA BeginKeepsUnlock ==
    ASSUME AccessConstants, UnlockInv, NEW right \in BOOLEAN, BeginVerification(right)
    PROVE  UnlockInv'
  <1> DEFINE n == [id |-> inputs', right |-> right, since |-> locks]
  <1>1. /\ ~unlocked /\ ~cooling /\ verifying' = verifying \cup {n} /\ current' = inputs'
        /\ UNCHANGED <<unlocked, attempts, cooling, locks, failures>>
        /\ inputs \in Nat /\ inputs' = inputs + 1 /\ inputs' \in 1..MaxInputs
    BY AskKeeps DEF BeginVerification, UnlockInv, AccessConstants
  <1>2. n \in [id : 1..MaxInputs, right : BOOLEAN, since : Nat] /\ n.id = inputs' /\ n.since = locks
    BY <1>1 DEF UnlockInv
  <1> HIDE DEF n
  <1>3. \A v \in verifying : v.id \in Nat /\ v.id <= inputs /\ v.id # inputs' /\ v.id <= inputs'
    BY <1>1 DEF UnlockInv
  <1>4. /\ verifying' \subseteq [id : 1..MaxInputs, right : BOOLEAN, since : Nat]
        /\ \A v \in verifying' : v.id <= inputs' /\ (v.id = inputs' => v.since = locks)
    BY <1>1, <1>2, <1>3 DEF UnlockInv
  <1>5. current' \in 0..MaxInputs /\ inputs' \in 0..MaxInputs /\ current' <= inputs'
    BY <1>1 DEF AccessConstants
  <1> QED BY <1>1, <1>4, <1>5 DEF UnlockInv

LEMMA EndKeepsUnlock ==
    ASSUME AccessConstants, UnlockInv, NEW v \in verifying,
           AbandonVerification(v) \/ FinishVerification(v)
    PROVE  UnlockInv'
  <1>1. CASE AbandonVerification(v)
    <2>1. /\ verifying' = verifying \ {v} /\ current' \in {0, current}
          /\ UNCHANGED <<unlocked, attempts, cooling, locks, failures>>
          /\ inputs \in Nat /\ inputs' = inputs + 1 /\ inputs' \in 0..MaxInputs
      BY <1>1, AskKeeps DEF AbandonVerification, UnlockInv, AccessConstants
    <2>2. current \in Nat /\ \A x \in verifying : x.id \in Nat BY DEF UnlockInv, AccessConstants
    <2>3. current' <= inputs' /\ \A x \in verifying' : x.id <= inputs' BY <2>1, <2>2 DEF UnlockInv
    <2>4. current' \in 0..MaxInputs BY <2>1 DEF UnlockInv, AccessConstants
    <2>5. unlocked' => current' = 0 BY <2>1 DEF UnlockInv
    <2>6. current' # 0 => ~cooling' /\ \A x \in verifying' : x.id = current' => x.since = locks'
      BY <2>1 DEF UnlockInv
    <2> QED BY <2>1, <2>3, <2>4, <2>5, <2>6 DEF UnlockInv
  <1>2. CASE FinishVerification(v) /\ ~IsCurrentVerification(v)
    <2>1. /\ verifying' = verifying \ {v}
          /\ UNCHANGED <<unlocked, current, attempts, cooling, locks, inputs, failures>>
      BY <1>2 DEF FinishVerification
    <2> QED BY <2>1 DEF UnlockInv
  <1>3. CASE FinishVerification(v) /\ IsCurrentVerification(v)
    <2>1. /\ verifying' = verifying \ {v} /\ current' = 0 /\ unlocked' = v.right
          /\ attempts' = IF v.right THEN 0
                         ELSE IF attempts = MaxAttempts THEN attempts ELSE attempts + 1
          /\ cooling' \in BOOLEAN
          /\ UNCHANGED <<locks, inputs, failures>>
      BY <1>3 DEF FinishVerification
    <2>2. attempts' \in 0..MaxAttempts BY <2>1 DEF UnlockInv, AccessConstants
    <2>3. v.right \in BOOLEAN BY DEF UnlockInv
    <2> QED BY <2>1, <2>2, <2>3 DEF UnlockInv, AccessConstants
  <1> QED BY <1>1, <1>2, <1>3

-----------------------------------------------------------------------------
LEMMA AccessInvBegins == ASSUME AccessConstants, Init PROVE AccessInv
  <1>1. Quiet = [view |-> None, closing |-> 0, asked |-> <<>>, answered |-> <<>>, panel |-> None]
    BY DEF Init, Quiet
  <1>2. /\ Quiet.view = None /\ Quiet.closing = 0 /\ Quiet.asked = <<>>
        /\ Quiet.answered = <<>> /\ Quiet.panel = None
    BY WorldFields DEF Init
  <1>3. Quiet \in Worlds BY <1>1 DEF Worlds
  <1>4. <<>> \in Seq(Commands) /\ Len(<<>>) = 0 OBVIOUS
  <1>5. Size(Quiet) = 0 /\ 1..Size(Quiet) = {} /\ 1..Len(<<>>) = {} BY <1>2, <1>4 DEF Size
  <1>6. Closes(<<>>) = 0 BY <1>4, <1>5, ClosesIsCount
  <1>7. Good(Quiet)
    BY <1>2, <1>3, <1>5, <1>6 DEF Good, Counted, Hidden, NoneBehind, DeadBefore, GoneIsDead, Waited, Fresh
  <1>8. Held(Quiet, session) BY <1>2, <1>5 DEF Held, Revoked, Told, Init
  <1>9. VaultInv BY <1>7, <1>8 DEF VaultInv, Init, AccessConstants
  <1>10. UnlockInv
    <2>1. /\ unlocked = TRUE /\ cooling = FALSE /\ verifying = {} /\ current = 0 /\ attempts = 0
          /\ locks = 0 /\ inputs = 0 /\ failures = 0
      BY DEF Init
    <2>2. unlocked \in BOOLEAN /\ cooling \in BOOLEAN BY <2>1
    <2>3. /\ current \in 0..MaxInputs /\ attempts \in 0..MaxAttempts /\ locks \in Nat
          /\ inputs \in 0..MaxInputs /\ failures \in 0..MaxFailures /\ current <= inputs
      BY <2>1 DEF AccessConstants
    <2> QED BY <2>1, <2>2, <2>3 DEF UnlockInv
  <1> QED BY <1>9, <1>10 DEF AccessInv

LEMMA VaultKept == ASSUME VaultInv, UNCHANGED vaultVars PROVE VaultInv'
  <1>1. Quiet' = Quiet /\ session' = session /\ file' = file /\ made' = made BY DEF vaultVars, Quiet
  <1> QED BY <1>1 DEF VaultInv

LEMMA AccessInvSteps == ASSUME AccessConstants, AccessInv, [Next]_vars PROVE AccessInv'
  <1> USE DEF AccessInv
  <1>1. ASSUME NEW ok \in BOOLEAN, Execute(ok) PROVE AccessInv'
    BY <1>1, ExecuteFits, VaultStepsKeepUnlock
  <1>2. CASE Answers BY <1>2, AnswersFit, VaultStepsKeepUnlock, LockKeepsUnlock
  <1>3. CASE SubmitVault \/ MutateSecret \/ LockVault BY <1>3, PanelInputsFit, VaultStepsKeepUnlock
  <1>4. CASE OpenPanel \/ ClosePanel \/ LockWorkspace \/ ConsumerOpens
    BY <1>4, OtherInputsFit, VaultStepsKeepUnlock
  <1>5. ASSUME NEW right \in BOOLEAN, BeginVerification(right) PROVE AccessInv'
    <2>1. UNCHANGED vaultVars BY <1>5 DEF BeginVerification
    <2> QED BY <1>5, <2>1, VaultKept, BeginKeepsUnlock
  <1>6. ASSUME NEW v \in verifying, AbandonVerification(v) \/ FinishVerification(v)
        PROVE  AccessInv'
    <2>1. UNCHANGED vaultVars BY <1>6 DEF AbandonVerification, FinishVerification
    <2> QED BY <1>6, <2>1, VaultKept, EndKeepsUnlock
  <1>7. CASE CooldownEnds
    <2>1. /\ UNCHANGED vaultVars /\ cooling' = FALSE
          /\ UNCHANGED <<unlocked, verifying, current, attempts, locks, inputs, failures>>
      BY <1>7 DEF CooldownEnds
    <2>2. UnlockInv' BY <2>1 DEF UnlockInv
    <2> QED BY <2>1, <2>2, VaultKept
  <1>8. CASE UNCHANGED vars
    <2>1. UNCHANGED vaultVars BY <1>8 DEF vars
    <2>2. UNCHANGED <<unlocked, verifying, current, attempts, cooling, locks, inputs, failures>>
      BY <1>8 DEF vars, unlockVars
    <2>3. UnlockInv' BY <2>2 DEF UnlockInv
    <2> QED BY <2>1, <2>3, VaultKept
  <1> QED BY <1>1, <1>2, <1>3, <1>4, <1>5, <1>6, <1>7, <1>8 DEF Next

LEMMA AccessInvAlways == ASSUME AccessConstants PROVE Spec => []AccessInv
  <1>1. Init => AccessInv BY AccessInvBegins
  <1>2. AccessInv /\ [Next]_vars => AccessInv' BY AccessInvSteps
  <1> QED BY <1>1, <1>2, PTL DEF Spec

-----------------------------------------------------------------------------
\* Every variable keeps its type, over any number of sessions and inputs.
THEOREM AccessTypeCorrect == ASSUME AccessConstants PROVE Spec => []TypeOK
  <1>1. ASSUME AccessInv PROVE TypeOK
    <2>1. /\ view \in Sessions \cup {None} /\ closing \in Nat /\ asked \in Seq(Commands)
          /\ answered \in Seq(Commands) /\ panel \in Panels \cup {None}
      BY <1>1, QuietTypes DEF AccessInv
    <2> QED BY <1>1, <2>1 DEF AccessInv, VaultInv, UnlockInv, TypeOK
  <1> QED BY <1>1, AccessInvAlways, PTL

\* Once nothing is under way the interface and the main thread agree on the session, and
\* the closes under way are counted exactly, whatever was sent, answered, silenced or
\* refused before (environment-vault-session.ts and secret_vault_session.rs).
THEOREM QuietSessionsAgree == ASSUME AccessConstants PROVE Spec => []QuietViewIsSession
  <1>1. ASSUME AccessInv PROVE QuietViewIsSession
    <2>1. closing = Closes(asked) + Closes(answered)
      BY <1>1, WorldFields DEF AccessInv, VaultInv, Good, Counted
    <2>2. ASSUME asked = <<>>, answered = <<>> PROVE view = session
      <3>1. <<>> \in Seq(Commands) /\ Len(<<>>) = 0 /\ 1..Len(<<>>) = {} OBVIOUS
      <3>2. Closes(<<>>) = 0 BY <3>1, ClosesIsCount
      <3>3. closing = 0 BY <2>1, <2>2, <3>2
      <3> QED BY <1>1, <2>2, <3>1, <3>3, WorldFields DEF AccessInv, VaultInv, Held, Told
    <2> QED BY <2>1, <2>2 DEF QuietViewIsSession
  <1> QED BY <1>1, AccessInvAlways, PTL

LEMMA InEither ==
    ASSUME NEW S, NEW a \in Seq(S), NEW b \in Seq(S), NEW c \in ToSet(a \o b)
    PROVE  (\E i \in 1..Len(a) : c = a[i]) \/ (\E i \in 1..Len(b) : c = b[i])
  <1>1. PICK i \in DOMAIN (a \o b) : c = (a \o b)[i] BY DEF ToSet
  <1>2. Len(a) \in Nat /\ Len(b) \in Nat /\ i \in 1..(Len(a) + Len(b)) BY <1>1
  <1>3. CASE i <= Len(a) BY <1>1, <1>2, <1>3
  <1>4. CASE ~(i <= Len(a))
    <2>1. i - Len(a) \in 1..Len(b) /\ c = b[i - Len(a)] BY <1>1, <1>2, <1>4
    <2> QED BY <2>1
  <1> QED BY <1>3, <1>4

\* The close that ends a workspace's session has nothing behind it that opens another,
\* and taking the panel away silences the rest.
LEMMA LockedForGood ==
    ASSUME AccessConstants, AccessInv, WorkspaceLocked
    PROVE  /\ session = None
           /\ \A c \in ToSet(asked' \o answered') : c.op \in VaultOps => ~c.live
  <1>1. /\ answered # <<>> /\ Answer.op = "close" /\ VaultInv
        /\ Become(IF panel = None THEN Closed ELSE Teardown(Closed))
    BY DEF AccessInv, WorkspaceLocked, Arrived, Answer
  <1>2. /\ answered \in Seq(Commands) /\ asked \in Seq(Commands)
        /\ Nth(Quiet, 1) = Answer /\ 1 \in 1..Size(Quiet)
    BY <1>1, QuietTypes
  <1>3. /\ Tail(answered) \in Seq(Commands) /\ Len(Tail(answered)) = Len(answered) - 1
        /\ Len(answered) \in Nat \ {0} /\ Answer = answered[1]
        /\ \A i \in 1..(Len(answered) - 1) : Tail(answered)[i] = answered[i + 1]
    BY <1>1, <1>2, TailFacts DEF Answer
  <1>4. session = None
    <2>1. 1 \in 1..Len(Quiet.answered) /\ Quiet.answered[1].op = "close" BY <1>1, <1>3, WorldFields
    <2> QED BY <1>1, <2>1 DEF VaultInv, Held, Revoked
  <1>5. Fit(Closed) BY <1>1, ClosedFit
  <1>6. ASSUME NEW c \in ToSet(asked' \o answered'), c.op \in VaultOps PROVE ~c.live
    <2>1. CASE panel = None
      <3>1. asked' = asked /\ answered' = Tail(answered)
        <4>1. Closed.asked = asked /\ Closed.answered = Tail(answered) BY WorldFields DEF Closed
        <4> QED BY <1>1, <2>1, <4>1 DEF Become
      <3>2. /\ Quiet \in Worlds /\ Len(asked) \in Nat
            /\ \A i \in 1..Len(answered) : i \in 1..Size(Quiet) /\ Nth(Quiet, i) = answered[i]
            /\ \A i \in 1..Len(asked) : /\ i + Len(answered) \in 1..Size(Quiet)
                                         /\ Nth(Quiet, i + Len(answered)) = asked[i]
        BY <1>1, WorldFacts, WorldFields DEF VaultInv, Good
      <3>3. \A j \in 1..Size(Quiet) : 1 < j => Nth(Quiet, j).op \notin VaultOps
        BY <1>1, <1>2 DEF VaultInv, Good, NoneBehind
      <3>4. \A i \in 1..Len(asked) : asked[i].op \notin VaultOps
        <4> TAKE i \in 1..Len(asked)
        <4>1. 1 < i + Len(answered) BY <1>3, <3>2
        <4> QED BY <3>2, <3>3, <4>1
      <3>5. \A i \in 1..Len(Tail(answered)) : Tail(answered)[i].op \notin VaultOps
        <4> TAKE i \in 1..Len(Tail(answered))
        <4>1. i \in 1..(Len(answered) - 1) /\ i + 1 \in 1..Len(answered) /\ 1 < i + 1 BY <1>3
        <4> QED BY <1>3, <3>2, <3>3, <4>1
      <3>6. \/ \E i \in 1..Len(asked) : c = asked[i]
            \/ \E i \in 1..Len(Tail(answered)) : c = Tail(answered)[i]
        <4> DEFINE t == Tail(answered)
        <4>1. t \in Seq(Commands) /\ c \in ToSet(asked \o t) BY <1>3, <1>6, <3>1
        <4> HIDE DEF t
        <4>2. (\E i \in 1..Len(asked) : c = asked[i]) \/ (\E i \in 1..Len(t) : c = t[i])
          BY <1>2, <4>1, InEither
        <4> QED BY <4>2 DEF t
      <3> QED BY <1>6, <3>4, <3>5, <3>6
    <2>2. CASE panel # None
      <3> DEFINE w == Closed
                 v == Teardown(w)
      <3>1. asked' = v.asked /\ answered' = v.answered BY <1>1, <2>2 DEF Become
      <3>2. Sealed(w, v) /\ w \in Worlds BY <1>5, TeardownFit DEF Fit, Good
      <3> HIDE DEF w, v
      <3>3. /\ v.asked \in Seq(Commands) /\ v.answered \in Seq(Commands)
            /\ Len(v.answered) = Len(w.answered) /\ Len(v.asked) = Len(w.asked) + 1
            /\ Len(w.asked) \in Nat
        BY <3>2, WorldFacts DEF Sealed
      <3>4. \A i \in 1..Len(v.answered) : ~v.answered[i].live BY <3>2, <3>3 DEF Sealed
      <3>5. \A i \in 1..Len(v.asked) : v.asked[i].op \in VaultOps => ~v.asked[i].live
        <4> TAKE i \in 1..Len(v.asked)
        <4>1. i \in 1..Len(w.asked) \/ i = Len(w.asked) + 1 BY <3>3
        <4> QED BY <3>2, <4>1 DEF Sealed, VaultOps
      <3>6. \/ \E i \in 1..Len(v.asked) : c = v.asked[i]
            \/ \E i \in 1..Len(v.answered) : c = v.answered[i]
        BY <1>6, <3>1, <3>3, InEither
      <3> QED BY <1>6, <3>4, <3>5, <3>6
    <2> QED BY <2>1, <2>2
  <1> QED BY <1>4, <1>6

\* Only a lock, and the verification that counts, change what is published.
LEMMA OthersPublishNothing ==
    ASSUME AccessConstants, AccessInv, [Next]_vars, unlocked' # unlocked
    PROVE  \/ WorkspaceLocked
           \/ \E v \in verifying : FinishVerification(v) /\ IsCurrentVerification(v)
  <1>1. ASSUME UNCHANGED unlockVars PROVE FALSE BY <1>1 DEF unlockVars
  <1>2. CASE \E ok \in BOOLEAN : Execute(ok) BY <1>1, <1>2 DEF Execute
  <1>3. CASE Answers
    BY <1>1, <1>3 DEF Answers, InitialClosed, InitialRead, Reopened, PanelOpened, PanelMutated,
      PanelWritten, FailureClosed, OrphanWritten, VaultLocked, Dropped, ConsumerRead, ConsumerOpened
  <1>4. CASE \/ OpenPanel \/ ClosePanel \/ SubmitVault \/ MutateSecret \/ LockVault
             \/ LockWorkspace \/ ConsumerOpens
    BY <1>1, <1>4 DEF OpenPanel, ClosePanel, SubmitVault, MutateSecret, LockVault, LockWorkspace,
      ConsumerOpens
  <1>5. CASE (\E right \in BOOLEAN : BeginVerification(right)) \/ CooldownEnds
    BY <1>5 DEF BeginVerification, CooldownEnds
  <1>6. ASSUME NEW v \in verifying, AbandonVerification(v) \/ FinishVerification(v)
        PROVE  FinishVerification(v) /\ IsCurrentVerification(v)
    BY <1>6 DEF AbandonVerification, FinishVerification
  <1>7. CASE UNCHANGED vars BY <1>1, <1>7 DEF vars
  <1> QED BY <1>2, <1>3, <1>4, <1>5, <1>6, <1>7 DEF Next

\* A lock is final: the native session is gone and nothing under way brings it back, and
\* what unlocks the workspace is a right password, verified since the last lock and not
\* while attempts are refused (environment-vault-session.ts and workspace-unlock.ts).
THEOREM LocksAreFinal == ASSUME AccessConstants PROVE Spec => LockIsFinal
  <1> DEFINE Locks == unlocked /\ ~unlocked' =>
                        /\ session = None
                        /\ \A c \in ToSet(asked' \o answered') : c.op \in VaultOps => ~c.live
             Unlocks == ~unlocked /\ unlocked' =>
                          ~cooling /\ \E v \in verifying : v.right /\ v.since = locks
  <1>1. ASSUME AccessInv, [Next]_vars PROVE Locks /\ Unlocks
    <2>1. unlocked \in BOOLEAN /\ unlocked' \in BOOLEAN
      <3>1. AccessInv' BY <1>1, AccessInvSteps
      <3> QED BY <1>1, <3>1 DEF AccessInv, UnlockInv
    <2>2. CASE WorkspaceLocked
      <3>1. unlocked' = FALSE BY <2>2 DEF WorkspaceLocked, MarkLocked
      <3> QED BY <1>1, <2>2, <3>1, LockedForGood
    <2>3. ASSUME NEW v \in verifying, FinishVerification(v), IsCurrentVerification(v)
          PROVE  Locks /\ Unlocks
      <3>1. current = v.id /\ unlocked' = v.right
        BY <2>3 DEF FinishVerification, IsCurrentVerification
      <3>2. current # 0 BY <1>1, <2>3, <3>1 DEF AccessInv, UnlockInv, AccessConstants
      <3>3. ~unlocked /\ ~cooling /\ v.since = locks BY <1>1, <3>1, <3>2 DEF AccessInv, UnlockInv
      <3> QED BY <3>1, <3>3
    <2>4. CASE unlocked' = unlocked BY <2>4
    <2> QED BY <1>1, <2>2, <2>3, <2>4, OthersPublishNothing
  <1>2. AccessInv /\ [Next]_vars => [Locks /\ Unlocks]_vars BY <1>1
  <1> QED BY <1>2, AccessInvAlways, PTL DEF Spec, LockIsFinal

-----------------------------------------------------------------------------
(* The project board.                                                        *)

OperationTypes ==
    /\ folder \in [Repositories -> Folders]
    /\ operations \in [Repositories -> Operation \cup {Null}]
    /\ stored \in [Repositories -> Operation \cup {Null}]
    /\ visit \in 0..MaxVisits /\ visits \in 0..MaxVisits
    /\ calls \in [1..MaxCalls -> Call \cup {Null}]
    /\ started \in 0..MaxCalls /\ finished \in Nat

\* Commands are numbered in the order they start, views in the order they come, and a
\* board that is not shown has no operations.
Numbered ==
    /\ \A c \in Calls : c <= started /\ calls[c].visit <= visits
    /\ visit \in {0, visits}
    /\ visit = 0 => operations = [r \in Repositories |-> Null]

\* Nothing that is stored, or about to be, is running.
Ended ==
    /\ \A r \in Repositories : stored[r] # Null => stored[r].state # "running"
    /\ \A c \in Calls : calls[c].at = "record" =>
          calls[c].ends # Null /\ calls[c].ends.state # "running"

\* Two commands on one repository disturb each other. Otherwise a part of a clone is that
\* of a command that ends it or cleans up, and what a clone found or made is whole.
Disturbed ==
    \A c, d \in Calls : c # d /\ calls[c].repo = calls[d].repo => calls[c].repo \in spoilt
PartsAreCloned ==
    \A r \in Repositories \ spoilt : folder[r] = "part" =>
        \E c \in Calls : calls[c].repo = r /\ calls[c].at \in {"fetching", "clean"}
ClonesAreWhole ==
    \A c \in Calls : calls[c].at = "cloned" =>
        folder[calls[c].repo] \in {"created", "whole"} \/ calls[c].repo \in spoilt

BoardInv == OperationTypes /\ Numbered /\ Ended /\ BusyIsWork
DiskInv == Disturbed /\ PartsAreCloned /\ ClonesAreWhole
OperationsInv == BoardInv /\ DiskInv

-----------------------------------------------------------------------------
(* A step of one command                                                     *)

\* A command is a record, so that it is there.
LEMMA CallIsThere == ASSUME RepositoryConstants, NEW k \in Call PROVE k # Null
  BY DEF RepositoryConstants

\* The command c goes on as k.
LEMMA CallGoesOn ==
    ASSUME RepositoryConstants, OperationTypes, NEW c \in Calls,
           NEW k \in Call,
           calls' = [calls EXCEPT ![c] = k]
    PROVE  /\ Calls' = Calls /\ calls'[c] = k /\ calls' \in [1..MaxCalls -> Call \cup {Null}]
           /\ \A d \in Calls \ {c} : calls'[d] = calls[d]
  <1>1. k # Null BY CallIsThere
  <1> QED BY <1>1 DEF OperationTypes, Calls

\* Unless its repository is disturbed, nobody else is at work there.
LEMMA OwnPart ==
    ASSUME DiskInv, NEW c \in Calls, calls[c].repo \in Repositories \ spoilt,
           folder[calls[c].repo] = "part"
    PROVE  calls[c].at \in {"fetching", "clean"}
  BY DEF DiskInv, Disturbed, PartsAreCloned

\* What such a step has to leave on disk.
LEMMA CallKeepsDiskInv ==
    ASSUME RepositoryConstants, OperationTypes, DiskInv, NEW c \in Calls,
           NEW k \in Call,
           calls' = [calls EXCEPT ![c] = k], k.repo = calls[c].repo,
           spoilt \subseteq spoilt',
           \A r \in Repositories \ {k.repo} : folder'[r] = folder[r],
           k.repo \in spoilt' \/
               /\ folder'[k.repo] = "part" => k.at \in {"fetching", "clean"}
               /\ k.at = "cloned" => folder'[k.repo] \in {"created", "whole"}
    PROVE  DiskInv'
  <1>1. /\ Calls' = Calls /\ calls'[c] = k
        /\ \A d \in Calls \ {c} : calls'[d] = calls[d]
    BY CallGoesOn
  <1>2. \A d \in Calls : calls[d].repo \in Repositories /\ calls'[d].repo = calls[d].repo
    BY <1>1 DEF OperationTypes, Calls, Call
  <1>3. Disturbed' BY <1>1, <1>2 DEF DiskInv, Disturbed
  <1>4. ASSUME NEW r \in Repositories \ spoilt', folder'[r] = "part"
        PROVE  \E d \in Calls : calls'[d].repo = r /\ calls'[d].at \in {"fetching", "clean"}
    <2>1. CASE r = k.repo BY <1>1, <1>4, <2>1
    <2>2. CASE r # k.repo
      <3>1. PICK d \in Calls : calls[d].repo = r /\ calls[d].at \in {"fetching", "clean"}
        BY <1>4, <2>2 DEF DiskInv, PartsAreCloned
      <3>2. calls'[d] = calls[d] BY <1>1, <2>2, <3>1
      <3> QED BY <3>1, <3>2
    <2> QED BY <2>1, <2>2
  <1>5. ASSUME NEW d \in Calls, calls'[d].at = "cloned"
        PROVE  folder'[calls'[d].repo] \in {"created", "whole"} \/ calls'[d].repo \in spoilt'
    <2>1. CASE d = c BY <1>1, <1>5, <2>1
    <2>2. CASE d # c /\ calls[d].repo = k.repo BY <1>2, <2>2 DEF DiskInv, Disturbed
    <2>3. CASE d # c /\ calls[d].repo # k.repo
      <3>1. calls'[d] = calls[d] /\ folder'[calls[d].repo] = folder[calls[d].repo]
        BY <1>1, <1>2, <2>3
      <3> QED BY <1>5, <3>1 DEF DiskInv, ClonesAreWhole
    <2> QED BY <2>1, <2>2, <2>3
  <1> QED BY <1>1, <1>3, <1>4, <1>5 DEF DiskInv, PartsAreCloned, ClonesAreWhole

\* Until it is recorded, what a command does changes nothing the board shows as running.
LEMMA CallKeepsBoardInv ==
    ASSUME RepositoryConstants, BoardInv, NEW c \in Calls, NEW k \in Call,
           calls' = [calls EXCEPT ![c] = k], k.repo = calls[c].repo, k.visit = calls[c].visit,
           calls[c].at # "record", k.at # "record",
           UNCHANGED <<operations, visit, visits, started, stored, finished>>,
           folder' \in [Repositories -> Folders]
    PROVE  BoardInv'
  <1>1. /\ Calls' = Calls /\ calls'[c] = k /\ calls' \in [1..MaxCalls -> Call \cup {Null}]
        /\ \A d \in Calls \ {c} : calls'[d] = calls[d]
    BY CallGoesOn DEF BoardInv
  <1>2. OperationTypes' BY <1>1 DEF BoardInv, OperationTypes
  <1>3. Numbered' BY <1>1 DEF BoardInv, Numbered
  <1>4. Ended' BY <1>1 DEF BoardInv, Ended
  <1>5. BusyIsWork'
    <2>1. \A r \in Repositories : OwnWork(r)' = OwnWork(r) /\ Busy(r)' = Busy(r)
      BY <1>1 DEF OwnWork, Here, Busy
    <2> QED BY <2>1 DEF BoardInv, BusyIsWork
  <1> QED BY <1>2, <1>3, <1>4, <1>5 DEF BoardInv

\* Both together.
LEMMA CallKeepsInv ==
    ASSUME RepositoryConstants, OperationsInv, NEW c \in Calls,
           NEW k \in Call,
           calls' = [calls EXCEPT ![c] = k], k.repo = calls[c].repo, k.visit = calls[c].visit,
           calls[c].at # "record", k.at # "record",
           UNCHANGED <<operations, visit, visits, started, stored, finished>>,
           spoilt \subseteq spoilt',
           folder' = folder \/ \E f \in Folders : folder' = [folder EXCEPT ![k.repo] = f],
           k.repo \in spoilt' \/
               /\ folder'[k.repo] = "part" => k.at \in {"fetching", "clean"}
               /\ k.at = "cloned" => folder'[k.repo] \in {"created", "whole"}
    PROVE  OperationsInv'
  <1>1. OperationTypes BY DEF OperationsInv, BoardInv
  <1>2. folder' \in [Repositories -> Folders] BY <1>1 DEF OperationTypes
  <1>3. \A r \in Repositories \ {k.repo} : folder'[r] = folder[r] BY <1>1 DEF OperationTypes
  <1>4. BoardInv' BY <1>2, CallKeepsBoardInv DEF OperationsInv
  <1>5. DiskInv' BY <1>1, <1>3, CallKeepsDiskInv DEF OperationsInv
  <1> QED BY <1>4, <1>5 DEF OperationsInv

-----------------------------------------------------------------------------
(* Native commands and their callers                                         *)

\* Where a command goes, and that it is the same command.
LEMMA Gone ==
    ASSUME OperationTypes, NEW c \in Calls,
           NEW p \in Native \cup Answered \cup {"record"}
    PROVE  \E k \in Call : /\ k.at = p /\ k.repo = calls[c].repo /\ k.visit = calls[c].visit
                                 /\ [calls EXCEPT ![c].at = p] = [calls EXCEPT ![c] = k]
  <1>1. calls[c] \in Call BY DEF OperationTypes, Calls
  <1>2. PICK k \in Call : k = [calls[c] EXCEPT !.at = p] BY <1>1 DEF Call
  <1>3. k.at = p /\ k.repo = calls[c].repo /\ k.visit = calls[c].visit BY <1>1, <1>2 DEF Call
  <1>4. [calls EXCEPT ![c].at = p] = [calls EXCEPT ![c] = k] BY <1>2 DEF OperationTypes, Calls
  <1> QED BY <1>3, <1>4

\* Going on, with what the command leaves at its path.
LEMMA GoKeepsInv ==
    ASSUME RepositoryConstants, OperationsInv, NEW c \in Calls,
           NEW p \in Native \cup Answered,
           Go(c, p), calls[c].at # "record",
           UNCHANGED <<operations, visit, visits, started, stored, finished>>,
           spoilt \subseteq spoilt',
           folder' = folder \/ \E f \in Folders : folder' = [folder EXCEPT ![calls[c].repo] = f],
           calls[c].repo \in spoilt' \/
               /\ folder'[calls[c].repo] = "part" => p \in {"fetching", "clean"}
               /\ p = "cloned" => folder'[calls[c].repo] \in {"created", "whole"}
    PROVE  OperationsInv'
  <1>1. PICK k \in Call : /\ k.at = p /\ k.repo = calls[c].repo /\ k.visit = calls[c].visit
                                /\ [calls EXCEPT ![c].at = p] = [calls EXCEPT ![c] = k]
    <2>1. OperationTypes /\ p \in Native \cup Answered \cup {"record"}
      BY DEF OperationsInv, BoardInv
    <2> QED BY <2>1, Gone
  <1>2. calls' = [calls EXCEPT ![c] = k] /\ k.at # "record" BY <1>1 DEF Go, Native, Answered
  <1> QED BY <1>1, <1>2, CallKeepsInv

\* What is at the path of a repository, and that a part there is one of the clone's.
LEMMA AtPath ==
    ASSUME OperationsInv, NEW c \in Calls
    PROVE  /\ calls[c] \in Call /\ calls[c].repo \in Repositories
           /\ folder \in [Repositories -> Folders] /\ folder[calls[c].repo] \in Folders
           /\ calls[c].repo \in spoilt \/
                 (folder[calls[c].repo] = "part" => calls[c].at \in {"fetching", "clean"})
  <1>1. /\ calls[c] \in Call /\ calls[c].repo \in Repositories
        /\ folder \in [Repositories -> Folders]
    <2>1. calls[c] \in Call /\ folder \in [Repositories -> Folders]
      BY DEF OperationsInv, BoardInv, OperationTypes, Calls
    <2> QED BY <2>1 DEF Call
  <1> QED BY <1>1, OwnPart DEF OperationsInv

\* A clone: a repository of the remote that is there, an attempt, its end, its remains.
LEMMA CloneKeepsInv ==
    ASSUME RepositoryConstants, OperationsInv, NEW c,
           \/ LookForClone(c) \/ CloneBegins(c) \/ CloneEnds(c) \/ CloneFails(c)
    PROVE  OperationsInv'
  <1>1. /\ c \in Calls /\ calls[c].at \in {"look", "attempt", "fetching"}
        /\ UNCHANGED <<operations, visit, visits, started, stored, finished>>
        /\ UNCHANGED spoilt
    BY DEF LookForClone, CloneBegins, CloneEnds, CloneFails, At, NativeOnly
  <1>2. PICK r \in Repositories : r = calls[c].repo BY <1>1, AtPath
  <1>3. /\ folder \in [Repositories -> Folders] /\ folder[r] \in Folders
        /\ r \in spoilt \/ (folder[r] = "part" => calls[c].at \in {"fetching", "clean"})
    BY <1>1, <1>2, AtPath
  <1>4. CASE LookForClone(c)
    <2>1. PICK p \in {"attempt", "cloned", "failed"} :
             /\ p = CASE folder[r] = "none" -> "attempt" [] HasOrigin(folder[r]) -> "cloned"
                      [] OTHER -> "failed"
             /\ Go(c, p)
      BY <1>2, <1>4 DEF LookForClone
    <2>2. UNCHANGED folder /\ calls[c].at = "look" BY <1>4 DEF LookForClone, At
    <2>3. p = "cloned" => folder[r] \in {"created", "part", "whole"} BY <2>1 DEF HasOrigin
    <2>4. p \in Native \cup Answered BY DEF Native, Answered
    <2> QED BY <1>1, <1>2, <1>3, <2>1, <2>2, <2>3, <2>4, GoKeepsInv
  <1>5. CASE CloneBegins(c)
    <2>1. \/ folder' = [folder EXCEPT ![r] = "part"] /\ Go(c, "fetching")
          \/ Go(c, "clean") /\ UNCHANGED folder
      BY <1>2, <1>5 DEF CloneBegins
    <2>2. {"fetching", "clean"} \subseteq Native \cup Answered /\ "part" \in Folders
      BY DEF Native, Folders
    <2> QED BY <1>1, <1>2, <1>3, <2>1, <2>2, GoKeepsInv
  <1>6. CASE CloneEnds(c)
    <2>1. \/ folder' = [folder EXCEPT ![r] = "whole"] /\ Go(c, "cloned")
          \/ Go(c, "clean") /\ UNCHANGED folder
      BY <1>2, <1>6 DEF CloneEnds
    <2>2. {"cloned", "clean"} \subseteq Native \cup Answered /\ "whole" \in Folders
      BY DEF Native, Answered, Folders
    <2> QED BY <1>1, <1>2, <1>3, <2>1, <2>2, GoKeepsInv
  <1>7. CASE CloneFails(c)
    <2>1. Go(c, "clean") /\ UNCHANGED folder /\ "clean" \in Native \cup Answered
      BY <1>7 DEF CloneFails, Native
    <2> QED BY <1>1, <2>1, GoKeepsInv
  <1> QED BY <1>4, <1>5, <1>6, <1>7

\* After a clean-up nothing is left there, or the repository counts as disturbed.
LEMMA CleanUpKeepsInv ==
    ASSUME RepositoryConstants, OperationsInv, NEW c,
           CleanUp(c) \/ CleanUpFails(c)
    PROVE  OperationsInv'
  <1>1. /\ c \in Calls /\ calls[c].at = "clean" /\ AfterCleaning(c)
        /\ UNCHANGED <<operations, visit, visits, started, stored, finished>>
        /\ spoilt \subseteq spoilt'
    BY DEF CleanUp, CleanUpFails, At, NativeOnly
  <1>2. PICK r \in Repositories : r = calls[c].repo BY <1>1, AtPath
  <1>3. /\ calls[c] \in Call /\ folder \in [Repositories -> Folders]
    BY <1>1, AtPath
  <1>4. PICK k \in Call : /\ calls' = [calls EXCEPT ![c] = k]
                                /\ k.at \in {"attempt", "failed"} /\ k.repo = r
                          /\ k.visit = calls[c].visit
    <2>1. CASE calls[c].attempt < 3 /\ calls' = [calls EXCEPT ![c].at = "attempt", ![c].attempt = @ + 1]
      <3>1. calls[c].attempt + 1 \in 1..3 BY <1>3, <2>1 DEF Call
      <3>2. PICK j \in Call : j = [calls[c] EXCEPT !.at = "attempt"] BY <1>3 DEF Call, Native
      <3>3. PICK k \in Call : k = [j EXCEPT !.attempt = calls[c].attempt + 1] BY <3>1 DEF Call
      <3>4. k.at = "attempt" /\ k.repo = calls[c].repo /\ k.visit = calls[c].visit
        BY <1>3, <3>2, <3>3 DEF Call
      <3>5. k = [calls[c] EXCEPT !.at = "attempt", !.attempt = @ + 1] BY <1>3, <3>2, <3>3 DEF Call
      <3>6. calls' = [calls EXCEPT ![c] = k]
        <4>1. calls \in [1..MaxCalls -> Call \cup {Null}] /\ c \in 1..MaxCalls
          BY <1>1 DEF OperationsInv, BoardInv, OperationTypes, Calls
        <4> QED BY <1>3, <2>1, <3>5, <4>1
      <3> QED BY <1>2, <3>4, <3>6
    <2>2. CASE Go(c, "failed")
      <3>1. PICK p \in Native \cup Answered \cup {"record"} : p = "failed" BY DEF Answered
      <3>2. OperationTypes BY DEF OperationsInv, BoardInv
      <3>3. PICK k \in Call : /\ k.at = p /\ k.repo = calls[c].repo /\ k.visit = calls[c].visit
                                    /\ [calls EXCEPT ![c].at = p] = [calls EXCEPT ![c] = k]
        BY <1>1, <3>2, Gone
      <3>4. calls' = [calls EXCEPT ![c].at = p] BY <2>2, <3>1 DEF Go
      <3> QED BY <1>2, <3>1, <3>3, <3>4
    <2> QED BY <1>1, <2>1, <2>2 DEF AfterCleaning
  <1>5. CASE CleanUp(c)
    <2>1. folder' = [folder EXCEPT ![r] = "none"] /\ "none" \in Folders
      BY <1>2, <1>5 DEF CleanUp, Folders
    <2> QED BY <1>1, <1>2, <1>3, <1>4, <2>1, CallKeepsInv
  <1>6. CASE CleanUpFails(c)
    <2>1. UNCHANGED folder /\ r \in spoilt' BY <1>2, <1>6 DEF CleanUpFails
    <2> QED BY <1>1, <1>2, <1>4, <2>1, CallKeepsInv
  <1> QED BY <1>5, <1>6

\* The other commands make no parts and find no clones; nor do their callers.
LEMMA OtherKeepsInv ==
    ASSUME RepositoryConstants, OperationsInv, NEW c,
           \/ Initialize(c) \/ RunRemote(c) \/ LookForPublish(c) \/ PublishStep(c)
           \/ CommandFails(c) \/ Link(c) \/ LinkFails(c) \/ Refresh(c)
    PROVE  OperationsInv'
  <1>1. PICK r : r = calls[c].repo OBVIOUS
  <1>2. /\ c \in Calls /\ calls[c].at \in {"look", "commit", "create", "push", "cloned", "ok"}
        /\ UNCHANGED <<operations, visit, visits, started, stored, finished, spoilt>>
    BY DEF Initialize, RunRemote, LookForPublish, PublishStep, Publish, CommandFails, Link,
      LinkFails, Refresh, At, NativeOnly
  <1>3. /\ r \in Repositories /\ folder \in [Repositories -> Folders] /\ folder[r] \in Folders
        /\ r \in spoilt \/ folder[r] # "part"
    BY <1>1, <1>2, AtPath
  <1>4. PICK p \in {"failed", "ok", "commit", "create", "push", "refreshed"} :
          /\ Go(c, p)
          /\ \/ folder' = folder
             \/ \E f \in Folders \ {"part"} : folder' = [folder EXCEPT ![r] = f]
    <2> USE <1>1, <1>3 DEF Folders
    <2>1. CASE Initialize(c) BY <2>1 DEF Initialize
    <2>2. CASE RunRemote(c) /\ HasOrigin(folder[r])
      <3>1. \/ folder' = folder
            \/ folder' = [folder EXCEPT ![r] = IF folder[r] = "created" THEN "whole" ELSE folder[r]]
        BY <2>2 DEF RunRemote
      <3>2. \/ folder' = folder
            \/ folder' = [folder EXCEPT ![r] = "whole"]
        BY <3>1
      <3>3. Go(c, "ok") BY <2>2 DEF RunRemote
      <3> QED BY <3>2, <3>3
    <2>3. CASE RunRemote(c) /\ ~HasOrigin(folder[r]) BY <2>3 DEF RunRemote
    <2>4. CASE LookForPublish(c) BY <2>4 DEF LookForPublish
    <2>5. CASE PublishStep(c) BY <2>5 DEF PublishStep, Publish
    <2>6. CASE CommandFails(c) \/ Link(c) \/ LinkFails(c) \/ Refresh(c)
      BY <2>6 DEF CommandFails, Link, LinkFails, Refresh
    <2> QED BY <2>1, <2>2, <2>3, <2>4, <2>5, <2>6
  <1>5. p \in Native \cup Answered /\ p \notin {"fetching", "clean", "cloned", "record"}
    BY DEF Native, Answered
  <1>6. r \in spoilt' \/ folder'[r] # "part" BY <1>2, <1>3, <1>4
  <1>7. folder' = folder \/ \E f \in Folders : folder' = [folder EXCEPT ![r] = f] BY <1>4
  <1> QED BY <1>1, <1>2, <1>4, <1>5, <1>6, <1>7, GoKeepsInv

-----------------------------------------------------------------------------
(* The ends of a command                                                     *)

\* A command ends on the board that began it, which then shows nothing running there, as
\* it was the only one of that board on that repository.
LEMMA FinishKeepsInv ==
    ASSUME RepositoryConstants, OperationsInv, NEW c, Finish(c)
    PROVE  OperationsInv'
  <1>1. /\ c \in Calls /\ calls[c].at \in {"refreshed", "failed"} /\ calls[c] \in Call
        /\ c \in 1..MaxCalls
        /\ UNCHANGED <<folder, visit, visits, started, stored, spoilt>>
        /\ finished' = finished + 1
    BY DEF Finish, Calls, OperationsInv, BoardInv, OperationTypes
  <1>2. PICK ended : ended = [by |-> c, at |-> finished',
                              state |-> IF calls[c].at = "failed" THEN "failed" ELSE "succeeded"]
    OBVIOUS
  <1>3. OperationTypes /\ DiskInv BY DEF OperationsInv, BoardInv
  <1>4. ended \in Operation /\ ended.state # "running" /\ ended # Null
    <2>1. finished' \in Nat BY <1>1, <1>3 DEF OperationTypes
    <2>2. ended \in Operation /\ ended.state # "running" BY <1>1, <1>2, <2>1 DEF Operation
    <2> QED BY <2>2 DEF RepositoryConstants
  <1>5. PICK j \in Call : j = [calls[c] EXCEPT !.at = "record"] BY <1>1 DEF Call
  <1>6. PICK k \in Call : k = [j EXCEPT !.ends = ended] BY <1>4 DEF Call
  <1>7. /\ k.at = "record" /\ k.repo = calls[c].repo /\ k.visit = calls[c].visit /\ k.ends = ended
        /\ k = [calls[c] EXCEPT !.at = "record", !.ends = ended]
    BY <1>1, <1>5, <1>6 DEF Call
  <1>8. calls' = [calls EXCEPT ![c] = k] BY <1>2, <1>3, <1>7 DEF Finish, OperationTypes
  <1>9. operations' = IF Here(c) THEN [operations EXCEPT ![k.repo] = ended] ELSE operations
    BY <1>2, <1>7 DEF Finish
  <1>10. k.repo \in Repositories /\ (k.repo \in spoilt \/ folder[k.repo] # "part")
    BY <1>1, <1>7, AtPath
  <1>11. DiskInv' BY <1>1, <1>3, <1>7, <1>8, <1>10, CallKeepsDiskInv
  <1>12. /\ Calls' = Calls /\ calls'[c] = k /\ calls' \in [1..MaxCalls -> Call \cup {Null}]
         /\ \A d \in Calls \ {c} : calls'[d] = calls[d]
    BY <1>1, <1>3, <1>8, CallGoesOn
  <1>13. OperationTypes'
    <2>1. finished' \in Nat BY <1>1, <1>3 DEF OperationTypes
    <2>2. operations' \in [Repositories -> Operation \cup {Null}]
      BY <1>3, <1>4, <1>9, <1>10 DEF OperationTypes
    <2> QED BY <1>1, <1>3, <1>12, <2>1, <2>2 DEF OperationTypes
  <1>14. Numbered'
    <2>1. Numbered /\ (Here(c) => visit # 0) BY <1>1 DEF OperationsInv, BoardInv, Here, Call
    <2> QED BY <1>1, <1>7, <1>9, <1>12, <2>1 DEF Numbered
  <1>15. Ended'
    <2>1. Ended BY DEF OperationsInv, BoardInv
    <2>2. ASSUME NEW d \in Calls, calls'[d].at = "record"
          PROVE  calls'[d].ends # Null /\ calls'[d].ends.state # "running"
      <3>1. CASE d = c BY <1>4, <1>7, <1>12, <3>1
      <3>2. CASE d # c BY <1>12, <2>1, <2>2, <3>2 DEF Ended
      <3> QED BY <3>1, <3>2
    <2> QED BY <1>1, <1>12, <2>1, <2>2 DEF Ended
  <1>16. BusyIsWork'
    <2> SUFFICES ASSUME visit # 0, NEW r \in Repositories
                 PROVE  (OwnWork(r))' = (IF Busy(r) THEN {operations[r].by} ELSE {})'
      BY <1>1 DEF BusyIsWork
    <2>1. OwnWork(r) = IF Busy(r) THEN {operations[r].by} ELSE {}
      BY DEF OperationsInv, BoardInv, BusyIsWork
    <2>2. OwnWork(r)' = OwnWork(r) \ {c}
      <3>1. \A d \in Calls \ {c} : calls'[d] = calls[d] /\ Here(d)' = Here(d)
        BY <1>1, <1>12 DEF Here
      <3>2. calls'[c].at = "record" BY <1>7, <1>12
      <3>3. OwnWork(r)' \subseteq OwnWork(r) \ {c} BY <1>12, <3>1, <3>2 DEF OwnWork
      <3>4. OwnWork(r) \ {c} \subseteq OwnWork(r)' BY <1>12, <3>1 DEF OwnWork
      <3> QED BY <3>3, <3>4
    <2>3. CASE Here(c) /\ r = k.repo
      <3>1. c \in OwnWork(r) BY <1>1, <1>7, <2>3 DEF OwnWork
      <3>2. ~Busy(r)' BY <1>3, <1>4, <1>9, <2>3 DEF Busy, OperationTypes
      <3> QED BY <2>1, <2>2, <3>1, <3>2
    <2>4. CASE ~(Here(c) /\ r = k.repo)
      <3>1. c \notin OwnWork(r) BY <1>7, <2>4 DEF OwnWork
      <3>2. operations'[r] = operations[r] BY <1>3, <1>9, <2>4 DEF OperationTypes
      <3>3. Busy(r)' = Busy(r) BY <3>2 DEF Busy
      <3> QED BY <2>1, <2>2, <3>1, <3>2, <3>3
    <2> QED BY <2>3, <2>4
  <1> QED BY <1>11, <1>13, <1>14, <1>15, <1>16 DEF OperationsInv, BoardInv

\* What is recorded is not running any more.
LEMMA RecordKeepsInv ==
    ASSUME RepositoryConstants, OperationsInv, NEW c,
           Record(c) \/ RecordFails(c)
    PROVE  OperationsInv'
  <1>1. /\ c \in Calls /\ calls[c].at = "record" /\ calls[c] \in Call
        /\ calls' = [calls EXCEPT ![c] = Null]
        /\ UNCHANGED <<folder, operations, visit, visits, started, finished, spoilt>>
    BY DEF Record, RecordFails, At, Calls, OperationsInv, BoardInv, OperationTypes
  <1>2. OperationTypes /\ DiskInv /\ Numbered /\ Ended /\ BusyIsWork BY DEF OperationsInv, BoardInv
  <1>3. /\ Calls' = Calls \ {c} /\ \A d \in Calls \ {c} : calls'[d] = calls[d]
        /\ calls' \in [1..MaxCalls -> Call \cup {Null}]
    BY <1>1, <1>2 DEF OperationTypes, Calls
  <1>4. /\ stored' \in [Repositories -> Operation \cup {Null}]
        /\ \A r \in Repositories : stored'[r] # Null => stored'[r].state # "running"
    <2>1. calls[c].ends # Null /\ calls[c].ends.state # "running" /\ calls[c].repo \in Repositories
      BY <1>1, <1>2 DEF Ended, Call
    <2>2. calls[c].ends \in Operation BY <1>1, <2>1 DEF Call
    <2>3. stored' = stored \/ stored' = [stored EXCEPT ![calls[c].repo] = calls[c].ends]
      BY DEF Record, RecordFails
    <2> QED BY <1>2, <2>1, <2>2, <2>3 DEF OperationTypes, Ended
  <1>5. OperationTypes' BY <1>1, <1>2, <1>3, <1>4 DEF OperationTypes
  <1>6. Numbered' BY <1>1, <1>2, <1>3 DEF Numbered
  <1>7. Ended' BY <1>1, <1>2, <1>3, <1>4 DEF Ended
  <1>8. BusyIsWork'
    <2>1. \A r \in Repositories : OwnWork(r)' = OwnWork(r) /\ Busy(r)' = Busy(r)
      BY <1>1, <1>3 DEF OwnWork, Here, Busy
    <2> QED BY <1>1, <1>2, <2>1 DEF BusyIsWork
  <1>9. Disturbed' /\ ClonesAreWhole' BY <1>1, <1>2, <1>3 DEF DiskInv, Disturbed, ClonesAreWhole
  <1>10. PartsAreCloned'
    <2> SUFFICES ASSUME NEW r \in Repositories \ spoilt, folder[r] = "part"
                 PROVE  \E d \in Calls' : calls'[d].repo = r /\ calls'[d].at \in {"fetching", "clean"}
      BY <1>1 DEF PartsAreCloned
    <2>1. PICK d \in Calls : calls[d].repo = r /\ calls[d].at \in {"fetching", "clean"}
      BY <1>2 DEF DiskInv, PartsAreCloned
    <2>2. d # c BY <1>1, <2>1
    <2> QED BY <1>3, <2>1, <2>2
  <1> QED BY <1>5, <1>6, <1>7, <1>8, <1>9, <1>10 DEF OperationsInv, BoardInv, DiskInv

-----------------------------------------------------------------------------
(* The board, users and deaths                                               *)

\* A command starts where nothing runs, under a number of its own; another command on
\* its repository, a former view's, disturbs it.
LEMMA StartKeepsInv ==
    ASSUME RepositoryConstants, OperationsInv, NEW r \in Repositories,
           NEW name \in CommandNames,
           Start(r, name)
    PROVE  OperationsInv'
  <1>1. OperationTypes /\ DiskInv /\ Numbered /\ Ended /\ BusyIsWork BY DEF OperationsInv, BoardInv
  <1>2. /\ UNCHANGED <<folder, visit, visits, stored, finished>> /\ visit # 0 /\ ~Busy(r)
        /\ started' = started + 1 /\ started < MaxCalls
        /\ spoilt' = IF \E c \in Calls : calls[c].repo = r THEN spoilt \cup {r} ELSE spoilt
    BY DEF Start
  <1>3. PICK n : n = started + 1 OBVIOUS
  <1>4. n \in 1..MaxCalls /\ n \notin Calls /\ started' \in 0..MaxCalls /\ started' = n
    <2>1. started \in 0..MaxCalls /\ MaxCalls \in Nat
      BY <1>1 DEF OperationTypes, RepositoryConstants
    <2> QED BY <1>1, <1>2, <1>3, <2>1 DEF Numbered
  <1>5. PICK k : k = [repo |-> r, name |-> name, visit |-> visit, attempt |-> 1, at |-> "look",
                      ends |-> Null]
    OBVIOUS
  <1>6. k \in Call /\ k # Null /\ k.repo = r /\ k.visit = visit /\ k.at = "look"
    <2>1. visit \in 1..MaxVisits /\ 1 \in 1..3 BY <1>1, <1>2 DEF OperationTypes, RepositoryConstants
    <2>2. k \in Call BY <1>5, <2>1 DEF Call, Native
    <2> QED BY <1>5, <2>2, CallIsThere
  <1>7. PICK o : o = [by |-> n, state |-> "running", at |-> 0] OBVIOUS
  <1>8. o \in Operation /\ o # Null /\ o.state = "running" /\ o.by = n
    <2>1. o \in Operation BY <1>4, <1>7 DEF Operation
    <2> QED BY <1>7, <2>1 DEF RepositoryConstants
  <1>9. calls' = [calls EXCEPT ![n] = k] /\ operations' = [operations EXCEPT ![r] = o]
    BY <1>4, <1>5, <1>7 DEF Start
  <1>10. /\ Calls' = Calls \cup {n} /\ calls'[n] = k
         /\ \A d \in Calls : calls'[d] = calls[d]
         /\ calls' \in [1..MaxCalls -> Call \cup {Null}]
         /\ operations' \in [Repositories -> Operation \cup {Null}]
         /\ operations'[r] = o /\ \A q \in Repositories \ {r} : operations'[q] = operations[q]
    BY <1>1, <1>4, <1>6, <1>8, <1>9 DEF OperationTypes, Calls
  <1>11. OperationTypes' BY <1>1, <1>2, <1>4, <1>10 DEF OperationTypes
  <1>12. Numbered'
    <2>1. visit = visits /\ visits \in Nat /\ started \in Nat
      BY <1>1, <1>2 DEF Numbered, OperationTypes, RepositoryConstants
    <2>2. \A d \in Calls : d \in Nat /\ d <= started /\ calls[d].visit <= visits
      BY <1>1 DEF Numbered, Calls
    <2>3. \A d \in Calls' : d <= started' /\ calls'[d].visit <= visits
      BY <1>3, <1>4, <1>6, <1>10, <2>1, <2>2
    <2> QED BY <1>2, <2>1, <2>3 DEF Numbered
  <1>13. Ended' BY <1>1, <1>2, <1>6, <1>10 DEF Ended
  <1>14. BusyIsWork'
    <2> SUFFICES ASSUME NEW q \in Repositories
                 PROVE  (OwnWork(q))' = (IF Busy(q) THEN {operations[q].by} ELSE {})'
      BY DEF BusyIsWork
    <2>1. OwnWork(q) = IF Busy(q) THEN {operations[q].by} ELSE {} BY <1>1, <1>2 DEF BusyIsWork
    <2>2. \A d \in Calls : d # n /\ calls'[d] = calls[d] /\ Here(d)' = Here(d)
      BY <1>2, <1>4, <1>10 DEF Here
    <2>3. CASE q = r
      <3>1. OwnWork(q) = {} BY <1>2, <2>1, <2>3
      <3>2. Here(n)' /\ calls'[n].at # "record" /\ calls'[n].repo = r BY <1>2, <1>6, <1>10 DEF Here
      <3>3. OwnWork(q)' = {n} BY <1>10, <2>2, <2>3, <3>1, <3>2 DEF OwnWork
      <3>4. Busy(q)' /\ operations'[q].by = n BY <1>8, <1>10, <2>3 DEF Busy
      <3> QED BY <3>3, <3>4
    <2>4. CASE q # r
      <3>1. calls'[n].repo # q BY <1>6, <1>10, <2>4
      <3>2. OwnWork(q)' = OwnWork(q) BY <1>10, <2>2, <3>1 DEF OwnWork
      <3>3. operations'[q] = operations[q] BY <1>10, <2>4
      <3> QED BY <2>1, <3>2, <3>3 DEF Busy
    <2> QED BY <2>3, <2>4
  <1>15. Disturbed'
    <2> SUFFICES ASSUME NEW c \in Calls', NEW d \in Calls', c # d,
    calls'[c].repo = calls'[d].repo
                 PROVE  calls'[c].repo \in spoilt'
      BY DEF Disturbed
    <2>1. CASE c \in Calls /\ d \in Calls
      <3>1. calls[c].repo = calls[d].repo /\ calls'[c].repo = calls[c].repo BY <1>10, <2>1
      <3> QED BY <1>1, <1>2, <2>1, <3>1 DEF DiskInv, Disturbed
    <2>2. CASE c = n \/ d = n
      <3>1. PICK e \in Calls : calls[e].repo = r /\ calls'[c].repo = r BY <1>6, <1>10, <2>2
      <3> QED BY <1>2, <3>1
    <2> QED BY <1>10, <2>1, <2>2
  <1>16. PartsAreCloned'
    <2> SUFFICES ASSUME NEW q \in Repositories \ spoilt', folder[q] = "part"
                 PROVE  \E d \in Calls' : calls'[d].repo = q /\ calls'[d].at \in {"fetching", "clean"}
      BY <1>2 DEF PartsAreCloned
    <2>1. PICK d \in Calls : calls[d].repo = q /\ calls[d].at \in {"fetching", "clean"}
      BY <1>1, <1>2 DEF DiskInv, PartsAreCloned
    <2> QED BY <1>10, <2>1
  <1>17. ClonesAreWhole' BY <1>1, <1>2, <1>6, <1>10 DEF DiskInv, ClonesAreWhole
  <1> QED BY <1>11, <1>12, <1>13, <1>14, <1>15, <1>16, <1>17 DEF OperationsInv, BoardInv,
  DiskInv

\* Leaving forgets what runs, and a new view has started nothing.
LEMMA ViewsKeepInv ==
    ASSUME RepositoryConstants, OperationsInv, Leave \/ Enter
    PROVE  OperationsInv'
  <1>1. OperationTypes /\ DiskInv /\ Numbered /\ Ended /\ BusyIsWork BY DEF OperationsInv, BoardInv
  <1>2. /\ UNCHANGED <<folder, calls, started, stored, finished, spoilt>>
        /\ Calls' = Calls
    BY DEF Leave, Enter, Calls
  <1>3. DiskInv' BY <1>1, <1>2 DEF DiskInv, Disturbed, PartsAreCloned, ClonesAreWhole
  <1>4. Ended' BY <1>1, <1>2 DEF Ended
  <1>5. CASE Leave
    <2>1. /\ visit' = 0 /\ UNCHANGED visits /\ operations' = [r \in Repositories |-> Null]
      BY <1>5 DEF Leave
    <2>2. OperationTypes' BY <1>1, <1>2, <2>1 DEF OperationTypes, RepositoryConstants
    <2>3. Numbered' /\ BusyIsWork' BY <1>1, <1>2, <2>1 DEF Numbered, BusyIsWork
    <2> QED BY <1>3, <1>4, <2>2, <2>3 DEF OperationsInv, BoardInv
  <1>6. CASE Enter
    <2>1. /\ visits' = visits + 1 /\ visit' = visits' /\ UNCHANGED operations
          /\ operations = [r \in Repositories |-> Null]
          /\ visits < MaxVisits
      BY <1>1, <1>6 DEF Enter, Numbered
    <2>2. visits \in 0..MaxVisits /\ MaxVisits \in Nat
      BY <1>1 DEF OperationTypes, RepositoryConstants
    <2>3. visits' \in 0..MaxVisits /\ visit' # 0 BY <2>1, <2>2
    <2>4. OperationTypes' BY <1>1, <1>2, <2>1, <2>3 DEF OperationTypes
    <2>5. \A c \in Calls : calls[c].visit \in Nat /\ calls[c].visit < visit'
      <3>1. \A c \in Calls : calls[c].visit \in 1..MaxVisits /\ calls[c].visit <= visits
        BY <1>1 DEF Numbered, OperationTypes, Calls, Call
      <3> QED BY <2>1, <2>2, <3>1
    <2>6. Numbered' BY <1>1, <1>2, <2>1, <2>2, <2>3, <2>5 DEF Numbered
    <2>7. BusyIsWork'
      <3>1. \A c \in Calls : ~Here(c)' BY <1>2, <2>5 DEF Here
      <3>2. \A r \in Repositories : OwnWork(r)' = {} /\ ~Busy(r)'
        BY <1>2, <2>1, <3>1 DEF OwnWork, Busy
      <3> QED BY <3>2 DEF BusyIsWork
    <2> QED BY <1>3, <1>4, <2>4, <2>6, <2>7 DEF OperationsInv, BoardInv
  <1> QED BY <1>5, <1>6

\* A history fills in what has ended, and takes the place of nothing that runs.
LEMMA HistoryKeepsInv ==
    ASSUME RepositoryConstants, OperationsInv, HistoryRead
    PROVE  OperationsInv'
  <1>1. OperationTypes /\ DiskInv /\ Numbered /\ Ended /\ BusyIsWork BY DEF OperationsInv, BoardInv
  <1>2. /\ UNCHANGED <<folder, visit, visits, calls, started, stored, finished, spoilt>>
        /\ visit # 0 /\ Calls' = Calls
    BY DEF HistoryRead, Calls
  <1>3. \/ operations' = operations
        \/ operations' = [r \in Repositories |->
                             IF operations[r] = Null THEN stored[r] ELSE operations[r]]
    BY DEF HistoryRead
  <1>4. OperationTypes' BY <1>1, <1>2, <1>3 DEF OperationTypes
  <1>5. \A r \in Repositories :
           /\ Busy(r)' = Busy(r)
           /\ Busy(r) => operations'[r] = operations[r]
    BY <1>1, <1>3 DEF Busy, Ended
  <1>6. BusyIsWork'
    <2>1. \A r \in Repositories : OwnWork(r)' = OwnWork(r) BY <1>2 DEF OwnWork, Here
    <2> QED BY <1>1, <1>2, <1>5, <2>1 DEF BusyIsWork
  <1>7. Numbered' /\ Ended' /\ DiskInv'
    BY <1>1, <1>2 DEF Numbered, Ended, DiskInv, Disturbed, PartsAreCloned, ClonesAreWhole
  <1> QED BY <1>4, <1>6, <1>7 DEF OperationsInv, BoardInv

\* What the board reads besides matters to no command.
LEMMA NothingKeepsInv ==
    ASSUME OperationsInv,
           UNCHANGED <<folder, operations, visit, visits, calls, started, stored, finished, spoilt>>
    PROVE  OperationsInv'
  BY DEF OperationsInv, BoardInv, OperationTypes, Numbered, Ended, BusyIsWork, OwnWork, Here, Busy,
    Calls, DiskInv, Disturbed, PartsAreCloned, ClonesAreWhole

\* A user who removes a folder disturbs the command at work on it.
LEMMA RemovalKeepsInv ==
    ASSUME RepositoryConstants, OperationsInv, NEW r \in Repositories,
           RemoveFolder(r)
    PROVE  OperationsInv'
  <1>1. OperationTypes /\ DiskInv /\ Numbered /\ Ended /\ BusyIsWork BY DEF OperationsInv, BoardInv
  <1>2. /\ UNCHANGED <<operations, visit, visits, calls, started, stored, finished>>
        /\ folder' = [folder EXCEPT ![r] = "none"]
        /\ spoilt' = IF \E c \in Calls : calls[c].repo = r THEN spoilt \cup {r} ELSE spoilt
        /\ Calls' = Calls
    BY DEF RemoveFolder, Calls
  <1>3. OperationTypes' /\ \A q \in Repositories : folder'[q] = IF q = r THEN "none" ELSE folder[q]
    BY <1>1, <1>2 DEF OperationTypes, Folders
  <1>4. Numbered' /\ Ended' /\ BusyIsWork'
    BY <1>1, <1>2 DEF Numbered, Ended, BusyIsWork, OwnWork, Here, Busy
  <1>5. Disturbed' BY <1>1, <1>2 DEF DiskInv, Disturbed
  <1>6. PartsAreCloned' BY <1>1, <1>2, <1>3 DEF DiskInv, PartsAreCloned
  <1>7. ClonesAreWhole'
    <2> SUFFICES ASSUME NEW c \in Calls, calls[c].at = "cloned",
    calls[c].repo \notin spoilt'
                 PROVE  folder'[calls[c].repo] \in {"created", "whole"}
      BY <1>2 DEF ClonesAreWhole
    <2>1. calls[c].repo # r /\ calls[c].repo \notin spoilt BY <1>2
    <2>2. calls[c].repo \in Repositories BY AtPath
    <2> QED BY <1>1, <1>3, <2>1, <2>2 DEF DiskInv, ClonesAreWhole
  <1> QED BY <1>3, <1>4, <1>5, <1>6, <1>7 DEF OperationsInv, BoardInv, DiskInv

\* Nothing runs after a death, and every part of a clone is one that broke off.
LEMMA DeathKeepsInv ==
    ASSUME RepositoryConstants, OperationsInv, Die
    PROVE  OperationsInv'
  <1>1. OperationTypes /\ Numbered /\ Ended BY DEF OperationsInv, BoardInv
  <1>2. /\ UNCHANGED <<folder, visits, started, stored, finished>> /\ visit' = 0
        /\ calls' = [c \in 1..MaxCalls |-> Null]
        /\ operations' = [r \in Repositories |-> Null]
        /\ spoilt' = spoilt \cup {r \in Repositories : folder[r] = "part"}
    BY DEF Die
  <1>3. Calls' = {} BY <1>2 DEF Calls
  <1>4. OperationTypes' BY <1>1, <1>2 DEF OperationTypes, RepositoryConstants
  <1>5. Numbered' /\ Ended' /\ BusyIsWork' BY <1>1, <1>2, <1>3 DEF Numbered, Ended, BusyIsWork
  <1>6. DiskInv' BY <1>2, <1>3 DEF DiskInv, Disturbed, PartsAreCloned, ClonesAreWhole
  <1> QED BY <1>4, <1>5, <1>6 DEF OperationsInv, BoardInv

-----------------------------------------------------------------------------
(* The theorems                                                              *)

LEMMA InitOperationsInv == RepositoryConstants /\ BoardInit => OperationsInv
  <1> SUFFICES ASSUME RepositoryConstants, BoardInit PROVE OperationsInv OBVIOUS
  <1>1. Calls = {} BY DEF BoardInit, Calls
  <1>2. OperationTypes BY DEF BoardInit, OperationTypes, RepositoryConstants, Folders
  <1>3. Numbered /\ Ended /\ BusyIsWork BY <1>1 DEF BoardInit, Numbered, Ended, BusyIsWork
  <1>4. DiskInv BY <1>1 DEF BoardInit, DiskInv, Disturbed, PartsAreCloned, ClonesAreWhole
  <1> QED BY <1>2, <1>3, <1>4 DEF OperationsInv, BoardInv

LEMMA NextOperationsInv ==
    RepositoryConstants /\ OperationsInv /\ [BoardNext]_boardVars => OperationsInv'
  <1> SUFFICES ASSUME RepositoryConstants, OperationsInv,
  [BoardNext]_boardVars PROVE OperationsInv'
    OBVIOUS
  <1>1. CASE Progress
    <2>1. CASE RegistryRead BY <2>1, NothingKeepsInv DEF RegistryRead
    <2>2. CASE HistoryRead BY <2>2, HistoryKeepsInv
    <2>3. ASSUME NEW c \in 1..MaxCalls,
                 \/ LookForClone(c) \/ CloneBegins(c) \/ CloneEnds(c) \/ CleanUp(c)
                 \/ Initialize(c) \/ RunRemote(c) \/ LookForPublish(c) \/ PublishStep(c)
                 \/ Link(c) \/ Refresh(c) \/ Finish(c) \/ Record(c)
          PROVE  OperationsInv'
      BY <2>3, CloneKeepsInv, CleanUpKeepsInv, OtherKeepsInv, FinishKeepsInv, RecordKeepsInv
    <2> QED BY <1>1, <2>1, <2>2, <2>3 DEF Progress
  <1>2. CASE Leave \/ Enter BY <1>2, ViewsKeepInv
  <1>3. CASE HistoryFails BY <1>3, NothingKeepsInv DEF HistoryFails
  <1>4. CASE Die BY <1>4, DeathKeepsInv
  <1>5. ASSUME NEW r \in Repositories,
               Inspected(r) \/ RemoveFolder(r) \/ \E name \in CommandNames : Start(r, name)
        PROVE  OperationsInv'
    <2>1. CASE Inspected(r) BY <2>1, NothingKeepsInv DEF Inspected
    <2> QED BY <1>5, <2>1, RemovalKeepsInv, StartKeepsInv
  <1>6. ASSUME NEW c \in 1..MaxCalls,
               \/ CloneFails(c) \/ CleanUpFails(c) \/ CommandFails(c)
               \/ LinkFails(c) \/ RecordFails(c)
        PROVE  OperationsInv'
    BY <1>6, CloneKeepsInv, CleanUpKeepsInv, OtherKeepsInv, RecordKeepsInv
  <1>7. CASE UNCHANGED boardVars BY <1>7, NothingKeepsInv DEF boardVars
  <1> QED BY <1>1, <1>2, <1>3, <1>4, <1>5, <1>6, <1>7 DEF BoardNext

LEMMA OperationsInvAlways == ASSUME RepositoryConstants PROVE BoardSpec => []OperationsInv
  <1>1. BoardInit => OperationsInv BY InitOperationsInv
  <1>2. OperationsInv /\ [BoardNext]_boardVars => OperationsInv' BY NextOperationsInv
  <1> QED BY <1>1, <1>2, PTL DEF BoardSpec

\* A board shows an operation as running exactly while its one command of that repository
\* is under way, over any number of views, commands and repositories, whatever ends late,
\* fails or dies (ProjectBoardSurface, its running operations and their history).
THEOREM BusyBoardsWork == ASSUME RepositoryConstants PROVE BoardSpec => []BusyIsWork
  <1>1. OperationsInv => BusyIsWork BY DEF OperationsInv, BoardInv
  <1> QED BY <1>1, OperationsInvAlways, PTL

\* What is linked as the clone of a remote is a whole one, after any attempts, failures
\* and clean-ups, unless something else disturbed the command (clone_project_repository).
THEOREM ClonesLinkedAreWhole ==
    ASSUME RepositoryConstants PROVE BoardSpec => LinkedClonesAreWhole
  <1>1. ASSUME OperationsInv, NEW c \in 1..MaxCalls, At(c, "cloned")
        PROVE  folder[calls[c].repo] \in {"created", "whole"} \/ calls[c].repo \in spoilt
    BY <1>1 DEF OperationsInv, DiskInv, ClonesAreWhole, At
  <1>2. OperationsInv =>
          [\A c \in 1..MaxCalls :
              At(c, "cloned") /\ At(c, "ok")'
                  => \/ folder[calls[c].repo] \in {"created", "whole"}
                     \/ calls[c].repo \in spoilt]_boardVars
    BY <1>1
  <1> QED BY <1>2, OperationsInvAlways, PTL DEF LinkedClonesAreWhole

-----------------------------------------------------------------------------
(* The least and the greatest of a set of runs. *)

LEMMA SmallestThereIs ==
    ASSUME NEW n \in Nat, NEW S, S \subseteq 0..n, S # {}
    PROVE  \E m \in S : \A x \in S : m <= x
  <1> DEFINE N == 0..n
  <1> DEFINE T == {0..x : x \in S}
  <1>1. T # {} /\ T \subseteq SUBSET N
    <2>1. \A x \in S : 0..x \subseteq N OBVIOUS
    <2>2. PICK x \in S : TRUE OBVIOUS
    <2>3. 0..x \in T BY <2>2
    <2> HIDE DEF N
    <2> QED BY <2>1, <2>3
  <1>2. IsWellFoundedOn(StrictSubsetOrdering(N), SUBSET N)
    <2>1. IsFiniteSet(N) BY FS_Interval
    <2> HIDE DEF N
    <2>2. \A t \in SUBSET N : IsFiniteSet(t) BY <2>1, FS_Subset
    <2>3. FiniteSubsetsOf(N) = SUBSET N BY <2>2 DEF FiniteSubsetsOf
    <2> QED BY <2>3, FS_StrictSubsetOrderingWellFounded
  <1>3. PICK t \in T : \A r \in T : <<r, t>> \notin StrictSubsetOrdering(N)
    <2> HIDE DEF T, N
    <2> QED BY <1>1, <1>2, WFMin
  <1>4. PICK m \in S : t = 0..m OBVIOUS
  <1>5. ASSUME NEW x \in S, x < m PROVE FALSE
    <2>1. 0..x \in T /\ 0..x \subseteq N /\ 0..m \subseteq N BY <1>1
    <2>2. 0..x \subseteq 0..m /\ 0..x # 0..m BY <1>5
    <2>3. <<0..x, t>> \in StrictSubsetOrdering(N) BY <1>4, <2>1, <2>2 DEF StrictSubsetOrdering
    <2> QED BY <1>3, <2>1, <2>3
  <1> QED BY <1>5

\* The operators of the library are the same inside the instance.
LEMMA SameMin == ASSUME NEW S PROVE Tasks!Min(S) = Min(S)
  BY DEF Tasks!Min, Min

LEMMA SameMax == ASSUME NEW S PROVE Tasks!Max(S) = Max(S)
  BY DEF Tasks!Max, Max

LEMMA SameCardinality == ASSUME NEW S PROVE Tasks!Cardinality(S) = Cardinality(S)
  BY DEF Tasks!Cardinality, Cardinality

LEMMA MinIsLeast ==
    ASSUME NEW n \in Nat, NEW S, S \subseteq 1..n, S # {}
    PROVE  Min(S) \in S /\ Min(S) \in 1..n
  <1>1. \E m \in S : \A x \in S : m <= x
    <2>1. S \subseteq 0..n OBVIOUS
    <2> QED BY <2>1, SmallestThereIs
  <1> QED BY <1>1 DEF Min

LEMMA MaxIsIn ==
    ASSUME NEW n \in Nat, NEW S, S \subseteq 0..n, S # {}
    PROVE  Max(S) \in S
  <1> DEFINE T == {n - x : x \in S}
  <1>1. T \subseteq 0..n /\ T # {}
    <2>1. \A x \in S : n - x \in 0..n OBVIOUS
    <2>2. PICK x \in S : TRUE OBVIOUS
    <2>3. n - x \in T BY <2>2
    <2> QED BY <2>1, <2>3
  <1>2. \E m \in T : \A x \in T : m <= x
    <2> HIDE DEF T
    <2> QED BY <1>1, SmallestThereIs
  <1>3. PICK k \in S : \A x \in S : n - k <= n - x
    <2>1. PICK m \in T : \A x \in T : m <= x BY <1>2
    <2>2. PICK k \in S : m = n - k BY <2>1
    <2> QED BY <2>1, <2>2
  <1>4. \A x \in S : k >= x BY <1>3
  <1> QED BY <1>4 DEF Max

\* The newest of some runs is none or one of them.
LEMMA LatestIsOne ==
    ASSUME NEW n \in Nat, NEW p, NEW R, R \subseteq 1..n
    PROVE  /\ Tasks!Latest(p, R) \in 0..n
           /\ Tasks!Latest(p, R) # 0 => Tasks!Latest(p, R) \in R
  <1> DEFINE S == {0} \cup {r \in R : run[r].repo = p}
  <1>1. S \subseteq 0..n /\ S # {} /\ \A x \in S : x # 0 => x \in R
    <2>1. R \subseteq 0..n /\ 0 \in 0..n /\ 0 \in S OBVIOUS
    <2>2. S \subseteq {0} \cup R OBVIOUS
    <2> HIDE DEF S
    <2> QED BY <2>1, <2>2
  <1>2. Max(S) \in S
    <2> HIDE DEF S
    <2> QED BY <1>1, MaxIsIn
  <1> QED BY <1>1, <1>2, SameMax DEF Tasks!Latest

-----------------------------------------------------------------------------
(* TaskTypes *)

SeenRecords == [state : {"absent", "unreadable"} \cup Tasks!States, pid : BOOLEAN, stamp : Nat]
ReadPhases == {"none", "asked", "scan", "reread", "unlisted", "answered", "failed"}
Items == [state : {"none", "queued", "skipped", "launching", "reading", "sleeping",
                   "succeeded", "failed"},
          run : 0..MaxRuns, attempts : 0..MaxAttempts]
Launches == [phase : {"none", "asked", "answered"}, repo : Repos, server : BOOLEAN, run : 0..MaxRuns]
RunSets == SUBSET (1..MaxRuns)
Reads == [phase : ReadPhases, waiters : SUBSET Tasks!Readers, runs : Nat, todo : RunSets, meta : Nat,
          settled : RunSets, shells : RunSets, working : RunSets, told : [Repos -> Tasks!Told]]
ReadOK(rd) == rd \in Reads /\ (rd.phase = "none" <=> rd.waiters = {})

DataTypes ==
    /\ DOMAIN run = 1..Tasks!Count /\ Tasks!Count \in 0..MaxRuns
    /\ \A r \in Tasks!Runs : run[r] \in [repo : Repos, server : BOOLEAN]
    /\ record \in [1..MaxRuns -> Tasks!Record]
    /\ term \in [1..MaxRuns -> {"none", "starting", "ready", "logged", "working", "closed"}]
    /\ old \subseteq Tasks!Runs /\ dir \subseteq {"cache", "read"}
    /\ known \in [seen : [1..MaxRuns -> SeenRecords], latest : [Repos -> Tasks!Told]]
ReadTypes ==
    /\ ReadOK(read)
    /\ read.todo \subseteq Tasks!Runs /\ read.settled \subseteq Tasks!Runs /\ read.runs \in 0..Tasks!Count
UserTypes ==
    /\ launch \in [Tasks!Sources -> Launches]
    /\ shown \in [Repos -> Tasks!Told]
    /\ poll \in [reading : BOOLEAN, again : BOOLEAN, timer : BOOLEAN]
    /\ poll.reading <=> "board" \in read.waiters
    /\ item \in [Repos -> Items]
    /\ inputs \in 0..MaxInputs /\ faults \in 0..MaxFaults
TaskTypes == DataTypes /\ ReadTypes /\ UserTypes

LEMMA RunsAreCounted ==
    ASSUME Tasks!TaskConstants, DataTypes
    PROVE  Tasks!Count \in Nat /\ Tasks!Runs = 1..Tasks!Count /\ Tasks!Runs \subseteq 1..MaxRuns
  <1>1. Tasks!Count \in Nat /\ Tasks!Count <= MaxRuns /\ Tasks!Runs = 1..Tasks!Count
    BY DEF DataTypes, Tasks!TaskConstants, Tasks!Runs
  <1> QED BY <1>1 DEF Tasks!TaskConstants

LEMMA NothingIsTold == ASSUME Tasks!TaskConstants PROVE Tasks!Nothing \in Tasks!Told
  BY DEF Tasks!TaskConstants, Tasks!Nothing, Tasks!Told, Tasks!States, Tasks!Final

LEMMA IdleIsRead == ASSUME Tasks!TaskConstants PROVE ReadOK(Tasks!Idle)
  BY NothingIsTold DEF Tasks!Idle, ReadOK, Reads, ReadPhases, RunSets

\* What a read is after callers have joined it.
JoinedTo(rd, S, j) ==
    /\ ReadOK(j)
    /\ j.waiters = rd.waiters \cup S
    /\ \/ /\ j.phase = rd.phase /\ j.runs = rd.runs /\ j.todo = rd.todo /\ j.meta = rd.meta
          /\ j.settled = rd.settled /\ j.told = rd.told
       \/ /\ rd.phase = "none" /\ j.phase = "asked" /\ j.runs = 0 /\ j.todo = {} /\ j.meta = 0
          /\ j.settled = {}

LEMMA JoinedIsRead ==
    ASSUME Tasks!TaskConstants, NEW rd, ReadOK(rd), NEW S \in SUBSET Tasks!Readers
    PROVE  JoinedTo(rd, S, Tasks!Joined(rd, S))
  <1>1. CASE S = {} BY <1>1 DEF Tasks!Joined, JoinedTo
  <1>2. CASE S # {} /\ rd.phase = "none"
    <2> DEFINE j == [Tasks!Idle EXCEPT !.phase = "asked", !.waiters = S]
    <2>1. Tasks!Joined(rd, S) = j BY <1>2 DEF Tasks!Joined
    <2>2. /\ j \in Reads /\ j.phase = "asked" /\ j.waiters = S /\ j.runs = 0 /\ j.todo = {}
          /\ j.meta = 0 /\ j.settled = {}
      BY IdleIsRead DEF ReadOK, Reads, ReadPhases, RunSets, Tasks!Idle
    <2> QED BY <1>2, <2>1, <2>2 DEF JoinedTo, ReadOK
  <1>3. CASE S # {} /\ rd.phase # "none"
    <2> DEFINE j == [rd EXCEPT !.waiters = @ \cup S]
    <2>1. Tasks!Joined(rd, S) = j BY <1>3 DEF Tasks!Joined
    <2>2. /\ j \in Reads /\ j.phase = rd.phase /\ j.waiters = rd.waiters \cup S /\ j.runs = rd.runs
          /\ j.todo = rd.todo /\ j.meta = rd.meta /\ j.settled = rd.settled /\ j.told = rd.told
      BY DEF ReadOK, Reads
    <2> QED BY <1>3, <2>1, <2>2 DEF JoinedTo, ReadOK
  <1> QED BY <1>1, <1>2, <1>3

LEMMA JoiningKeepsTypes ==
    ASSUME Tasks!TaskConstants, DataTypes, ReadTypes, UNCHANGED run, NEW S \in SUBSET Tasks!Readers,
           JoinedTo(read, S, read')
    PROVE  ReadTypes'
  <1>1. read.todo' \in {read.todo, {}} /\ read.settled' \in {read.settled, {}}
        /\ read.runs' \in {read.runs, 0}
    BY DEF JoinedTo
  <1>2. 0 \in 0..Tasks!Count BY DEF DataTypes
  <1> QED BY <1>1, <1>2 DEF ReadTypes, JoinedTo, Tasks!Runs, Tasks!Count

\* Steps that leave alone what is read: the runs, their records and what is known of
\* them. Terminals may only end, the stamp of the folder may only be lost, and the read
\* is joined, asked for anew or given up.
KeepsRead ==
    /\ read'.phase = read.phase /\ read'.runs = read.runs /\ read'.todo = read.todo
    /\ read'.meta = read.meta /\ read'.settled = read.settled /\ read'.told = read.told
RestsRead ==
    /\ ~Tasks!Executing /\ read'.phase \in {"none", "asked", "failed"}
    /\ read'.meta \in {0, read.meta} /\ read'.settled \subseteq read.settled
LeftAlone ==
    /\ UNCHANGED <<run, record, known>> /\ dir' \subseteq dir
    /\ \A r \in 1..MaxRuns : term[r] = "none" => term'[r] = "none"
    /\ \A r \in 1..MaxRuns : Tasks!Alive(r)' => Tasks!Alive(r)
    /\ KeepsRead \/ RestsRead

LEMMA UntouchedIsQuiet ==
    ASSUME UNCHANGED <<run, record, known, term, dir, read>>
    PROVE  LeftAlone
  BY DEF LeftAlone, KeepsRead, Tasks!Alive

LEMMA JoiningIsQuiet ==
    ASSUME UNCHANGED <<run, record, known, term, dir>>, NEW S, JoinedTo(read, S, read')
    PROVE  LeftAlone
  BY DEF LeftAlone, KeepsRead, RestsRead, JoinedTo, Tasks!Alive, Tasks!Executing

-----------------------------------------------------------------------------
(* What users, answers and the batch do to the board. *)

LEMMA UserLaunchesTypes ==
    ASSUME Tasks!TaskConstants, TaskTypes, NEW p \in Repos, NEW server \in BOOLEAN, Tasks!UserLaunches(p, server)
    PROVE  TaskTypes' /\ LeftAlone
  <1>1. "user" \in Tasks!Sources /\ inputs' \in 0..MaxInputs
    BY DEF Tasks!UserLaunches, Tasks!Input, Tasks!Sources, TaskTypes, UserTypes, Tasks!TaskConstants
  <1>2. [phase |-> "asked", repo |-> p, server |-> server, run |-> 0] \in Launches
    BY DEF Launches, Tasks!TaskConstants
  <1>3. launch' \in [Tasks!Sources -> Launches]
    BY <1>1, <1>2 DEF Tasks!UserLaunches, TaskTypes, UserTypes
  <1>4. UNCHANGED <<run, record, term, old, dir, known, read, shown, poll, item, faults>>
    BY DEF Tasks!UserLaunches
  <1>5. LeftAlone BY <1>4, UntouchedIsQuiet
  <1> QED BY <1>1, <1>3, <1>4, <1>5 DEF TaskTypes, DataTypes, ReadTypes, UserTypes, Tasks!Runs, Tasks!Count

LEMMA NoLaunchIsLaunch == ASSUME Tasks!TaskConstants PROVE Tasks!NoLaunch \in Launches
  <1>1. (CHOOSE p \in Repos : TRUE) \in Repos BY DEF Tasks!TaskConstants
  <1> QED BY <1>1 DEF Tasks!NoLaunch, Launches, Tasks!TaskConstants

LEMMA RefreshedPolls ==
    ASSUME NEW pl \in [reading : BOOLEAN, again : BOOLEAN, timer : BOOLEAN]
    PROVE  /\ Tasks!Refreshed(pl) \in [reading : BOOLEAN, again : BOOLEAN, timer : BOOLEAN]
           /\ Tasks!Refreshed(pl).reading
           /\ Tasks!Asks(pl) = IF pl.reading THEN {} ELSE {"board"}
  BY DEF Tasks!Refreshed, Tasks!Asks

LEMMA LaunchAnsweredTypes ==
    ASSUME Tasks!TaskConstants, TaskTypes, NEW s \in Tasks!Sources, Tasks!LaunchAnswered(s)
    PROVE  TaskTypes' /\ LeftAlone
  <1> DEFINE l == launch[s]
             ok == l.run # 0
             told == [run |-> l.run, state |-> "running"]
             S == (IF ok THEN Tasks!Asks(poll) ELSE {}) \cup (IF ok /\ s # "user" THEN {s} ELSE {})
  <1>1. /\ launch \in [Tasks!Sources -> Launches] /\ shown \in [Repos -> Tasks!Told]
        /\ poll \in [reading : BOOLEAN, again : BOOLEAN, timer : BOOLEAN]
        /\ item \in [Repos -> Items] /\ ReadOK(read)
        /\ poll.reading <=> "board" \in read.waiters
    BY DEF TaskTypes, UserTypes, ReadTypes
  <1>2. l.repo \in Repos /\ l.run \in 0..MaxRuns BY <1>1 DEF Launches
  <1>3. told \in Tasks!Told BY <1>2 DEF Tasks!Told, Tasks!States
  <1>4. s = "user" \/ s \in Repos BY DEF Tasks!Sources
  <1>5. S \in SUBSET Tasks!Readers /\ ("board" \in S <=> ok /\ ~poll.reading)
    BY <1>1, <1>4, RefreshedPolls DEF Tasks!Readers, Tasks!TaskConstants
  <1>6. JoinedTo(read, S, read')
    <2>1. read' = Tasks!Joined(read, S) BY DEF Tasks!LaunchAnswered
    <2> HIDE DEF S
    <2> QED BY <1>1, <1>5, <2>1, JoinedIsRead
  <1>7. launch' \in [Tasks!Sources -> Launches] BY <1>1, NoLaunchIsLaunch DEF Tasks!LaunchAnswered
  <1>8. shown' \in [Repos -> Tasks!Told] BY <1>1, <1>2, <1>3 DEF Tasks!LaunchAnswered
  <1>9. /\ poll' \in [reading : BOOLEAN, again : BOOLEAN, timer : BOOLEAN]
        /\ poll'.reading <=> poll.reading \/ ok
    BY <1>1, RefreshedPolls DEF Tasks!LaunchAnswered
  <1>10. item' \in [Repos -> Items]
    <2>1. CASE s = "user" BY <1>1, <2>1 DEF Tasks!LaunchAnswered
    <2>2. CASE s # "user"
      <3>1. [state |-> IF ok THEN "reading" ELSE "failed", run |-> l.run, attempts |-> 0] \in Items
        BY <1>2 DEF Items, Tasks!TaskConstants
      <3>2. item' = [item EXCEPT ![s] = [state |-> IF ok THEN "reading" ELSE "failed",
                                         run |-> l.run, attempts |-> 0]]
        BY <2>2 DEF Tasks!LaunchAnswered
      <3> QED BY <1>1, <3>1, <3>2
    <2> QED BY <2>1, <2>2
  <1>11. UNCHANGED <<run, record, term, old, dir, known, inputs, faults>>
    BY DEF Tasks!LaunchAnswered
  <1>12. poll'.reading <=> "board" \in read'.waiters BY <1>1, <1>5, <1>6, <1>9 DEF JoinedTo
  <1>13. DataTypes' /\ ReadTypes'
    <2> HIDE DEF S
    <2>1. DataTypes' BY <1>11 DEF TaskTypes, DataTypes, Tasks!Runs, Tasks!Count
    <2>2. ReadTypes' BY <1>5, <1>6, <1>11, JoiningKeepsTypes DEF TaskTypes
    <2> QED BY <2>1, <2>2
  <1>14. UserTypes' BY <1>7, <1>8, <1>9, <1>10, <1>11, <1>12 DEF TaskTypes, UserTypes
  <1>15. LeftAlone
    <2> HIDE DEF S
    <2> QED BY <1>6, <1>11, JoiningIsQuiet
  <1> QED BY <1>13, <1>14, <1>15 DEF TaskTypes

LEMMA RefreshTypes ==
    ASSUME Tasks!TaskConstants, TaskTypes, Tasks!RefreshBoard, inputs' \in 0..MaxInputs
    PROVE  TaskTypes' /\ LeftAlone
  <1>1. /\ poll \in [reading : BOOLEAN, again : BOOLEAN, timer : BOOLEAN]
        /\ ReadOK(read) /\ (poll.reading <=> "board" \in read.waiters)
    BY DEF TaskTypes, UserTypes, ReadTypes
  <1>2. Tasks!Asks(poll) \in SUBSET Tasks!Readers /\ ("board" \in Tasks!Asks(poll) <=> ~poll.reading)
    BY <1>1, RefreshedPolls DEF Tasks!Readers
  <1>3. JoinedTo(read, Tasks!Asks(poll), read') BY <1>1, <1>2, JoinedIsRead DEF Tasks!RefreshBoard
  <1>4. UNCHANGED <<run, record, term, old, dir, known, launch, shown, item, faults>>
    BY DEF Tasks!RefreshBoard
  <1>5. poll' \in [reading : BOOLEAN, again : BOOLEAN, timer : BOOLEAN] /\ poll'.reading
    BY <1>1, RefreshedPolls DEF Tasks!RefreshBoard
  <1>6. "board" \in read'.waiters BY <1>1, <1>2, <1>3 DEF JoinedTo
  <1>7. ReadTypes' BY <1>2, <1>3, <1>4, JoiningKeepsTypes DEF TaskTypes
  <1>8. DataTypes' /\ UserTypes'
    BY <1>4, <1>5, <1>6 DEF TaskTypes, DataTypes, UserTypes, Tasks!Runs, Tasks!Count
  <1>9. LeftAlone BY <1>3, <1>4, JoiningIsQuiet
  <1> QED BY <1>7, <1>8, <1>9 DEF TaskTypes

LEMMA RescopeTypes ==
    ASSUME Tasks!TaskConstants, TaskTypes, Tasks!Rescope
    PROVE  TaskTypes' /\ LeftAlone
  <1>1. ReadOK(read) /\ inputs' \in 0..MaxInputs
    BY DEF TaskTypes, UserTypes, ReadTypes, Tasks!Rescope, Tasks!Input, Tasks!TaskConstants
  <1>2. {"board"} \in SUBSET Tasks!Readers BY DEF Tasks!Readers
  <1>3. JoinedTo(read, {"board"}, read') BY <1>1, <1>2, JoinedIsRead DEF Tasks!Rescope
  <1>4. UNCHANGED <<run, record, term, old, dir, known, launch, shown, item, faults>>
    BY DEF Tasks!Rescope
  <1>5. poll' \in [reading : BOOLEAN, again : BOOLEAN, timer : BOOLEAN] /\ poll'.reading
    BY DEF Tasks!Rescope
  <1>6. "board" \in read'.waiters BY <1>3 DEF JoinedTo
  <1>7. ReadTypes' BY <1>2, <1>3, <1>4, JoiningKeepsTypes DEF TaskTypes
  <1>8. DataTypes' /\ UserTypes'
    BY <1>1, <1>4, <1>5, <1>6 DEF TaskTypes, DataTypes, UserTypes, Tasks!Runs, Tasks!Count
  <1>9. LeftAlone BY <1>3, <1>4, JoiningIsQuiet
  <1> QED BY <1>7, <1>8, <1>9 DEF TaskTypes

LEMMA StartBatchTypes ==
    ASSUME Tasks!TaskConstants, TaskTypes, Tasks!StartBatch
    PROVE  TaskTypes' /\ LeftAlone
  <1>1. inputs' \in 0..MaxInputs /\ item' \in [Repos -> Items]
    BY DEF TaskTypes, UserTypes, Tasks!StartBatch, Tasks!Input, Tasks!TaskConstants, Items
  <1>2. UNCHANGED <<run, record, term, old, dir, known, read, launch, shown, poll, faults>>
    BY DEF Tasks!StartBatch
  <1>3. LeftAlone BY <1>2, UntouchedIsQuiet
  <1> QED BY <1>1, <1>2, <1>3 DEF TaskTypes, DataTypes, ReadTypes, UserTypes, Tasks!Runs, Tasks!Count

LEMMA BatchTakesTypes ==
    ASSUME Tasks!TaskConstants, TaskTypes, NEW p \in Repos, Tasks!BatchTakes(p)
    PROVE  TaskTypes' /\ LeftAlone
  <1>1. item' \in [Repos -> Items] BY DEF TaskTypes, UserTypes, Tasks!BatchTakes, Items
  <1>2. p \in Tasks!Sources BY DEF Tasks!Sources
  <1>3. [phase |-> "asked", repo |-> p, server |-> FALSE, run |-> 0] \in Launches
    BY DEF Launches, Tasks!TaskConstants
  <1>4. launch' \in [Tasks!Sources -> Launches]
    BY <1>2, <1>3 DEF TaskTypes, UserTypes, Tasks!BatchTakes
  <1>5. UNCHANGED <<run, record, term, old, dir, known, read, shown, poll, inputs, faults>>
    BY DEF Tasks!BatchTakes
  <1>6. LeftAlone BY <1>5, UntouchedIsQuiet
  <1> QED BY <1>1, <1>4, <1>5, <1>6 DEF TaskTypes, DataTypes, ReadTypes, UserTypes, Tasks!Runs, Tasks!Count

LEMMA BatchWakesTypes ==
    ASSUME Tasks!TaskConstants, TaskTypes, NEW p \in Repos, Tasks!BatchWakes(p)
    PROVE  TaskTypes' /\ LeftAlone
  <1>1. ReadOK(read) /\ item' \in [Repos -> Items]
    BY DEF TaskTypes, UserTypes, ReadTypes, Tasks!BatchWakes, Items
  <1>2. {p} \in SUBSET Tasks!Readers /\ "board" \notin {p} BY DEF Tasks!Readers, Tasks!TaskConstants
  <1>3. JoinedTo(read, {p}, read') BY <1>1, <1>2, JoinedIsRead DEF Tasks!BatchWakes
  <1>4. UNCHANGED <<run, record, term, old, dir, known, launch, shown, poll, inputs, faults>>
    BY DEF Tasks!BatchWakes
  <1>5. "board" \in read'.waiters <=> "board" \in read.waiters BY <1>2, <1>3 DEF JoinedTo
  <1>6. ReadTypes' BY <1>2, <1>3, <1>4, JoiningKeepsTypes DEF TaskTypes
  <1>7. DataTypes' /\ UserTypes'
    BY <1>1, <1>4, <1>5 DEF TaskTypes, DataTypes, UserTypes, Tasks!Runs, Tasks!Count
  <1>8. LeftAlone BY <1>3, <1>4, JoiningIsQuiet
  <1> QED BY <1>6, <1>7, <1>8 DEF TaskTypes

LEMMA ReadFailsTypes ==
    ASSUME Tasks!TaskConstants, TaskTypes, Tasks!ReadFails
    PROVE  TaskTypes' /\ LeftAlone
  <1>1. /\ read \in Reads /\ read.phase = "asked" /\ read' = [read EXCEPT !.phase = "failed"]
        /\ (read.phase = "none" <=> read.waiters = {})
    BY DEF TaskTypes, ReadTypes, ReadOK, Tasks!ReadFails
  <1>2. /\ read' \in Reads /\ read'.phase = "failed" /\ read'.runs = read.runs
        /\ read'.todo = read.todo /\ read'.meta = read.meta /\ read'.settled = read.settled
        /\ read'.waiters = read.waiters
    BY <1>1 DEF Reads, ReadPhases
  <1>3. faults' \in 0..MaxFaults
    BY DEF TaskTypes, UserTypes, Tasks!ReadFails, Tasks!Fault, Tasks!TaskConstants
  <1>4. UNCHANGED <<run, record, term, old, dir, known, launch, shown, poll, item, inputs>>
    BY DEF Tasks!ReadFails
  <1>5. ReadTypes' BY <1>1, <1>2, <1>4 DEF TaskTypes, ReadTypes, ReadOK, Tasks!Runs, Tasks!Count
  <1>6. DataTypes' /\ UserTypes'
    BY <1>2, <1>3, <1>4 DEF TaskTypes, DataTypes, UserTypes, Tasks!Runs, Tasks!Count
  <1>7. LeftAlone BY <1>1, <1>2, <1>4 DEF LeftAlone, RestsRead, Tasks!Alive, Tasks!Executing
  <1> QED BY <1>5, <1>6, <1>7 DEF TaskTypes

LEMMA DeliverTypes ==
    ASSUME Tasks!TaskConstants, TaskTypes, Tasks!Deliver
    PROVE  TaskTypes' /\ LeftAlone
  <1> DEFINE board == "board" \in read.waiters
             S == IF board /\ poll.again THEN {"board"} ELSE {}
  <1>1. /\ read \in Reads /\ read.phase \in {"answered", "failed"}
        /\ poll \in [reading : BOOLEAN, again : BOOLEAN, timer : BOOLEAN]
        /\ (poll.reading <=> board) /\ item \in [Repos -> Items]
        /\ shown \in [Repos -> Tasks!Told]
    BY DEF TaskTypes, ReadTypes, UserTypes, ReadOK, Tasks!Deliver
  <1>2. S \in SUBSET Tasks!Readers BY DEF Tasks!Readers
  <1>3. JoinedTo(Tasks!Idle, S, read')
    <2>1. read' = Tasks!Joined(Tasks!Idle, S) BY DEF Tasks!Deliver
    <2> HIDE DEF S
    <2> QED BY <1>2, <2>1, IdleIsRead, JoinedIsRead
  <1>4. /\ read'.waiters = S /\ read'.phase \in {"none", "asked"} /\ read'.meta = 0
        /\ read'.settled = {} /\ read'.todo = {} /\ read'.runs = 0 /\ ReadOK(read')
    <2> HIDE DEF S
    <2> QED BY <1>3 DEF JoinedTo, Tasks!Idle
  <1>5. UNCHANGED <<run, record, term, old, dir, known, launch, inputs, faults>>
    BY DEF Tasks!Deliver
  <1>6. /\ poll' \in [reading : BOOLEAN, again : BOOLEAN, timer : BOOLEAN]
        /\ poll'.reading <=> "board" \in read'.waiters
    BY <1>1, <1>4 DEF Tasks!Deliver, Tasks!Polled
  <1>7. shown' \in [Repos -> Tasks!Told] BY <1>1 DEF Tasks!Deliver, Reads
  <1>8. item' \in [Repos -> Items]
    <2>1. ASSUME NEW p \in Repos PROVE Tasks!Waited(p) \in Items
      <3>1. item[p] \in Items BY <1>1
      <3>2. item[p].attempts + 1 < MaxAttempts => item[p].attempts + 1 \in 0..MaxAttempts
        BY <3>1 DEF Items, Tasks!TaskConstants
      <3> DEFINE it == item[p]
      <3>3. \A state \in {"sleeping", "succeeded", "failed"} : [it EXCEPT !.state = state] \in Items
        BY <3>1 DEF Items
      <3>4. it.attempts + 1 < MaxAttempts
              => [it EXCEPT !.state = "sleeping", !.attempts = @ + 1] \in Items
        BY <3>1, <3>2 DEF Items
      <3> QED BY <3>3, <3>4 DEF Tasks!Waited
    <2> QED BY <1>1, <2>1 DEF Tasks!Deliver
  <1>9. ReadTypes'
    <2>1. 0 \in 0..Tasks!Count BY DEF TaskTypes, DataTypes
    <2> HIDE DEF S
    <2> QED BY <1>4, <1>5, <2>1 DEF TaskTypes, ReadTypes, Tasks!Runs, Tasks!Count
  <1>10. DataTypes' /\ UserTypes'
    BY <1>5, <1>6, <1>7, <1>8 DEF TaskTypes, DataTypes, UserTypes, Tasks!Runs, Tasks!Count
  <1>11. LeftAlone BY <1>1, <1>4, <1>5 DEF LeftAlone, RestsRead, Tasks!Alive, Tasks!Executing
  <1> QED BY <1>9, <1>10, <1>11 DEF TaskTypes

-----------------------------------------------------------------------------
(* What terminals and their owners do without a word in the record. *)

LEMMA UserClosesTypes ==
    ASSUME Tasks!TaskConstants, TaskTypes, NEW r \in Tasks!Runs, Tasks!UserCloses(r)
    PROVE  TaskTypes' /\ LeftAlone
  <1>1. inputs' \in 0..MaxInputs /\ term' = [term EXCEPT ![r] = "closed"] /\ Tasks!Alive(r)
    BY DEF TaskTypes, UserTypes, Tasks!UserCloses, Tasks!Input, Tasks!TaskConstants
  <1>2. UNCHANGED <<run, record, old, dir, known, read, launch, shown, poll, item, faults>>
    BY DEF Tasks!UserCloses
  <1>3. /\ term \in [1..MaxRuns -> {"none", "starting", "ready", "logged", "working", "closed"}]
        /\ r \in 1..MaxRuns
    BY RunsAreCounted DEF TaskTypes, DataTypes
  <1>4. term' \in [1..MaxRuns -> {"none", "starting", "ready", "logged", "working", "closed"}]
    BY <1>1, <1>3
  <1>5. /\ \A q \in 1..MaxRuns : term[q] = "none" => term'[q] = "none"
        /\ \A q \in 1..MaxRuns : Tasks!Alive(q)' => Tasks!Alive(q)
    BY <1>1, <1>3 DEF Tasks!Alive
  <1>6. LeftAlone BY <1>2, <1>5 DEF LeftAlone, KeepsRead
  <1> QED BY <1>1, <1>2, <1>4, <1>6 DEF TaskTypes, DataTypes, ReadTypes, UserTypes, Tasks!Runs, Tasks!Count

LEMMA AgeTypes ==
    ASSUME Tasks!TaskConstants, TaskTypes, NEW r \in Tasks!Runs, Tasks!Age(r)
    PROVE  TaskTypes' /\ LeftAlone
  <1>1. faults' \in 0..MaxFaults /\ old' = old \cup {r}
    BY DEF TaskTypes, UserTypes, Tasks!Age, Tasks!Fault, Tasks!TaskConstants
  <1>2. UNCHANGED <<run, record, term, dir, known, read, launch, shown, poll, item, inputs>>
    BY DEF Tasks!Age
  <1>3. LeftAlone BY <1>2, UntouchedIsQuiet
  <1> QED BY <1>1, <1>2, <1>3 DEF TaskTypes, DataTypes, ReadTypes, UserTypes, Tasks!Runs, Tasks!Count

LEMMA CommandStartsTypes ==
    ASSUME Tasks!TaskConstants, TaskTypes, NEW r \in Tasks!Runs, Tasks!CommandStarts(r)
    PROVE  TaskTypes' /\ LeftAlone
  <1>1. /\ term \in [1..MaxRuns -> {"none", "starting", "ready", "logged", "working", "closed"}]
        /\ r \in 1..MaxRuns
    BY RunsAreCounted DEF TaskTypes, DataTypes
  <1>2. /\ term[r] \in {"ready", "logged"} /\ dir' \subseteq dir
        /\ \E t \in {"logged", "working"} : term' = [term EXCEPT ![r] = t]
    BY DEF Tasks!CommandStarts
  <1>3. UNCHANGED <<run, record, old, known, read, launch, shown, poll, item, inputs, faults>>
    BY DEF Tasks!CommandStarts
  <1>4. term' \in [1..MaxRuns -> {"none", "starting", "ready", "logged", "working", "closed"}]
    BY <1>1, <1>2
  <1>5. /\ \A q \in 1..MaxRuns : term[q] = "none" => term'[q] = "none"
        /\ \A q \in 1..MaxRuns : Tasks!Alive(q)' => Tasks!Alive(q)
    BY <1>1, <1>2 DEF Tasks!Alive
  <1>6. LeftAlone BY <1>2, <1>3, <1>5 DEF LeftAlone, KeepsRead
  <1>7. DataTypes' BY <1>2, <1>3, <1>4 DEF TaskTypes, DataTypes, Tasks!Runs, Tasks!Count
  <1> QED BY <1>3, <1>6, <1>7 DEF TaskTypes, ReadTypes, UserTypes, Tasks!Runs, Tasks!Count

-----------------------------------------------------------------------------
(* What becomes of the data. *)

FilesOK == \A r \in 1..MaxRuns :
    /\ r \in Tasks!Runs => record[r].state \in Tasks!States /\ record[r].stamp # 0
    /\ r \notin Tasks!Runs => record[r] = Tasks!Absent /\ term[r] = "none" /\ known.seen[r] = Tasks!Absent
    /\ record[r].state \in Tasks!Final => ~Tasks!Alive(r)

\* What was seen of a file is not newer than it, and with the same stamp it is the same.
SeenOK == \A r \in 1..MaxRuns :
    LET s == known.seen[r] IN
    /\ s.stamp <= record[r].stamp
    /\ s.state = "absent" => s.stamp = 0
    /\ s.state \in Tasks!Final => record[r].state = s.state
    /\ s.stamp = record[r].stamp => s.state \in {record[r].state, "unreadable"}

ScanOK ==
    /\ read.meta # 0 => /\ read.phase = "scan" /\ read.todo # {}
                        /\ read.meta <= record[Min(read.todo)].stamp
    /\ Tasks!Executing =>
        /\ read.runs = Tasks!Count
        /\ read.phase # "scan" => read.todo = {}
        /\ \A r \in Tasks!Runs \ read.todo :
              /\ known.seen[r].state # "absent"
              /\ "read" \in dir /\ known.seen[r].state = "running" => record[r].state = "running"
    /\ \A r \in read.settled : record[r].state \in Tasks!Final

\* What is kept for the next reader, with the stamp of the folder it was read under.
KnownOK ==
    \A p \in Repos :
        LET t == known.latest[p] IN
        /\ t.run \in 0..Tasks!Count /\ (t.run = 0 <=> t.state = "absent")
        /\ t.state \in Tasks!Final => record[t.run].state = t.state
        /\ "cache" \in dir =>
              /\ t.state \in {"stopped", "running"} => record[t.run].state = "running"
              /\ ~Tasks!Executing => t.run = Tasks!Latest(p, {r \in Tasks!Runs : known.seen[r].state # "unreadable"})

AnswerOK ==
    read.phase = "answered" =>
        \A p \in Repos : /\ read.told[p].run \in 0..Tasks!Count
                         /\ read.told[p].run = 0 <=> read.told[p].state = "absent"

RecordsInv == FilesOK /\ SeenOK /\ ScanOK /\ KnownOK /\ AnswerOK /\ Tasks!ReadIsCurrent

LEMMA QuietSteps == ASSUME TaskTypes, RecordsInv, LeftAlone PROVE RecordsInv'
  <1>1. /\ Tasks!Runs' = Tasks!Runs /\ Tasks!Count' = Tasks!Count /\ UNCHANGED <<run, record, known>>
        /\ dir' \subseteq dir /\ (KeepsRead \/ RestsRead)
        /\ \A r \in 1..MaxRuns : term[r] = "none" => term'[r] = "none"
        /\ \A r \in 1..MaxRuns : Tasks!Alive(r)' => Tasks!Alive(r)
    BY DEF LeftAlone, Tasks!Runs, Tasks!Count
  <1>2. FilesOK' /\ SeenOK' BY <1>1 DEF RecordsInv, FilesOK, SeenOK, Tasks!Absent
  <1>3. Tasks!Executing' => Tasks!Executing /\ KeepsRead
    BY <1>1 DEF KeepsRead, RestsRead, Tasks!Executing
  <1>4. ScanOK'
    <2>1. ~Tasks!Executing => read.meta = 0
      BY DEF RecordsInv, ScanOK, Tasks!Executing, TaskTypes, ReadTypes, ReadOK, Reads
    <2>2. read'.settled \subseteq read.settled BY <1>1 DEF KeepsRead, RestsRead
    <2>3. CASE KeepsRead BY <1>1, <1>3, <2>3 DEF RecordsInv, ScanOK, KeepsRead, Tasks!Executing
    <2>4. CASE RestsRead
      BY <1>1, <1>3, <2>1, <2>2, <2>4 DEF RecordsInv, ScanOK, RestsRead, Tasks!Executing
    <2> QED BY <1>1, <2>3, <2>4
  <1>5. Tasks!Executing <=> Tasks!Executing' BY <1>1 DEF KeepsRead, RestsRead, Tasks!Executing
  <1>6. KnownOK' BY <1>1, <1>5 DEF RecordsInv, KnownOK, Tasks!Latest
  <1>7. AnswerOK' /\ Tasks!ReadIsCurrent'
    BY <1>1 DEF RecordsInv, AnswerOK, Tasks!ReadIsCurrent, KeepsRead, RestsRead, Tasks!Latest
  <1> QED BY <1>2, <1>4, <1>6, <1>7 DEF RecordsInv

\* A result is never taken back.
ResultsStay == \A r \in 1..MaxRuns : record[r].state \in Tasks!Final => record'[r] = record[r]

LEMMA QuietKeepsResults == ASSUME LeftAlone PROVE ResultsStay
  BY DEF LeftAlone, ResultsStay

\* The runs that have a record are the same or more, and nothing known of them changes.
LEMMA BegunData ==
    ASSUME Tasks!TaskConstants, TaskTypes, RecordsInv, ~Tasks!Executing, UNCHANGED <<known, read>>, dir' = {},
           Tasks!Runs' = 1..Tasks!Count', Tasks!Count' \in Tasks!Count..MaxRuns,
           \A r \in Tasks!Runs : run'[r] = run[r],
           \A r \in 1..MaxRuns : r \notin Tasks!Count + 1 .. Tasks!Count' =>
               record'[r] = record[r] /\ term'[r] = term[r],
           \A r \in Tasks!Count + 1 .. Tasks!Count' :
               /\ record'[r].state \in Tasks!States /\ record'[r].stamp = 1
               /\ record'[r].state \in Tasks!Final => ~Tasks!Alive(r)'
    PROVE  RecordsInv' /\ ResultsStay
  <1>1. /\ Tasks!Count \in Nat /\ Tasks!Runs = 1..Tasks!Count /\ Tasks!Runs \subseteq 1..MaxRuns /\ Tasks!Runs \subseteq Tasks!Runs'
        /\ \A r \in 1..MaxRuns : r \in Tasks!Count + 1 .. Tasks!Count' => r \notin Tasks!Runs
    BY RunsAreCounted DEF TaskTypes
  <1>2. \A r \in 1..MaxRuns : r \notin Tasks!Runs => r \notin Tasks!Runs' \/ r \in Tasks!Count + 1 .. Tasks!Count'
    BY <1>1
  <1>3. \A r \in Tasks!Runs : record'[r] = record[r] /\ term'[r] = term[r] BY <1>1
  <1>4. FilesOK'
    <2> SUFFICES ASSUME NEW r \in 1..MaxRuns
                 PROVE  /\ r \in Tasks!Runs' => record'[r].state \in Tasks!States /\ record'[r].stamp # 0
                        /\ r \notin Tasks!Runs' => record'[r] = Tasks!Absent /\ term'[r] = "none"
                                             /\ known.seen[r] = Tasks!Absent
                        /\ record'[r].state \in Tasks!Final => ~Tasks!Alive(r)'
      BY DEF FilesOK
    <2>1. CASE r \in Tasks!Count + 1 .. Tasks!Count' BY <1>1, <2>1
    <2>2. CASE r \notin Tasks!Count + 1 .. Tasks!Count'
      <3>1. (r \in Tasks!Runs' <=> r \in Tasks!Runs) /\ record'[r] = record[r] /\ term'[r] = term[r]
        BY <1>1, <1>2, <2>2
      <3> QED BY <3>1 DEF RecordsInv, FilesOK, Tasks!Alive
    <2> QED BY <2>1, <2>2
  <1>5. SeenOK'
    <2> SUFFICES ASSUME NEW r \in 1..MaxRuns, r \in Tasks!Count + 1 .. Tasks!Count'
                 PROVE  LET s == known.seen[r] IN
                        /\ s.stamp <= record'[r].stamp
                        /\ s.state = "absent" => s.stamp = 0
                        /\ s.state \in Tasks!Final => record'[r].state = s.state
                        /\ s.stamp = record'[r].stamp => s.state \in {record'[r].state, "unreadable"}
      BY DEF SeenOK, RecordsInv
    <2>1. known.seen[r] = Tasks!Absent BY <1>1 DEF RecordsInv, FilesOK
    <2> QED BY <2>1 DEF Tasks!Absent, Tasks!Final
  <1>6. ResultsStay
    <2>1. \A r \in 1..MaxRuns : r \notin Tasks!Runs => record[r].state \notin Tasks!Final
      BY DEF RecordsInv, FilesOK, Tasks!Absent, Tasks!Final
    <2> QED BY <1>1, <2>1 DEF ResultsStay
  <1>7. ScanOK'
    <2>1. read.meta = 0 /\ ~Tasks!Executing'
      BY DEF RecordsInv, ScanOK, Tasks!Executing, TaskTypes, ReadTypes, ReadOK, Reads
    <2>2. read.settled \subseteq Tasks!Runs BY DEF TaskTypes, ReadTypes
    <2> QED BY <1>3, <2>1, <2>2 DEF RecordsInv, ScanOK
  <1>8. KnownOK'
    <2> SUFFICES ASSUME NEW p \in Repos
                 PROVE  LET t == known.latest[p] IN
                        /\ t.run \in 0..Tasks!Count' /\ (t.run = 0 <=> t.state = "absent")
                        /\ t.state \in Tasks!Final => record'[t.run].state = t.state
      BY DEF KnownOK
    <2>1. LET t == known.latest[p] IN
          /\ t.run \in 0..Tasks!Count /\ (t.run = 0 <=> t.state = "absent")
          /\ t.state \in Tasks!Final => record[t.run].state = t.state
      BY DEF RecordsInv, KnownOK
    <2>2. known.latest[p].state \in Tasks!Final => known.latest[p].run \in Tasks!Runs
      BY <1>1, <2>1 DEF Tasks!Final
    <2> QED BY <1>1, <1>3, <2>1, <2>2
  <1>9. AnswerOK' BY <1>1 DEF RecordsInv, AnswerOK
  <1>10. Tasks!ReadIsCurrent'
    <2> SUFFICES ASSUME read.phase = "answered", NEW p \in Repos
                 PROVE  LET told == read.told[p] IN
                        /\ told.run = Tasks!Latest(p, {r \in 1..read.runs : known.seen[r].state # "unreadable"})'
                        /\ told.run \in read.settled \/ told.state \in Tasks!Final
                              => told.state = record'[told.run].state
      BY DEF Tasks!ReadIsCurrent
    <2> DEFINE R == {r \in 1..read.runs : known.seen[r].state # "unreadable"}
    <2>1. R \subseteq Tasks!Runs
      <3>1. read.runs \in 0..Tasks!Count BY DEF TaskTypes, ReadTypes
      <3> QED BY <1>1, <3>1
    <2>2. {r \in R : run'[r].repo = p} = {r \in R : run[r].repo = p} BY <2>1
    <2>3. Tasks!Latest(p, R)' = Tasks!Latest(p, R)
      <3>1. R' = R OBVIOUS
      <3> HIDE DEF R
      <3> QED BY <2>2, <3>1 DEF Tasks!Latest
    <2>4. /\ read.told[p].run = Tasks!Latest(p, R)
          /\ read.told[p].run \in read.settled \/ read.told[p].state \in Tasks!Final
                => read.told[p].state = record[read.told[p].run].state
      BY DEF RecordsInv, Tasks!ReadIsCurrent
    <2>5. read.told[p].run \in read.settled \/ read.told[p].state \in Tasks!Final
                => read.told[p].run \in Tasks!Runs
      <3>1. read.told[p].run \in 0..Tasks!Count /\ (read.told[p].run = 0 <=> read.told[p].state = "absent")
        BY DEF RecordsInv, AnswerOK
      <3>2. read.settled \subseteq Tasks!Runs BY DEF TaskTypes, ReadTypes
      <3> QED BY <1>1, <3>1, <3>2 DEF Tasks!Final
    <2> QED BY <1>3, <2>3, <2>4, <2>5
  <1> QED BY <1>4, <1>5, <1>6, <1>7, <1>8, <1>9, <1>10 DEF RecordsInv

\* The terminal of a run that has not ended replaces its record by a newer one.
LEMMA PublishedData ==
    ASSUME Tasks!TaskConstants, TaskTypes, RecordsInv, UNCHANGED <<run, known, read>>, dir' = {},
           NEW r \in Tasks!Runs, Tasks!Alive(r), NEW state \in Tasks!States, NEW next,
           state \in Tasks!Final => next = "closed",
           record' = [record EXCEPT ![r] = [state |-> state, pid |-> TRUE, stamp |-> @.stamp + 1]],
           term' = [term EXCEPT ![r] = next]
    PROVE  RecordsInv' /\ ResultsStay
  <1>1. /\ Tasks!Runs' = Tasks!Runs /\ Tasks!Count' = Tasks!Count /\ Tasks!Count \in Nat /\ Tasks!Runs = 1..Tasks!Count
        /\ Tasks!Runs \subseteq 1..MaxRuns
    BY RunsAreCounted DEF TaskTypes, Tasks!Runs, Tasks!Count
  <1>2. record[r].state = "running" /\ record[r].stamp \in Nat
    BY <1>1 DEF RecordsInv, FilesOK, Tasks!States, TaskTypes, DataTypes, Tasks!Record
  <1>3. /\ \A q \in 1..MaxRuns : q # r => record'[q] = record[q] /\ term'[q] = term[q]
        /\ record'[r].state = state /\ record'[r].stamp = record[r].stamp + 1 /\ term'[r] = next
    BY <1>1 DEF TaskTypes, DataTypes
  <1>4. ResultsStay BY <1>2, <1>3 DEF ResultsStay, Tasks!Final
  <1>5. FilesOK' BY <1>1, <1>2, <1>3 DEF RecordsInv, FilesOK, Tasks!Alive
  <1>6. SeenOK'
    <2>1. known.seen[r].stamp \in Nat /\ known.seen[r].stamp <= record[r].stamp
          /\ known.seen[r].state \notin Tasks!Final
      BY <1>1, <1>2 DEF RecordsInv, SeenOK, TaskTypes, DataTypes, SeenRecords, Tasks!Final
    <2> QED BY <1>1, <1>2, <1>3, <2>1 DEF RecordsInv, SeenOK
  <1>7. ScanOK'
    <2>1. read.settled \subseteq Tasks!Runs /\ read.todo \subseteq Tasks!Runs
      BY DEF TaskTypes, ReadTypes
    <2>2. read.todo # {} => Min(read.todo) \in 1..MaxRuns
      BY <1>1, <2>1, MinIsLeast DEF Tasks!TaskConstants
    <2>3. \A q \in 1..MaxRuns : record'[q].stamp \in Nat /\ record[q].stamp \in Nat
                                /\ record[q].stamp <= record'[q].stamp
      BY <1>2, <1>3 DEF TaskTypes, DataTypes, Tasks!Record
    <2>4. read.meta \in Nat BY DEF TaskTypes, ReadTypes, ReadOK, Reads
    <2>5. read.meta # 0 => read.meta <= record'[Min(read.todo)].stamp
      BY <2>2, <2>3, <2>4 DEF RecordsInv, ScanOK
    <2>6. \A q \in read.settled : record'[q].state \in Tasks!Final
      BY <1>1, <1>4, <2>1 DEF RecordsInv, ScanOK, ResultsStay
    <2> QED BY <1>1, <2>5, <2>6 DEF RecordsInv, ScanOK, Tasks!Executing
  <1>8. KnownOK'
    <2> SUFFICES ASSUME NEW p \in Repos
                 PROVE  LET t == known.latest[p] IN
                        /\ t.run \in 0..Tasks!Count /\ (t.run = 0 <=> t.state = "absent")
                        /\ t.state \in Tasks!Final => record'[t.run].state = t.state
      BY <1>1 DEF KnownOK
    <2>1. LET t == known.latest[p] IN
          /\ t.run \in 0..Tasks!Count /\ (t.run = 0 <=> t.state = "absent")
          /\ t.state \in Tasks!Final => record[t.run].state = t.state
      BY DEF RecordsInv, KnownOK
    <2>2. known.latest[p].state \in Tasks!Final => known.latest[p].run \in 1..MaxRuns
      BY <1>1, <2>1 DEF Tasks!Final
    <2> QED BY <1>4, <2>1, <2>2 DEF ResultsStay
  <1>9. AnswerOK' BY <1>1 DEF RecordsInv, AnswerOK
  <1>10. Tasks!ReadIsCurrent'
    <2> SUFFICES ASSUME read.phase = "answered", NEW p \in Repos
                 PROVE  read.told[p].run \in read.settled \/ read.told[p].state \in Tasks!Final
                              => read.told[p].state = record'[read.told[p].run].state
      BY DEF RecordsInv, Tasks!ReadIsCurrent, Tasks!Latest
    <2>1. read.told[p].run \in read.settled \/ read.told[p].state \in Tasks!Final
                => read.told[p].state = record[read.told[p].run].state
      BY DEF RecordsInv, Tasks!ReadIsCurrent
    <2>2. read.told[p].run \in 0..Tasks!Count /\ (read.told[p].run = 0 <=> read.told[p].state = "absent")
      BY DEF RecordsInv, AnswerOK
    <2>3. read.told[p].run \in read.settled => record[read.told[p].run].state \in Tasks!Final
      BY DEF RecordsInv, ScanOK
    <2>4. read.settled \subseteq Tasks!Runs BY DEF TaskTypes, ReadTypes
    <2>5. read.told[p].run \in read.settled \/ read.told[p].state \in Tasks!Final
                => read.told[p].run \in 1..MaxRuns /\ record[read.told[p].run].state \in Tasks!Final
      BY <1>1, <2>1, <2>2, <2>3, <2>4 DEF Tasks!Final
    <2> QED BY <1>4, <2>1, <2>5 DEF ResultsStay
  <1> QED BY <1>4, <1>5, <1>6, <1>7, <1>8, <1>9, <1>10 DEF RecordsInv

-----------------------------------------------------------------------------
(* Terminals that publish and launches *)

LEMMA PublishSteps ==
    ASSUME Tasks!TaskConstants, TaskTypes, RecordsInv, NEW r \in Tasks!Runs, Tasks!Alive(r), NEW state \in Tasks!States,
           NEW next \in {"ready", "closed"}, state \in Tasks!Final => next = "closed",
           Tasks!Publish(r, state, next),
           UNCHANGED <<run, old, known, read, launch, shown, poll, item, inputs>>
    PROVE  TaskTypes' /\ RecordsInv' /\ ResultsStay
  <1>1. r \in 1..MaxRuns BY RunsAreCounted DEF TaskTypes
  <1>2. term' \in [1..MaxRuns -> {"none", "starting", "ready", "logged", "working", "closed"}]
    BY <1>1 DEF Tasks!Publish, TaskTypes, DataTypes
  <1>3. record' \in [1..MaxRuns -> Tasks!Record]
    <2>1. record \in [1..MaxRuns -> Tasks!Record] BY DEF TaskTypes, DataTypes
    <2>2. [state |-> state, pid |-> TRUE, stamp |-> record[r].stamp + 1] \in Tasks!Record
      BY <1>1, <2>1 DEF Tasks!Record
    <2> QED BY <1>1, <2>1, <2>2 DEF Tasks!Publish
  <1>4. faults' \in 0..MaxFaults /\ dir' = {}
    BY DEF Tasks!Publish, Tasks!Fault, TaskTypes, UserTypes, Tasks!TaskConstants
  <1>5. TaskTypes'
    BY <1>2, <1>3, <1>4 DEF TaskTypes, DataTypes, ReadTypes, UserTypes, Tasks!Runs, Tasks!Count
  <1>6. RecordsInv' /\ ResultsStay
    <2>1. CASE /\ record' = [record EXCEPT ![r] = [state |-> state, pid |-> TRUE, stamp |-> @.stamp + 1]]
               /\ term' = [term EXCEPT ![r] = next]
      BY <1>4, <2>1, PublishedData
    <2>2. CASE term' = [term EXCEPT ![r] = "closed"] /\ UNCHANGED record
      <3>1. /\ \A q \in 1..MaxRuns : term[q] = "none" => term'[q] = "none"
            /\ \A q \in 1..MaxRuns : Tasks!Alive(q)' => Tasks!Alive(q)
        BY <1>1, <2>2 DEF Tasks!Alive, TaskTypes, DataTypes
      <3>2. LeftAlone BY <1>4, <2>2, <3>1 DEF LeftAlone, KeepsRead
      <3> QED BY <3>2, QuietSteps, QuietKeepsResults
    <2> QED BY <2>1, <2>2 DEF Tasks!Publish
  <1> QED BY <1>5, <1>6

LEMMA TerminalStartsSteps ==
    ASSUME Tasks!TaskConstants, TaskTypes, RecordsInv, NEW r \in Tasks!Runs, Tasks!TerminalStarts(r)
    PROVE  TaskTypes' /\ RecordsInv' /\ ResultsStay
  <1>1. Tasks!Alive(r) /\ Tasks!Publish(r, "running", "ready") /\ "running" \in Tasks!States /\ "running" \notin Tasks!Final
    BY DEF Tasks!TerminalStarts, Tasks!Alive, Tasks!States, Tasks!Final
  <1>2. UNCHANGED <<run, old, known, read, launch, shown, poll, item, inputs>>
    BY DEF Tasks!TerminalStarts
  <1> QED BY <1>1, <1>2, PublishSteps

LEMMA CommandEndsSteps ==
    ASSUME Tasks!TaskConstants, TaskTypes, RecordsInv, NEW r \in Tasks!Runs, Tasks!CommandEnds(r)
    PROVE  TaskTypes' /\ RecordsInv' /\ ResultsStay
  <1>1. PICK state \in Tasks!Final : Tasks!Publish(r, state, "closed") BY DEF Tasks!CommandEnds
  <1>2. Tasks!Alive(r) /\ state \in Tasks!States BY DEF Tasks!CommandEnds, Tasks!Alive, Tasks!States
  <1>3. UNCHANGED <<run, old, known, read, launch, shown, poll, item, inputs>>
    BY DEF Tasks!CommandEnds
  <1> QED BY <1>1, <1>2, <1>3, PublishSteps

LEMMA BeginSteps ==
    ASSUME Tasks!TaskConstants, TaskTypes, RecordsInv, ~Tasks!Executing, NEW s \in Tasks!Sources, NEW n \in {1, 2},
           Tasks!Count + n <= MaxRuns, NEW failing, NEW state \in Tasks!States,
           Tasks!Begin(s, Tasks!Count + 1 .. Tasks!Count + n, failing, state),
           UNCHANGED <<old, known, read>>
    PROVE  DataTypes' /\ ReadTypes' /\ RecordsInv' /\ ResultsStay
  <1> DEFINE S == Tasks!Count + 1 .. Tasks!Count + n
  <1>1. /\ Tasks!Count \in Nat /\ MaxRuns \in Nat /\ Tasks!Runs = 1..Tasks!Count /\ Tasks!Runs \subseteq 1..MaxRuns
        /\ S \subseteq 1..MaxRuns /\ Tasks!Runs \cup S = 1 .. Tasks!Count + n
    <2>1. Tasks!Count \in Nat /\ MaxRuns \in Nat /\ Tasks!Runs = 1..Tasks!Count /\ Tasks!Runs \subseteq 1..MaxRuns
      BY RunsAreCounted DEF TaskTypes, Tasks!TaskConstants
    <2> QED BY <2>1
  <1>2. Tasks!Runs' = 1 .. Tasks!Count + n /\ Tasks!Count' = Tasks!Count + n
    <2>1. Tasks!Runs' = Tasks!Runs \cup S BY DEF Tasks!Begin, Tasks!Runs
    <2>2. Cardinality(1 .. Tasks!Count + n) = Tasks!Count + n BY <1>1, FS_Interval
    <2>3. Tasks!Count' = Cardinality(Tasks!Runs') BY SameCardinality DEF Tasks!Count
    <2> QED BY <1>1, <2>1, <2>2, <2>3
  <1>3. \A r \in Tasks!Runs : run'[r] = run[r] BY <1>1 DEF Tasks!Begin
  <1>4. \A r \in S : run'[r] \in [repo : Repos, server : BOOLEAN]
    <2>1. launch[s] \in Launches BY DEF TaskTypes, UserTypes
    <2> QED BY <2>1 DEF Tasks!Begin, Launches
  <1>5. /\ \A r \in 1..MaxRuns : r \notin S => record'[r] = record[r] /\ term'[r] = term[r]
        /\ record' \in [1..MaxRuns -> Tasks!Record]
        /\ term' \in [1..MaxRuns -> {"none", "starting", "ready", "logged", "working", "closed"}]
    <2>1. /\ record \in [1..MaxRuns -> Tasks!Record]
          /\ term \in [1..MaxRuns -> {"none", "starting", "ready", "logged", "working", "closed"}]
      BY DEF TaskTypes, DataTypes
    <2>2. \A st \in Tasks!States : [state |-> st, pid |-> FALSE, stamp |-> 1] \in Tasks!Record
      BY DEF Tasks!Record
    <2>3. "running" \in Tasks!States BY DEF Tasks!States
    <2> QED BY <2>1, <2>2, <2>3 DEF Tasks!Begin
  <1>6. \A r \in S : /\ record'[r].state \in Tasks!States /\ record'[r].stamp = 1
                     /\ record'[r].state \in Tasks!Final => ~Tasks!Alive(r)'
    <2> SUFFICES ASSUME NEW r \in S
                 PROVE  /\ record'[r].state \in Tasks!States /\ record'[r].stamp = 1
                        /\ record'[r].state \in Tasks!Final => ~Tasks!Alive(r)'
      OBVIOUS
    <2>1. r \in 1..MaxRuns /\ r \notin Tasks!Runs BY <1>1
    <2>2. term[r] = "none" BY <2>1 DEF RecordsInv, FilesOK
    <2>3. CASE r = failing BY <2>1, <2>2, <2>3 DEF Tasks!Begin, Tasks!Alive
    <2>4. CASE r # failing BY <2>1, <2>4 DEF Tasks!Begin, Tasks!States, Tasks!Final
    <2> QED BY <2>3, <2>4
  <1>7. dir' = {} BY DEF Tasks!Begin
  <1>8. DataTypes'
    <2>1. DOMAIN run' = 1..Tasks!Count' /\ Tasks!Count' \in 0..MaxRuns BY <1>1, <1>2 DEF Tasks!Runs
    <2>2. \A r \in Tasks!Runs' : run'[r] \in [repo : Repos, server : BOOLEAN]
      BY <1>1, <1>2, <1>3, <1>4 DEF TaskTypes, DataTypes
    <2>3. old' \subseteq Tasks!Runs' BY <1>1, <1>2 DEF TaskTypes, DataTypes
    <2> QED BY <1>5, <1>7, <2>1, <2>2, <2>3 DEF TaskTypes, DataTypes
  <1>9. ReadTypes' BY <1>1, <1>2 DEF TaskTypes, ReadTypes
  <1>10. RecordsInv' /\ ResultsStay
    <2>1. Tasks!Count' \in Tasks!Count..MaxRuns /\ Tasks!Runs' = 1..Tasks!Count' BY <1>1, <1>2
    <2>2. S = Tasks!Count + 1 .. Tasks!Count' BY <1>2
    <2> HIDE DEF S
    <2> QED BY <1>3, <1>5, <1>6, <1>7, <2>1, <2>2, BegunData
  <1> QED BY <1>8, <1>9, <1>10

LEMMA LaunchSteps ==
    ASSUME Tasks!TaskConstants, TaskTypes, RecordsInv, NEW s \in Tasks!Sources, Tasks!Launch(s)
    PROVE  TaskTypes' /\ RecordsInv' /\ ResultsStay
  <1>1. ~Tasks!Executing /\ UNCHANGED <<old, known, read, shown, poll, item, inputs>>
    BY DEF Tasks!Launch
  <1>2. /\ launch \in [Tasks!Sources -> Launches] /\ faults \in 0..MaxFaults
        /\ Tasks!Count \in Nat /\ MaxRuns \in Nat
    BY RunsAreCounted DEF TaskTypes, UserTypes, Tasks!TaskConstants
  <1>3. "running" \in Tasks!States /\ "failed" \in Tasks!States BY DEF Tasks!States, Tasks!Final
  <1>4. ASSUME faults' \in 0..MaxFaults, launch' \in [Tasks!Sources -> Launches] PROVE UserTypes'
    BY <1>1, <1>4 DEF TaskTypes, UserTypes
  <1>5. launch' = [launch EXCEPT ![s].phase = "answered"] => launch' \in [Tasks!Sources -> Launches]
    BY <1>2 DEF Launches
  <1>6. Tasks!Fault => faults' \in 0..MaxFaults BY <1>2 DEF Tasks!Fault, Tasks!TaskConstants
  <1>7. CASE \E n \in IF launch[s].server THEN {1, 2} ELSE {1} :
                /\ Tasks!Count + n <= MaxRuns
                /\ Tasks!Begin(s, Tasks!Count + 1 .. Tasks!Count + n, 0, "running")
                /\ launch' = [launch EXCEPT ![s].phase = "answered", ![s].run = Tasks!Count + 1]
                /\ UNCHANGED faults
    <2>1. PICK n \in {1, 2} :
                /\ Tasks!Count + n <= MaxRuns
                /\ Tasks!Begin(s, Tasks!Count + 1 .. Tasks!Count + n, 0, "running")
                /\ launch' = [launch EXCEPT ![s].phase = "answered", ![s].run = Tasks!Count + 1]
                /\ UNCHANGED faults
      BY <1>7
    <2>2. launch' \in [Tasks!Sources -> Launches]
      <3>1. Tasks!Count + 1 \in 0..MaxRuns BY <1>2, <2>1
      <3> QED BY <1>2, <2>1, <3>1 DEF Launches
    <2>3. UserTypes' BY <1>2, <1>4, <2>1, <2>2
    <2>4. DataTypes' /\ ReadTypes' /\ RecordsInv' /\ ResultsStay BY <1>1, <1>3, <2>1, BeginSteps
    <2> QED BY <2>3, <2>4 DEF TaskTypes
  <1>8. CASE /\ \E n \in IF launch[s].server THEN {1, 2} ELSE {1} :
                   /\ Tasks!Count + n <= MaxRuns
                   /\ Tasks!Fault
                   /\ \E state \in {"failed", "running"} :
                         Tasks!Begin(s, Tasks!Count + 1 .. Tasks!Count + n, Tasks!Count + n, state)
                   /\ launch' = [launch EXCEPT ![s].phase = "answered"]
    <2>1. PICK n \in {1, 2}, state \in {"failed", "running"} :
                   /\ Tasks!Count + n <= MaxRuns
                   /\ Tasks!Fault
                   /\ Tasks!Begin(s, Tasks!Count + 1 .. Tasks!Count + n, Tasks!Count + n, state)
                   /\ launch' = [launch EXCEPT ![s].phase = "answered"]
      BY <1>8
    <2>2. UserTypes' BY <1>4, <1>5, <1>6, <2>1
    <2>3. state \in Tasks!States BY <1>3
    <2>4. DataTypes' /\ ReadTypes' /\ RecordsInv' /\ ResultsStay BY <1>1, <2>1, <2>3, BeginSteps
    <2> QED BY <2>2, <2>4 DEF TaskTypes
  <1>9. CASE /\ Tasks!Fault \/ (Tasks!Count = MaxRuns /\ UNCHANGED faults)
             /\ launch' = [launch EXCEPT ![s].phase = "answered"]
             /\ UNCHANGED <<run, record, term, dir>>
    <2>1. UserTypes' BY <1>2, <1>4, <1>5, <1>6, <1>9
    <2>2. DataTypes' /\ ReadTypes'
      BY <1>1, <1>9 DEF TaskTypes, DataTypes, ReadTypes, Tasks!Runs, Tasks!Count
    <2>3. LeftAlone BY <1>1, <1>9, UntouchedIsQuiet
    <2> QED BY <2>1, <2>2, <2>3, QuietSteps, QuietKeepsResults DEF TaskTypes
  <1> QED BY <1>7, <1>8, <1>9 DEF Tasks!Launch

-----------------------------------------------------------------------------
(* The steps of a read *)

\* A step of the read that touches no record and no answer but its own.
LEMMA ReadStepTypes ==
    ASSUME Tasks!TaskConstants, TaskTypes, read' \in Reads, read'.phase # "none", read.phase # "none",
           read'.waiters = read.waiters, read'.todo \subseteq Tasks!Runs, read'.settled \subseteq Tasks!Runs,
           read'.runs \in 0..Tasks!Count, faults' \in 0..MaxFaults,
           UNCHANGED <<run, record, term, old, launch, shown, poll, item, inputs>>,
           dir' \subseteq {"cache", "read"},
           known' \in [seen : [1..MaxRuns -> SeenRecords], latest : [Repos -> Tasks!Told]]
    PROVE  TaskTypes'
  <1>1. Tasks!Runs' = Tasks!Runs /\ Tasks!Count' = Tasks!Count BY DEF Tasks!Runs, Tasks!Count
  <1>2. read.waiters # {} BY DEF TaskTypes, ReadTypes, ReadOK
  <1>3. DataTypes' /\ ReadTypes' BY <1>1, <1>2 DEF TaskTypes, DataTypes, ReadTypes, ReadOK
  <1> QED BY <1>3 DEF TaskTypes, UserTypes

LEMMA ReadBeginsSteps ==
    ASSUME Tasks!TaskConstants, TaskTypes, RecordsInv, Tasks!ReadBegins
    PROVE  TaskTypes' /\ RecordsInv' /\ ResultsStay
  <1>1. /\ read \in Reads /\ read.phase = "asked" /\ ~Tasks!Executing
        /\ UNCHANGED <<run, record, term, old, known, launch, shown, poll, item, inputs, faults>>
    BY DEF Tasks!ReadBegins, TaskTypes, ReadTypes, ReadOK, Tasks!Executing
  <1>2. /\ Tasks!Runs' = Tasks!Runs /\ Tasks!Count' = Tasks!Count /\ Tasks!Count \in Nat /\ Tasks!Runs = 1..Tasks!Count
        /\ Tasks!Runs \subseteq 1..MaxRuns /\ Tasks!Settled \subseteq Tasks!Runs
    BY <1>1, RunsAreCounted DEF TaskTypes, Tasks!Runs, Tasks!Count, Tasks!Settled
  <1>3. read.meta = 0 BY <1>1 DEF RecordsInv, ScanOK, Reads
  <1>4. /\ known \in [seen : [1..MaxRuns -> SeenRecords], latest : [Repos -> Tasks!Told]]
        /\ dir \subseteq {"cache", "read"} /\ faults \in 0..MaxFaults
    BY DEF TaskTypes, DataTypes, UserTypes
  <1>5. FilesOK' /\ SeenOK' /\ ResultsStay
    BY <1>1, <1>2 DEF RecordsInv, FilesOK, SeenOK, Tasks!Absent, ResultsStay, Tasks!Alive
  <1>6. CASE /\ Tasks!IsFresh \/ Tasks!Runs = {}
             /\ read' = [read EXCEPT !.phase = "answered", !.told = known.latest,
                                     !.settled = Tasks!Settled, !.runs = Tasks!Count]
             /\ UNCHANGED dir
    <2>1. /\ read' \in Reads /\ read'.phase = "answered" /\ read'.told = known.latest
          /\ read'.settled = Tasks!Settled /\ read'.runs = Tasks!Count /\ read'.waiters = read.waiters
          /\ read'.todo = read.todo /\ read'.meta = 0
      BY <1>1, <1>2, <1>3, <1>4, <1>6 DEF Reads, ReadPhases, RunSets
    <2>2. TaskTypes'
      <3>1. read.todo \subseteq Tasks!Runs BY DEF TaskTypes, ReadTypes
      <3> QED BY <1>1, <1>2, <1>4, <1>6, <2>1, <3>1, ReadStepTypes
    <2>3. ScanOK' BY <1>1, <2>1 DEF ScanOK, Tasks!Executing, Tasks!Settled
    <2>4. KnownOK' BY <1>1, <1>2, <1>6, <2>1 DEF RecordsInv, KnownOK, Tasks!Latest, Tasks!Executing
    <2>5. AnswerOK' BY <1>1, <1>2, <2>1 DEF RecordsInv, KnownOK, AnswerOK
    <2>6. Tasks!ReadIsCurrent'
      <3> SUFFICES ASSUME NEW p \in Repos
                   PROVE  LET t == known.latest[p] IN
                          /\ t.run = Tasks!Latest(p, {r \in Tasks!Runs : known.seen[r].state # "unreadable"})
                          /\ t.run \in Tasks!Settled \/ t.state \in Tasks!Final => t.state = record[t.run].state
        BY <1>1, <1>2, <2>1 DEF Tasks!ReadIsCurrent, Tasks!Latest
      <3> DEFINE t == known.latest[p]
                 R == {r \in Tasks!Runs : known.seen[r].state # "unreadable"}
      <3>1. /\ t.run \in 0..Tasks!Count /\ (t.run = 0 <=> t.state = "absent")
            /\ t.state \in Tasks!Final => record[t.run].state = t.state
            /\ "cache" \in dir =>
                  (t.state \in {"stopped", "running"} => record[t.run].state = "running")
                  /\ t.run = Tasks!Latest(p, R)
        BY <1>1 DEF RecordsInv, KnownOK
      <3>2. t.state \in {"absent", "stopped", "running"} \cup Tasks!Final
        BY <1>4 DEF Tasks!Told, Tasks!States
      <3>3. CASE Tasks!IsFresh
        <4>1. "cache" \in dir BY <3>3 DEF Tasks!IsFresh
        <4>2. t.run \in Tasks!Settled => record[t.run].state \in Tasks!Final /\ t.run # 0
          BY <1>2 DEF Tasks!Settled
        <4> QED BY <3>1, <3>2, <4>1, <4>2 DEF Tasks!Final
      <3>4. CASE Tasks!Runs = {}
        <4>1. Tasks!Count = 0 /\ t.run = 0 /\ Tasks!Settled = {} BY <1>2, <3>1, <3>4
        <4>2. Tasks!Latest(p, R) \in 0..0
          <5>1. R \subseteq 1..0 BY <3>4
          <5> HIDE DEF R
          <5> QED BY <5>1, LatestIsOne
        <4> QED BY <3>1, <4>1, <4>2 DEF Tasks!Final
      <3> QED BY <1>6, <3>3, <3>4
    <2> QED BY <1>5, <2>2, <2>3, <2>4, <2>5, <2>6 DEF RecordsInv
  <1>7. CASE /\ read' = [read EXCEPT !.phase = "scan", !.todo = Tasks!Runs,
                                     !.settled = Tasks!Settled, !.runs = Tasks!Count]
             /\ dir' = dir \cup {"read"}
    <2>1. /\ read' \in Reads /\ read'.phase = "scan" /\ read'.settled = Tasks!Settled
          /\ read'.runs = Tasks!Count /\ read'.waiters = read.waiters /\ read'.todo = Tasks!Runs
          /\ read'.meta = 0
      BY <1>1, <1>2, <1>3, <1>7 DEF Reads, ReadPhases, RunSets
    <2>2. TaskTypes' BY <1>1, <1>2, <1>4, <1>7, <2>1, ReadStepTypes
    <2>3. ScanOK' BY <1>1, <1>2, <2>1 DEF ScanOK, Tasks!Executing, Tasks!Settled
    <2>4. KnownOK' BY <1>1, <1>2, <1>7, <2>1 DEF RecordsInv, KnownOK, Tasks!Executing
    <2>5. AnswerOK' /\ Tasks!ReadIsCurrent' BY <2>1 DEF AnswerOK, Tasks!ReadIsCurrent
    <2> QED BY <1>5, <2>2, <2>3, <2>4, <2>5 DEF RecordsInv
  <1> QED BY <1>6, <1>7 DEF Tasks!ReadBegins

LEMMA ReadMetadataSteps ==
    ASSUME Tasks!TaskConstants, TaskTypes, RecordsInv, Tasks!ReadMetadata
    PROVE  TaskTypes' /\ RecordsInv' /\ ResultsStay
  <1> DEFINE m == Min(read.todo)
  <1>1. /\ read \in Reads /\ read.phase = "scan" /\ read.meta = 0 /\ Tasks!Executing
        /\ UNCHANGED <<run, record, term, old, dir, known, launch, shown, poll, item, inputs, faults>>
    BY DEF Tasks!ReadMetadata, TaskTypes, ReadTypes, ReadOK, Tasks!Executing
  <1>2. /\ Tasks!Runs' = Tasks!Runs /\ Tasks!Count' = Tasks!Count /\ Tasks!Count \in Nat /\ Tasks!Runs = 1..Tasks!Count
        /\ Tasks!Runs \subseteq 1..MaxRuns /\ read.todo \subseteq Tasks!Runs /\ read.settled \subseteq Tasks!Runs
        /\ read.runs \in 0..Tasks!Count
    BY <1>1, RunsAreCounted DEF TaskTypes, ReadTypes, Tasks!Runs, Tasks!Count
  <1>3. m \in read.todo /\ m \in Tasks!Runs /\ m \in 1..MaxRuns
    <2>1. read.todo # {} BY DEF Tasks!ReadMetadata
    <2> QED BY <1>2, <2>1, MinIsLeast
  <1>4. /\ known \in [seen : [1..MaxRuns -> SeenRecords], latest : [Repos -> Tasks!Told]]
        /\ dir \subseteq {"cache", "read"} /\ faults \in 0..MaxFaults
        /\ record[m].stamp \in Nat
    BY <1>3 DEF TaskTypes, DataTypes, UserTypes, Tasks!Record
  <1>5. FilesOK' /\ SeenOK' /\ ResultsStay
    BY <1>1, <1>2 DEF RecordsInv, FilesOK, SeenOK, Tasks!Absent, ResultsStay, Tasks!Alive
  <1>6. ASSUME read' \in Reads, read'.phase = "scan", read'.settled = read.settled,
               read'.runs = read.runs, read'.waiters = read.waiters,
               read'.todo \subseteq read.todo, ScanOK'
        PROVE  TaskTypes' /\ RecordsInv' /\ ResultsStay
    <2>1. TaskTypes' BY <1>1, <1>2, <1>4, <1>6, ReadStepTypes
    <2>2. KnownOK' BY <1>1, <1>2, <1>6 DEF RecordsInv, KnownOK, Tasks!Executing
    <2>3. AnswerOK' /\ Tasks!ReadIsCurrent' BY <1>6 DEF AnswerOK, Tasks!ReadIsCurrent
    <2> QED BY <1>5, <1>6, <2>1, <2>2, <2>3 DEF RecordsInv
  <1>7. CASE known.seen[m].stamp = record[m].stamp
    <2>1. read' = [read EXCEPT !.todo = @ \ {m}] BY <1>7, SameMin DEF Tasks!ReadMetadata
    <2>2. /\ read' \in Reads /\ read'.phase = "scan" /\ read'.settled = read.settled
          /\ read'.runs = read.runs /\ read'.waiters = read.waiters
          /\ read'.todo = read.todo \ {m} /\ read'.meta = 0
      BY <1>1, <2>1 DEF Reads, RunSets
    <2>3. /\ known.seen[m].state \in {record[m].state, "unreadable"}
          /\ record[m].state \in Tasks!States
      BY <1>3, <1>7 DEF RecordsInv, SeenOK, FilesOK
    <2>4. ScanOK'
      BY <1>1, <1>2, <2>2, <2>3 DEF RecordsInv, ScanOK, Tasks!Executing, Tasks!States, Tasks!Final
    <2> QED BY <1>6, <2>2, <2>4
  <1>8. CASE known.seen[m].stamp # record[m].stamp
    <2>1. read' = [read EXCEPT !.meta = record[m].stamp] BY <1>8, SameMin DEF Tasks!ReadMetadata
    <2>2. /\ read' \in Reads /\ read'.phase = "scan" /\ read'.settled = read.settled
          /\ read'.runs = read.runs /\ read'.waiters = read.waiters
          /\ read'.todo = read.todo /\ read'.meta = record[m].stamp
      BY <1>1, <1>4, <2>1 DEF Reads
    <2>3. ScanOK' BY <1>1, <1>2, <1>3, <1>4, <2>2 DEF RecordsInv, ScanOK, Tasks!Executing
    <2> QED BY <1>6, <2>2, <2>3
  <1> QED BY <1>7, <1>8

LEMMA ReadContentSteps ==
    ASSUME Tasks!TaskConstants, TaskTypes, RecordsInv, Tasks!ReadContent
    PROVE  TaskTypes' /\ RecordsInv' /\ ResultsStay
  <1> DEFINE m == Min(read.todo)
             taken == [record[m] EXCEPT !.stamp = read.meta]
             unread == [state |-> "unreadable", pid |-> FALSE, stamp |-> read.meta]
  <1>1. /\ read \in Reads /\ read.phase = "scan" /\ read.meta # 0 /\ Tasks!Executing
        /\ UNCHANGED <<run, record, term, old, dir, launch, shown, poll, item, inputs>>
        /\ faults \in 0..MaxFaults
    BY DEF Tasks!ReadContent, TaskTypes, ReadTypes, UserTypes, ReadOK, Tasks!Executing
  <1>2. /\ Tasks!Runs' = Tasks!Runs /\ Tasks!Count' = Tasks!Count /\ Tasks!Count \in Nat /\ Tasks!Runs = 1..Tasks!Count
        /\ Tasks!Runs \subseteq 1..MaxRuns /\ read.todo \subseteq Tasks!Runs /\ read.settled \subseteq Tasks!Runs
        /\ read.runs \in 0..Tasks!Count
    BY <1>1, RunsAreCounted DEF TaskTypes, ReadTypes, Tasks!Runs, Tasks!Count
  <1>3. m \in read.todo /\ m \in Tasks!Runs /\ m \in 1..MaxRuns
    <2>1. read.todo # {} BY <1>1 DEF RecordsInv, ScanOK
    <2> QED BY <1>2, <2>1, MinIsLeast
  <1>4. /\ known \in [seen : [1..MaxRuns -> SeenRecords], latest : [Repos -> Tasks!Told]]
        /\ dir \subseteq {"cache", "read"} /\ record[m] \in Tasks!Record
        /\ record[m].state \in Tasks!States /\ read.meta \in Nat /\ read.meta <= record[m].stamp
    BY <1>1, <1>3 DEF TaskTypes, DataTypes, RecordsInv, FilesOK, ScanOK, Reads
  <1>5. /\ taken \in SeenRecords /\ taken.state = record[m].state /\ taken.stamp = read.meta
        /\ unread \in SeenRecords /\ unread.state = "unreadable" /\ unread.stamp = read.meta
    BY <1>4 DEF SeenRecords, Tasks!Record
  <1>6. faults' \in 0..MaxFaults BY <1>1 DEF Tasks!ReadContent, Tasks!Fault, Tasks!TaskConstants
  <1>7. PICK c \in SeenRecords : /\ c.state \in {record[m].state, "unreadable"}
                                 /\ c.stamp = read.meta
                                 /\ known' = [known EXCEPT !.seen[m] = c]
    <2>1. known' = [known EXCEPT !.seen[m] = taken] \/ known' = [known EXCEPT !.seen[m] = unread]
      BY SameMin DEF Tasks!ReadContent
    <2> HIDE DEF taken, unread
    <2> QED BY <1>5, <2>1
  <1>8. /\ known' \in [seen : [1..MaxRuns -> SeenRecords], latest : [Repos -> Tasks!Told]]
        /\ known'.latest = known.latest /\ known'.seen[m] = c
        /\ \A r \in 1..MaxRuns : r # m => known'.seen[r] = known.seen[r]
    <2>1. known' = [known EXCEPT !.seen = [known.seen EXCEPT ![m] = c]] BY <1>4, <1>7
    <2> QED BY <1>3, <1>4, <2>1
  <1>9. /\ read' \in Reads /\ read'.phase = "scan" /\ read'.settled = read.settled
        /\ read'.runs = read.runs /\ read'.waiters = read.waiters
        /\ read'.todo = read.todo \ {m} /\ read'.meta = 0
    <2>1. read' = [read EXCEPT !.todo = @ \ {m}, !.meta = 0] BY SameMin DEF Tasks!ReadContent
    <2> QED BY <1>1, <2>1 DEF Reads, RunSets
  <1>10. TaskTypes'
    <2>1. /\ read'.todo \subseteq Tasks!Runs /\ read'.settled \subseteq Tasks!Runs /\ read'.runs \in 0..Tasks!Count
          /\ read'.phase # "none" /\ read.phase # "none" /\ dir' \subseteq {"cache", "read"}
      BY <1>1, <1>2, <1>4, <1>9
    <2> QED BY <1>1, <1>6, <1>8, <1>9, <2>1, ReadStepTypes
  <1>11. ResultsStay BY <1>1 DEF ResultsStay
  <1>12. FilesOK' BY <1>1, <1>2, <1>3, <1>8 DEF RecordsInv, FilesOK, Tasks!Alive
  <1>13. SeenOK'
    <2> SUFFICES ASSUME NEW r \in 1..MaxRuns
                 PROVE  /\ known'.seen[r].stamp <= record[r].stamp
                        /\ known'.seen[r].state = "absent" => known'.seen[r].stamp = 0
                        /\ known'.seen[r].state \in Tasks!Final => record[r].state = known'.seen[r].state
                        /\ known'.seen[r].stamp = record[r].stamp
                              => known'.seen[r].state \in {record[r].state, "unreadable"}
      BY <1>1 DEF SeenOK
    <2>1. CASE r = m BY <1>4, <1>7, <1>8, <2>1 DEF Tasks!States, Tasks!Final
    <2>2. CASE r # m BY <1>8, <2>2 DEF RecordsInv, SeenOK
    <2> QED BY <2>1, <2>2
  <1>14. ScanOK'
    <2>1. \A r \in Tasks!Runs \ (read.todo \ {m}) :
              /\ known'.seen[r].state # "absent"
              /\ "read" \in dir /\ known'.seen[r].state = "running" => record[r].state = "running"
      <3> SUFFICES ASSUME NEW r \in Tasks!Runs, r \notin read.todo \/ r = m
                   PROVE  /\ known'.seen[r].state # "absent"
                          /\ "read" \in dir /\ known'.seen[r].state = "running"
                                => record[r].state = "running"
        OBVIOUS
      <3>1. CASE r = m BY <1>4, <1>7, <1>8, <3>1 DEF Tasks!States, Tasks!Final
      <3>2. CASE r # m BY <1>1, <1>2, <1>8, <3>2 DEF RecordsInv, ScanOK
      <3> QED BY <3>1, <3>2
    <2> QED BY <1>1, <1>2, <1>9, <2>1 DEF RecordsInv, ScanOK, Tasks!Executing
  <1>15. KnownOK'
    <2>1. Tasks!Executing' BY <1>9 DEF Tasks!Executing
    <2> QED BY <1>1, <1>2, <1>8, <2>1 DEF RecordsInv, KnownOK
  <1>16. AnswerOK' /\ Tasks!ReadIsCurrent' BY <1>9 DEF AnswerOK, Tasks!ReadIsCurrent
  <1> QED BY <1>10, <1>11, <1>12, <1>13, <1>14, <1>15, <1>16 DEF RecordsInv

LEMMA ListProcessesSteps ==
    ASSUME Tasks!TaskConstants, TaskTypes, RecordsInv, Tasks!ListProcesses
    PROVE  TaskTypes' /\ RecordsInv' /\ ResultsStay
  <1>1. /\ read \in Reads /\ read.phase = "scan" /\ read.todo = {} /\ Tasks!Executing
        /\ UNCHANGED <<run, record, term, old, dir, known, launch, shown, poll, item, inputs>>
        /\ faults \in 0..MaxFaults
    BY DEF Tasks!ListProcesses, TaskTypes, ReadTypes, UserTypes, ReadOK, Tasks!Executing
  <1>2. /\ Tasks!Runs' = Tasks!Runs /\ Tasks!Count' = Tasks!Count /\ Tasks!Count \in Nat /\ Tasks!Runs = 1..Tasks!Count
        /\ Tasks!Runs \subseteq 1..MaxRuns /\ Tasks!Settled \subseteq Tasks!Runs
        /\ {r \in Tasks!Runs : Tasks!Alive(r)} \subseteq 1..MaxRuns
        /\ {r \in Tasks!Runs : term[r] = "working"} \subseteq 1..MaxRuns
        /\ read.runs \in 0..Tasks!Count
    BY <1>1, RunsAreCounted DEF TaskTypes, ReadTypes, Tasks!Runs, Tasks!Count, Tasks!Settled
  <1>3. /\ known \in [seen : [1..MaxRuns -> SeenRecords], latest : [Repos -> Tasks!Told]]
        /\ dir \subseteq {"cache", "read"} /\ read.meta = 0
    BY <1>1 DEF TaskTypes, DataTypes, RecordsInv, ScanOK
  <1>4. faults' \in 0..MaxFaults BY <1>1 DEF Tasks!ListProcesses, Tasks!Fault, Tasks!TaskConstants
  <1>5. /\ read' \in Reads /\ read'.phase \in {"reread", "unlisted"} /\ read'.settled = Tasks!Settled
        /\ read'.runs = read.runs /\ read'.waiters = read.waiters /\ read'.todo = {}
        /\ read'.meta = 0
    <2>1. CASE read' = [read EXCEPT !.phase = "reread", !.shells = {r \in Tasks!Runs : Tasks!Alive(r)},
                          !.settled = Tasks!Settled, !.working = {r \in Tasks!Runs : term[r] = "working"}]
      <3> DEFINE A == {r \in Tasks!Runs : Tasks!Alive(r)}
                 W == {r \in Tasks!Runs : term[r] = "working"}
      <3>1. A \in RunSets /\ W \in RunSets /\ Tasks!Settled \in RunSets BY <1>2 DEF RunSets
      <3>2. read' = [read EXCEPT !.phase = "reread", !.shells = A, !.settled = Tasks!Settled, !.working = W]
        BY <2>1
      <3> HIDE DEF A, W
      <3> QED BY <1>1, <1>3, <3>1, <3>2 DEF Reads, ReadPhases
    <2>2. CASE read' = [read EXCEPT !.phase = "unlisted", !.settled = Tasks!Settled]
      BY <1>1, <1>2, <1>3, <2>2 DEF Reads, ReadPhases, RunSets
    <2> QED BY <2>1, <2>2 DEF Tasks!ListProcesses
  <1>6. TaskTypes'
    <2>1. /\ read'.todo \subseteq Tasks!Runs /\ read'.settled \subseteq Tasks!Runs /\ read'.runs \in 0..Tasks!Count
          /\ read'.phase # "none" /\ read.phase # "none" /\ dir' \subseteq {"cache", "read"}
      BY <1>1, <1>2, <1>3, <1>5
    <2> QED BY <1>1, <1>3, <1>4, <1>5, <2>1, ReadStepTypes
  <1>7. FilesOK' /\ SeenOK' /\ ResultsStay
    BY <1>1, <1>2 DEF RecordsInv, FilesOK, SeenOK, Tasks!Absent, ResultsStay, Tasks!Alive
  <1>8. ScanOK' BY <1>1, <1>2, <1>5 DEF RecordsInv, ScanOK, Tasks!Executing, Tasks!Settled
  <1>9. KnownOK'
    <2>1. Tasks!Executing' BY <1>5 DEF Tasks!Executing
    <2> QED BY <1>1, <1>2, <2>1 DEF RecordsInv, KnownOK
  <1>10. AnswerOK' /\ Tasks!ReadIsCurrent' BY <1>5 DEF AnswerOK, Tasks!ReadIsCurrent
  <1> QED BY <1>6, <1>7, <1>8, <1>9, <1>10 DEF RecordsInv

\* What becomes of the record of a run when it is answered.
LEMMA ProjectedIsSo ==
    ASSUME Tasks!TaskConstants, TaskTypes, RecordsInv, Tasks!Executing, read.todo = {},
           NEW r \in Tasks!Readable, NEW named, NEW missed
    PROVE  LET state == Tasks!Projected(r, named, missed) IN
           /\ state \in {"stopped"} \cup Tasks!States
           /\ state \in Tasks!Final => record[r].state = state
           /\ r \in read.settled \ missed => record[r].state = state
           /\ "read" \in dir /\ state \in {"stopped", "running"} => record[r].state = "running"
  <1> DEFINE rec == Tasks!Reread(r, missed)
             state == Tasks!Projected(r, named, missed)
  <1>1. r \in Tasks!Runs /\ r \in 1..MaxRuns /\ known.seen[r].state \in Tasks!States
    BY RunsAreCounted DEF TaskTypes, Tasks!Readable
  <1>2. /\ record[r].state \in Tasks!States
        /\ known.seen[r].state \in Tasks!Final => record[r].state = known.seen[r].state
        /\ "read" \in dir /\ known.seen[r].state = "running" => record[r].state = "running"
    BY <1>1 DEF RecordsInv, FilesOK, SeenOK, ScanOK
  <1>3. r \in read.settled => record[r].state \in Tasks!Final BY DEF RecordsInv, ScanOK
  <1>4. /\ rec.state \in Tasks!States
        /\ rec.state \in Tasks!Final => record[r].state = rec.state
        /\ r \in read.settled \ missed => record[r].state = rec.state
        /\ "read" \in dir /\ rec.state = "running" => record[r].state = "running"
    BY <1>1, <1>2, <1>3 DEF Tasks!Reread, Tasks!States, Tasks!Final
  <1>5. \/ state = "stopped" /\ rec.state = "running"
        \/ state = rec.state
    BY DEF Tasks!Projected, Tasks!Dead
  <1>6. r \in read.settled \ missed => rec.state # "running" BY <1>3, <1>4 DEF Tasks!Final
  <1> HIDE DEF rec, state
  <1>7. /\ state \in {"stopped"} \cup Tasks!States
        /\ state \in Tasks!Final => record[r].state = state
        /\ r \in read.settled \ missed => record[r].state = state
        /\ "read" \in dir /\ state \in {"stopped", "running"} => record[r].state = "running"
    BY <1>4, <1>5, <1>6 DEF Tasks!States, Tasks!Final
  <1> QED BY <1>7 DEF state

LEMMA AnswerSteps ==
    ASSUME Tasks!TaskConstants, TaskTypes, RecordsInv, Tasks!Executing, read.todo = {}, NEW named, NEW missed,
           Tasks!Answer(named, missed), faults' \in 0..MaxFaults,
           UNCHANGED <<run, record, term, old, launch, shown, poll, item, inputs>>
    PROVE  TaskTypes' /\ RecordsInv' /\ ResultsStay
  <1> DEFINE newest(p) == Tasks!Latest(p, Tasks!Readable)
             told == [p \in Repos |-> IF newest(p) = 0 THEN Tasks!Nothing
                                      ELSE [run |-> newest(p), state |-> Tasks!Projected(newest(p), named, missed)]]
             R == {r \in Tasks!Runs : known.seen[r].state # "unreadable"}
  <1>1. /\ Tasks!Runs' = Tasks!Runs /\ Tasks!Count' = Tasks!Count /\ Tasks!Count \in Nat /\ Tasks!Runs = 1..Tasks!Count
        /\ Tasks!Runs \subseteq 1..MaxRuns /\ read.settled \subseteq Tasks!Runs
        /\ read.runs = Tasks!Count
    BY RunsAreCounted DEF TaskTypes, ReadTypes, Tasks!Runs, Tasks!Count, RecordsInv, ScanOK
  <1>2. /\ known \in [seen : [1..MaxRuns -> SeenRecords], latest : [Repos -> Tasks!Told]]
        /\ read \in Reads /\ read.phase # "none"
    BY DEF TaskTypes, DataTypes, ReadTypes, ReadOK, Tasks!Executing
  <1>3. Tasks!Readable = R
    <2>1. \A r \in Tasks!Runs : known.seen[r].state # "absent" BY DEF RecordsInv, ScanOK
    <2>2. \A r \in Tasks!Runs : known.seen[r].state \in {"absent", "unreadable"} \cup Tasks!States
      BY <1>1, <1>2 DEF SeenRecords
    <2> QED BY <2>1, <2>2 DEF Tasks!Readable, Tasks!States, Tasks!Final
  <1>4. \A p \in Repos : newest(p) \in 0..Tasks!Count /\ (newest(p) # 0 => newest(p) \in Tasks!Readable)
    <2>1. Tasks!Readable \subseteq 1..Tasks!Count BY <1>1 DEF Tasks!Readable
    <2> QED BY <1>1, <2>1, LatestIsOne
  <1>5. ASSUME NEW p \in Repos
        PROVE  /\ told[p] \in Tasks!Told /\ told[p].run = newest(p) /\ told[p].run \in 0..Tasks!Count
               /\ told[p].run = 0 <=> told[p].state = "absent"
               /\ told[p].state \in Tasks!Final => record[told[p].run].state = told[p].state
               /\ told[p].run \in read.settled \ missed => told[p].state = record[told[p].run].state
               /\ "read" \in dir /\ told[p].state \in {"stopped", "running"}
                     => record[told[p].run].state = "running"
    <2> DEFINE n == newest(p)
    <2>1. n \in 0..Tasks!Count /\ n \in 0..MaxRuns
      BY <1>1, <1>4 DEF TaskTypes, DataTypes, Tasks!TaskConstants
    <2>2. CASE n = 0
      <3>1. told[p] = Tasks!Nothing /\ n \notin Tasks!Runs BY <1>1, <2>2
      <3>2. told[p].run = 0 /\ told[p].state = "absent" /\ told[p] \in Tasks!Told
        BY <3>1, NothingIsTold DEF Tasks!Nothing
      <3> QED BY <1>1, <2>1, <2>2, <3>1, <3>2 DEF Tasks!Final
    <2>3. CASE n # 0
      <3> DEFINE state == Tasks!Projected(n, named, missed)
      <3>1. told[p] = [run |-> n, state |-> state] /\ n \in Tasks!Readable BY <1>4, <2>3
      <3>2. /\ state \in {"stopped"} \cup Tasks!States
            /\ state \in Tasks!Final => record[n].state = state
            /\ n \in read.settled \ missed => record[n].state = state
            /\ "read" \in dir /\ state \in {"stopped", "running"} => record[n].state = "running"
        <4> HIDE DEF n
        <4> QED BY <3>1, ProjectedIsSo
      <3> HIDE DEF told, state, n
      <3>3. told[p] \in Tasks!Told /\ told[p].run = n /\ told[p].state = state
        BY <2>1, <3>1, <3>2 DEF Tasks!Told
      <3>4. state # "absent" BY <3>2 DEF Tasks!States, Tasks!Final
      <3> QED BY <2>1, <2>3, <3>2, <3>3, <3>4 DEF n
    <2> QED BY <2>2, <2>3
  <1>6. told \in [Repos -> Tasks!Told] BY <1>5
  <1>7. /\ known' = [known EXCEPT !.latest = told]
        /\ dir' = {who \in {"cache"} : "read" \in dir}
        /\ read' = [Tasks!Idle EXCEPT !.phase = "answered", !.waiters = read.waiters, !.told = told,
                                !.runs = read.runs, !.settled = read.settled \ missed]
    BY DEF Tasks!Answer
  <1> HIDE DEF told
  <1>8. /\ known' \in [seen : [1..MaxRuns -> SeenRecords], latest : [Repos -> Tasks!Told]]
        /\ known'.seen = known.seen /\ known'.latest = told
        /\ dir' \subseteq {"cache", "read"} /\ ("cache" \in dir' <=> "read" \in dir)
    BY <1>2, <1>6, <1>7
  <1>9. /\ read' \in Reads /\ read'.phase = "answered" /\ read'.told = told
        /\ read'.settled = read.settled \ missed /\ read'.runs = Tasks!Count
        /\ read'.waiters = read.waiters /\ read'.todo = {} /\ read'.meta = 0
    <2>1. /\ read.waiters \in SUBSET Tasks!Readers /\ read.settled \ missed \in RunSets
          /\ read.runs \in Nat
      BY <1>1, <1>2 DEF Reads, RunSets
    <2>2. Tasks!Idle \in Reads BY IdleIsRead DEF ReadOK
    <2> QED BY <1>1, <1>6, <1>7, <2>1, <2>2 DEF Reads, ReadPhases, Tasks!Idle
  <1>10. TaskTypes'
    <2>1. /\ read'.todo \subseteq Tasks!Runs /\ read'.settled \subseteq Tasks!Runs /\ read'.runs \in 0..Tasks!Count
          /\ read'.phase # "none"
      BY <1>1, <1>9
    <2> QED BY <1>2, <1>8, <1>9, <2>1, ReadStepTypes
  <1>11. FilesOK' /\ SeenOK' /\ ResultsStay
    BY <1>1, <1>8 DEF RecordsInv, FilesOK, SeenOK, Tasks!Absent, ResultsStay, Tasks!Alive
  <1>12. ScanOK' BY <1>9 DEF RecordsInv, ScanOK, Tasks!Executing
  <1>13. \A p \in Repos : told[p].run = Tasks!Latest(p, R) BY <1>3, <1>5
  <1>14. \A p \in Repos : Tasks!Latest(p, R)' = Tasks!Latest(p, R)
    <2>1. R' = R BY <1>1, <1>8
    <2> HIDE DEF R
    <2> QED BY <2>1 DEF Tasks!Latest
  <1>15. KnownOK'
    <2> SUFFICES ASSUME NEW p \in Repos
                 PROVE  LET t == told[p] IN
                        /\ t.run \in 0..Tasks!Count /\ (t.run = 0 <=> t.state = "absent")
                        /\ t.state \in Tasks!Final => record[t.run].state = t.state
                        /\ "read" \in dir =>
                              /\ t.state \in {"stopped", "running"} => record[t.run].state = "running"
                              /\ t.run = Tasks!Latest(p, R)'
      BY <1>1, <1>8 DEF KnownOK
    <2> QED BY <1>5, <1>13, <1>14
  <1>16. AnswerOK' BY <1>1, <1>5, <1>9 DEF AnswerOK
  <1>17. Tasks!ReadIsCurrent'
    <2> SUFFICES ASSUME NEW p \in Repos
                 PROVE  LET t == told[p] IN
                        /\ t.run = Tasks!Latest(p, R)'
                        /\ t.run \in read.settled \ missed \/ t.state \in Tasks!Final
                              => t.state = record[t.run].state
      <3>1. 1..Tasks!Count = Tasks!Runs' BY <1>1
      <3> QED BY <1>9, <3>1 DEF Tasks!ReadIsCurrent
    <2> QED BY <1>5, <1>13, <1>14
  <1> QED BY <1>10, <1>11, <1>12, <1>15, <1>16, <1>17 DEF RecordsInv

LEMMA ReadEndsSteps ==
    ASSUME Tasks!TaskConstants, TaskTypes, RecordsInv, Tasks!ReadEnds
    PROVE  TaskTypes' /\ RecordsInv' /\ ResultsStay
  <1>1. UNCHANGED <<run, record, term, old, launch, shown, poll, item, inputs>>
    BY DEF Tasks!ReadEnds
  <1>2. PICK named, missed : Tasks!Answer(named, missed) BY DEF Tasks!ReadEnds
  <1>3. faults' \in 0..MaxFaults
    BY DEF Tasks!ReadEnds, Tasks!Fault, TaskTypes, UserTypes, Tasks!TaskConstants
  <1>4. Tasks!Executing /\ read.todo = {}
    BY DEF Tasks!ReadEnds, Tasks!ScannedFinal, Tasks!Listed, Tasks!Executing, RecordsInv, ScanOK
  <1> QED BY <1>1, <1>2, <1>3, <1>4, AnswerSteps

-----------------------------------------------------------------------------
(* The invariant *)

TasksInv == TaskTypes /\ RecordsInv /\ Tasks!BatchTellsItsRun

LEMMA InitTasks == ASSUME Tasks!TaskConstants, Tasks!Init PROVE TasksInv
  <1>1. run = <<>> /\ Tasks!Runs = {} /\ Tasks!Count = 0
    <2>1. run = <<>> /\ Tasks!Runs = {} BY DEF Tasks!Init, Tasks!Runs
    <2> QED BY <2>1, FS_EmptySet, SameCardinality DEF Tasks!Count
  <1>2. {"board"} \in SUBSET Tasks!Readers BY DEF Tasks!Readers
  <1>3. JoinedTo(Tasks!Idle, {"board"}, read) BY <1>2, IdleIsRead, JoinedIsRead DEF Tasks!Init
  <1>4. /\ ReadOK(read) /\ read.waiters = {"board"} /\ read.phase = "asked" /\ read.runs = 0
        /\ read.todo = {} /\ read.meta = 0 /\ read.settled = {}
    BY <1>3 DEF JoinedTo, Tasks!Idle, ReadOK
  <1>5. Tasks!Absent \in Tasks!Record /\ Tasks!Absent \in SeenRecords /\ Tasks!Absent.state = "absent" /\ Tasks!Absent.stamp = 0
    BY DEF Tasks!Absent, Tasks!Record, SeenRecords
  <1>6. DataTypes
    <2>1. /\ known.seen \in [1..MaxRuns -> SeenRecords] /\ known.latest \in [Repos -> Tasks!Told]
          /\ known = [seen |-> known.seen, latest |-> known.latest]
      BY <1>5, NothingIsTold DEF Tasks!Init
    <2>2. known \in [seen : [1..MaxRuns -> SeenRecords], latest : [Repos -> Tasks!Told]] BY <2>1
    <2>3. DOMAIN run = 1..Tasks!Count /\ Tasks!Count \in 0..MaxRuns
      BY <1>1 DEF Tasks!TaskConstants, Tasks!Runs
    <2> QED BY <1>1, <1>5, <2>2, <2>3 DEF DataTypes, Tasks!Init
  <1>7. ReadTypes BY <1>1, <1>4 DEF ReadTypes
  <1>8. UserTypes
    <2>1. [state |-> "none", run |-> 0, attempts |-> 0] \in Items BY DEF Items, Tasks!TaskConstants
    <2> QED BY <1>4, <2>1, NothingIsTold, NoLaunchIsLaunch DEF UserTypes, Tasks!Init, Tasks!TaskConstants
  <1>9. /\ record = [r \in 1..MaxRuns |-> Tasks!Absent] /\ term = [r \in 1..MaxRuns |-> "none"]
        /\ known.seen = [r \in 1..MaxRuns |-> Tasks!Absent] /\ dir = {}
        /\ known.latest = [p \in Repos |-> Tasks!Nothing]
    BY DEF Tasks!Init
  <1>10. FilesOK /\ SeenOK BY <1>1, <1>5, <1>9 DEF FilesOK, SeenOK, Tasks!Final
  <1>11. ScanOK /\ AnswerOK /\ Tasks!ReadIsCurrent
    BY <1>4 DEF ScanOK, AnswerOK, Tasks!ReadIsCurrent, Tasks!Executing
  <1>12. KnownOK BY <1>1, <1>9 DEF KnownOK, Tasks!Nothing, Tasks!Final
  <1>13. Tasks!BatchTellsItsRun BY DEF Tasks!Init, Tasks!BatchTellsItsRun
  <1> QED BY <1>6, <1>7, <1>8, <1>10, <1>11, <1>12, <1>13 DEF TaskTypes, RecordsInv, TasksInv

\* Items that succeed stay told right while results stay.
LEMMA ItemsStayRight ==
    ASSUME TaskTypes, Tasks!BatchTellsItsRun, ResultsStay,
           \A p \in Repos : item'[p].state = "succeeded" => item'[p] = item[p]
    PROVE  Tasks!BatchTellsItsRun'
  <1> SUFFICES ASSUME NEW p \in Repos, item'[p].state = "succeeded"
               PROVE  item'[p].run # 0 /\ record'[item'[p].run].state = "succeeded"
    BY DEF Tasks!BatchTellsItsRun
  <1>1. /\ item'[p] = item[p] /\ item[p].run # 0 /\ item[p].run \in 0..MaxRuns
        /\ record[item[p].run].state = "succeeded"
    BY DEF Tasks!BatchTellsItsRun, TaskTypes, UserTypes, Items
  <1>2. item[p].run \in 1..MaxRuns BY <1>1
  <1> QED BY <1>1, <1>2 DEF ResultsStay, Tasks!Final

LEMMA DeliverTellsItems ==
    ASSUME Tasks!TaskConstants, TasksInv, Tasks!Deliver
    PROVE  Tasks!BatchTellsItsRun'
  <1> SUFFICES ASSUME NEW p \in Repos, item'[p].state = "succeeded"
               PROVE  item'[p].run # 0 /\ record'[item'[p].run].state = "succeeded"
    BY DEF Tasks!BatchTellsItsRun
  <1>1. /\ UNCHANGED record /\ read.phase \in {"answered", "failed"}
        /\ item'[p] = IF p \in read.waiters THEN Tasks!Waited(p) ELSE item[p]
    BY DEF Tasks!Deliver
  <1>2. item[p] \in Items BY DEF TasksInv, TaskTypes, UserTypes
  <1>3. item[p].state = "succeeded" => item[p].run # 0 /\ record[item[p].run].state = "succeeded"
    BY DEF TasksInv, Tasks!BatchTellsItsRun
  <1>4. CASE item'[p] = Tasks!Waited(p)
    <2> DEFINE it == item[p]
               told == read.told[p]
    <2>1. Tasks!Waited(p).state = "succeeded" =>
            /\ read.phase # "failed" /\ told.run = it.run /\ told.state = "succeeded"
            /\ Tasks!Waited(p).run = it.run
      BY <1>2 DEF Tasks!Waited, Items
    <2>2. read.phase = "answered" /\ told.run = it.run /\ told.state = "succeeded"
          /\ item'[p].run = it.run
      BY <1>1, <1>4, <2>1
    <2>3. told.run # 0 /\ record[told.run].state = "succeeded"
      BY <2>2 DEF TasksInv, RecordsInv, AnswerOK, Tasks!ReadIsCurrent, Tasks!Final
    <2> QED BY <1>1, <2>2, <2>3
  <1> QED BY <1>1, <1>3, <1>4

LEMMA NextTasks == ASSUME Tasks!TaskConstants, TasksInv, [Tasks!Next]_(Tasks!vars) PROVE TasksInv'
  <1> USE DEF TasksInv
  <1>1. ASSUME TaskTypes' /\ LeftAlone, \A p \in Repos : item'[p].state = "succeeded" => item'[p] = item[p]
        PROVE  TasksInv'
    BY <1>1, QuietSteps, QuietKeepsResults, ItemsStayRight
  <1>2. ASSUME TaskTypes' /\ RecordsInv' /\ ResultsStay, UNCHANGED item PROVE TasksInv'
    BY <1>2, ItemsStayRight
  <1>3. ASSUME NEW s \in Tasks!Sources, Tasks!Launch(s) PROVE TasksInv'
    BY <1>2, <1>3, LaunchSteps DEF Tasks!Launch
  <1>4. ASSUME NEW s \in Tasks!Sources, Tasks!LaunchAnswered(s) PROVE TasksInv'
    <2>1. \A p \in Repos : item'[p].state = "succeeded" => item'[p] = item[p]
      BY <1>4 DEF Tasks!LaunchAnswered, TaskTypes, UserTypes
    <2> QED BY <1>1, <1>4, <2>1, LaunchAnsweredTypes
  <1>5. CASE Tasks!ReadBegins BY <1>2, <1>5, ReadBeginsSteps DEF Tasks!ReadBegins
  <1>6. CASE Tasks!ReadMetadata BY <1>2, <1>6, ReadMetadataSteps DEF Tasks!ReadMetadata
  <1>7. CASE Tasks!ReadContent BY <1>2, <1>7, ReadContentSteps DEF Tasks!ReadContent
  <1>8. CASE Tasks!ListProcesses BY <1>2, <1>8, ListProcessesSteps DEF Tasks!ListProcesses
  <1>9. CASE Tasks!ReadEnds BY <1>2, <1>9, ReadEndsSteps DEF Tasks!ReadEnds
  <1>10. CASE Tasks!Deliver BY <1>10, DeliverTypes, QuietSteps, DeliverTellsItems
  <1>11. ASSUME NEW p \in Repos, Tasks!BatchTakes(p) PROVE TasksInv'
    <2>1. \A q \in Repos : item'[q].state = "succeeded" => item'[q] = item[q]
      BY <1>11 DEF Tasks!BatchTakes, TaskTypes, UserTypes, Items
    <2> QED BY <1>1, <1>11, <2>1, BatchTakesTypes
  <1>12. ASSUME NEW p \in Repos, Tasks!BatchWakes(p) PROVE TasksInv'
    <2>1. \A q \in Repos : item'[q].state = "succeeded" => item'[q] = item[q]
      BY <1>12 DEF Tasks!BatchWakes, TaskTypes, UserTypes, Items
    <2> QED BY <1>1, <1>12, <2>1, BatchWakesTypes
  <1>13. CASE Tasks!TimerFires
    BY <1>1, <1>13, RefreshTypes DEF Tasks!TimerFires, Tasks!RefreshBoard, TaskTypes, UserTypes
  <1>14. CASE Tasks!Focus
    <2>1. inputs' \in 0..MaxInputs
      BY <1>14 DEF Tasks!Focus, Tasks!Input, TaskTypes, UserTypes, Tasks!TaskConstants
    <2> QED BY <1>1, <1>14, <2>1, RefreshTypes DEF Tasks!Focus, Tasks!RefreshBoard
  <1>15. CASE Tasks!ReadFails BY <1>1, <1>15, ReadFailsTypes DEF Tasks!ReadFails
  <1>16. CASE Tasks!Rescope BY <1>1, <1>16, RescopeTypes DEF Tasks!Rescope
  <1>17. CASE Tasks!StartBatch
    <2>1. \A q \in Repos : item'[q].state = "succeeded" => item'[q] = item[q]
      BY <1>17 DEF Tasks!StartBatch
    <2> QED BY <1>1, <1>17, <2>1, StartBatchTypes
  <1>18. ASSUME NEW p \in Repos, NEW kind \in Kinds, Tasks!UserLaunches(p, kind = "server") PROVE TasksInv'
    <2>1. (kind = "server") \in BOOLEAN OBVIOUS
    <2> QED BY <1>1, <1>18, <2>1, UserLaunchesTypes DEF Tasks!UserLaunches
  <1>19. ASSUME NEW r \in Tasks!Runs, Tasks!TerminalStarts(r) PROVE TasksInv'
    BY <1>2, <1>19, TerminalStartsSteps DEF Tasks!TerminalStarts
  <1>20. ASSUME NEW r \in Tasks!Runs, Tasks!CommandStarts(r) PROVE TasksInv'
    BY <1>1, <1>20, CommandStartsTypes DEF Tasks!CommandStarts
  <1>21. ASSUME NEW r \in Tasks!Runs, Tasks!CommandEnds(r) PROVE TasksInv'
    BY <1>2, <1>21, CommandEndsSteps DEF Tasks!CommandEnds
  <1>22. ASSUME NEW r \in Tasks!Runs, Tasks!UserCloses(r) PROVE TasksInv'
    BY <1>1, <1>22, UserClosesTypes DEF Tasks!UserCloses
  <1>23. ASSUME NEW r \in Tasks!Runs, Tasks!Age(r) PROVE TasksInv'
    BY <1>1, <1>23, AgeTypes DEF Tasks!Age
  <1>24. CASE UNCHANGED Tasks!vars
    <2>1. TaskTypes'
      BY <1>24 DEF Tasks!vars, TaskTypes, DataTypes, ReadTypes, UserTypes, Tasks!Runs, Tasks!Count
    <2> QED BY <1>1, <1>24, <2>1, UntouchedIsQuiet DEF Tasks!vars
  <1> USE DEF Tasks!Progress
  <1> QED BY <1>3, <1>4, <1>5, <1>6, <1>7, <1>8, <1>9, <1>10, <1>11, <1>12, <1>13, <1>14, <1>15,
             <1>16, <1>17, <1>18, <1>19, <1>20, <1>21, <1>22, <1>23, <1>24 DEF Tasks!Next

LEMMA TasksInvAlways == ASSUME Tasks!TaskConstants PROVE Tasks!Spec => []TasksInv
  <1>1. Tasks!Init => TasksInv BY InitTasks
  <1>2. TasksInv /\ [Tasks!Next]_(Tasks!vars) => TasksInv' BY NextTasks
  <1> QED BY <1>1, <1>2, PTL DEF Tasks!Spec

\* In every reachable state the variables of the tasks have their types, and the read
\* has waiters exactly while it is under way (project-repository-task.ts).
THEOREM TasksTypeCorrect == ASSUME Tasks!TaskConstants PROVE Tasks!Spec => []Tasks!TypeOK
  <1>1. TasksInv => Tasks!TypeOK
    BY DEF TasksInv, TaskTypes, DataTypes, ReadTypes, ReadOK, Reads, ReadPhases, UserTypes,
      Launches, Items, Tasks!TypeOK, Tasks!TaskConstants
  <1> QED BY <1>1, TasksInvAlways, PTL

\* Every answer names the newest readable run of each repository and tells its result if
\* the terminal had published it in time, whatever terminals publish between the steps
\* of a scan, whatever fails and whoever shares the read or is answered from the cache;
\* and the batch calls succeeded only runs of its own that did (project_repository_task.rs,
\* project-repository-batch-task.ts).
THEOREM TasksToldRight == ASSUME Tasks!TaskConstants PROVE Tasks!Spec => []TasksAreToldRight
  <1>1. ASSUME NEW p, NEW R PROVE Latest(p, R) = Tasks!Latest(p, R)
    BY SameMax DEF Latest, Tasks!Latest
  <1>2. Tasks!ReadIsCurrent => ReadIsCurrent
    BY <1>1 DEF ReadIsCurrent, Tasks!ReadIsCurrent, Final, Tasks!Final
  <1>3. Tasks!BatchTellsItsRun => BatchTellsItsRun BY DEF BatchTellsItsRun, Tasks!BatchTellsItsRun
  <1>4. TasksInv => TasksAreToldRight BY <1>2, <1>3 DEF TasksInv, RecordsInv, TasksAreToldRight
  <1> QED BY <1>4, TasksInvAlways, PTL
-----------------------------------------------------------------------------
(* The operators of the library are the same inside the inspections.        *)

LEMMA SameFinite == ASSUME NEW S PROVE Inspection!IsFiniteSet(S) <=> IsFiniteSet(S)
  BY DEF Inspection!IsFiniteSet, IsFiniteSet

LEMMA SameSize == ASSUME NEW S PROVE Inspection!Cardinality(S) = Cardinality(S)
  BY DEF Inspection!Cardinality, Cardinality

LEMMA SameOrder == ASSUME NEW S PROVE Inspection!SetToSeq(S) = SetToSeq(S)
  BY SameSize DEF Inspection!SetToSeq, SetToSeq, Inspection!IsInjective, IsInjective

-----------------------------------------------------------------------------
(* Folds. *)

LEMMA MaxIsGreatest ==
    ASSUME NEW S, S \subseteq Int, NEW m \in S, \A x \in S : x <= m
    PROVE  Max(S) = m
  <1>1. \A k \in S : (\A x \in S : k >= x) => k = m OBVIOUS
  <1>2. \A x \in S : m >= x OBVIOUS
  <1> QED BY <1>1, <1>2 DEF Max

\* What holds of 0, and of every number up to n if of the one before, holds of n.
LEMMA CountUp ==
    ASSUME NEW n \in Nat, NEW S, 0 \in S, \A k \in 1..n : k - 1 \in S => k \in S
    PROVE  n \in S
  <1> DEFINE Bad == {k \in 0..n : k \notin S}
  <1>1. SUFFICES ASSUME Bad # {} PROVE FALSE OBVIOUS
  <1>2. PICK m \in Bad : \A x \in Bad : m <= x
    <2>1. Bad \subseteq 0..n OBVIOUS
    <2> HIDE DEF Bad
    <2> QED BY <1>1, <2>1, SmallestThereIs
  <1>3. m \in 1..n /\ m - 1 \in 0..n /\ ~(m <= m - 1) OBVIOUS
  <1>4. m - 1 \notin Bad
    <2> HIDE DEF Bad
    <2> QED BY <1>2, <1>3
  <1> QED BY <1>3, <1>4

LEMMA FirstNumbers ==
    ASSUME NEW n \in Nat, NEW k \in 1..n
    PROVE  /\ 1..k \in SUBSET (1..n) /\ 1..k # {}
           /\ Max(1..k) = k /\ (1..k) \ {k} = 1..(k - 1)
  <1>1. 1..k \subseteq Int /\ k \in 1..k /\ \A x \in 1..k : x <= k OBVIOUS
  <1>2. Max(1..k) = k BY <1>1, MaxIsGreatest
  <1>3. 1..k \in SUBSET (1..n) /\ 1..k # {} BY <1>1
  <1>4. (1..k) \ {k} = 1..(k - 1) OBVIOUS
  <1> QED BY <1>2, <1>3, <1>4

\* What a fold computes from the elements with the numbers t of 1..n.
Computes(it, n, base, G) ==
    \A t \in SUBSET (1..n) :
        it[t] = IF t = {} THEN base ELSE G[<<it[t \ {Max(t)}], Max(t)>>]

\* A step of a fold is a function of what it has so far and of the number of the element.
LEMMA FoldExists ==
    ASSUME NEW n \in Nat, NEW D, NEW base \in D, NEW G \in [D \X (1..n) -> D]
    PROVE  \E it \in [SUBSET (1..n) -> D] : Computes(it, n, base, G)
  <1> DEFINE P(k) == \E it \in [SUBSET (1..k) -> D] : Computes(it, k, base, G)
  <1>1. P(0)
    <2> DEFINE it == [t \in SUBSET (1..0) |-> base]
    <2>1. SUBSET (1..0) = {{}} OBVIOUS
    <2>2. it \in [SUBSET (1..0) -> D] /\ it[{}] = base BY <2>1
    <2> HIDE DEF it
    <2>3. Computes(it, 0, base, G) BY <2>1, <2>2 DEF Computes
    <2> QED BY <2>2, <2>3
  <1>2. ASSUME NEW m \in 1..n, P(m - 1) PROVE P(m)
    <2> DEFINE k == m - 1
    <2>1. k \in 0..n /\ k \in Nat /\ m \in Nat /\ m = k + 1 OBVIOUS
    <2>2. PICK it \in [SUBSET (1..k) -> D] : Computes(it, k, base, G) BY <1>2
    <2> HIDE DEF k
    <2> DEFINE jt == [t \in SUBSET (1..m) |-> IF m \in t THEN G[<<it[t \ {m}], m>>] ELSE it[t]]
    <2>3. ASSUME NEW t \in SUBSET (1..m)
          PROVE  /\ m \notin t => t \in SUBSET (1..k)
                 /\ t \ {m} \in SUBSET (1..k)
                 /\ m \in t => Max(t) = m
      <3>1. t \ {m} \in SUBSET (1..k) BY <2>1
      <3>2. ASSUME m \in t PROVE Max(t) = m
        <4>1. t \subseteq Int /\ \A x \in t : x <= m BY <2>1
        <4> QED BY <3>2, <4>1, MaxIsGreatest
      <3> QED BY <3>1, <3>2
    <2>4. jt \in [SUBSET (1..m) -> D]
      <3>1. ASSUME NEW t \in SUBSET (1..m) PROVE jt[t] \in D
        <4>1. CASE m \in t
          <5>1. it[t \ {m}] \in D /\ <<it[t \ {m}], m>> \in D \X (1..n) BY <2>3
          <5> QED BY <4>1, <5>1
        <4>2. CASE m \notin t BY <4>2, <2>3
        <4> QED BY <4>1, <4>2
      <3> QED BY <3>1
    <2>5. ASSUME NEW t \in SUBSET (1..m)
          PROVE  jt[t] = IF t = {} THEN base ELSE G[<<jt[t \ {Max(t)}], Max(t)>>]
      <3>1. CASE m \in t
        <4>1. /\ t # {} /\ Max(t) = m /\ jt[t] = G[<<it[t \ {m}], m>>]
              /\ t \ {m} \in SUBSET (1..m) /\ m \notin t \ {m}
          BY <3>1, <2>3
        <4>2. jt[t \ {m}] = it[t \ {m}] BY <4>1
        <4> HIDE DEF jt
        <4> QED BY <4>1, <4>2
      <3>2. CASE m \notin t
        <4>1. t \in SUBSET (1..k) /\ jt[t] = it[t] BY <3>2, <2>3
        <4>2. it[t] = IF t = {} THEN base ELSE G[<<it[t \ {Max(t)}], Max(t)>>]
          BY <4>1, <2>2 DEF Computes
        <4>3. jt[t \ {Max(t)}] = it[t \ {Max(t)}]
          <5>1. t \ {Max(t)} \in SUBSET (1..m) /\ m \notin t \ {Max(t)} BY <3>2
          <5> QED BY <5>1
        <4> HIDE DEF jt
        <4> QED BY <4>1, <4>2, <4>3
      <3> QED BY <3>1, <3>2
    <2> HIDE DEF jt
    <2>6. Computes(jt, m, base, G) BY <2>5 DEF Computes
    <2> QED BY <2>4, <2>6
  <1>3. n \in {k \in 0..n : P(k)}
    <2> DEFINE S == {k \in 0..n : P(k)}
    <2>1. 0 \in S
      <3> HIDE DEF P
      <3> QED BY <1>1
    <2>2. ASSUME NEW k \in 1..n, k - 1 \in S PROVE k \in S
      <3> HIDE DEF P
      <3> QED BY <1>2, <2>2
    <2> HIDE DEF S
    <2>3. n \in S BY <2>1, <2>2, CountUp
    <2> QED BY <2>3 DEF S
  <1>4. P(n)
    <2> HIDE DEF P
    <2> QED BY <1>3
  <1> QED BY <1>4


LEMMA AppendToQueue ==
    ASSUME NEW X, NEW q \in Seq(X), NEW x \in X
    PROVE  /\ Append(q, x) \in Seq(X)
           /\ ToSet(Append(q, x)) = ToSet(q) \cup {x}
           /\ IsInjective(q) /\ x \notin ToSet(q) => IsInjective(Append(q, x))
  <1> DEFINE t == Append(q, x)
  <1>1. /\ t \in Seq(X) /\ DOMAIN t = 1..Len(q) + 1 /\ DOMAIN q = 1..Len(q) /\ Len(q) \in Nat
        /\ \A i \in 1..Len(q) : t[i] = q[i]
        /\ t[Len(q) + 1] = x
    OBVIOUS
  <1> HIDE DEF t
  <1>2. ToSet(t) = ToSet(q) \cup {x} BY <1>1 DEF ToSet
  <1>3. IsInjective(q) /\ x \notin ToSet(q) => IsInjective(t) BY <1>1 DEF ToSet, IsInjective
  <1> QED BY <1>1, <1>2, <1>3 DEF t

\* A queue loses the paths in gone, and no other.
LEMMA WithoutLeavesTheRest ==
    ASSUME NEW q \in Seq(Paths), NEW gone
    PROVE  /\ Inspection!Without(q, gone) \in Seq(Paths)
           /\ ToSet(Inspection!Without(q, gone)) = ToSet(q) \ gone
           /\ IsInjective(q) => IsInjective(Inspection!Without(q, gone))
  <1> DEFINE n == Len(q)
             D == Seq(Paths)
             G == [x \in D \X (1..n) |-> IF q[x[2]] \in gone THEN x[1] ELSE Append(x[1], q[x[2]])]
  <1>1. n \in Nat /\ DOMAIN q = 1..n /\ q \in [1..n -> Paths] /\ <<>> \in D OBVIOUS
  <1>2. G \in [D \X (1..n) -> D]
    <2>1. ASSUME NEW x \in D \X (1..n) PROVE G[x] \in D
      <3>1. x[1] \in D /\ q[x[2]] \in Paths BY <1>1
      <3> QED BY <3>1
    <2> QED BY <2>1
  <1>3. ASSUME NEW d \in D, NEW i \in 1..n
        PROVE  G[<<d, i>>] = IF q[i] \in gone THEN d ELSE Append(d, q[i])
    OBVIOUS
  <1> HIDE DEF D, G, n
  <1> DEFINE E(it) == it = [t \in SUBSET (1..n) |->
                               IF t = {} THEN <<>>
                               ELSE IF q[Max(t)] \in gone THEN it[t \ {Max(t)}]
                               ELSE Append(it[t \ {Max(t)}], q[Max(t)])]
  <1>4. \E it : E(it)
    <2>1. PICK it \in [SUBSET (1..n) -> D] : Computes(it, n, <<>>, G) BY <1>1, <1>2, FoldExists
    <2>2. ASSUME NEW t \in SUBSET (1..n), t # {}
          PROVE  it[t] = IF q[Max(t)] \in gone THEN it[t \ {Max(t)}]
                         ELSE Append(it[t \ {Max(t)}], q[Max(t)])
      <3>1. Max(t) \in 1..n
        <4>1. t \subseteq 0..n BY <1>1
        <4> QED BY <1>1, <2>2, <4>1, MaxIsIn
      <3>2. it[t \ {Max(t)}] \in D /\ it[t] = G[<<it[t \ {Max(t)}], Max(t)>>]
        BY <2>1, <2>2 DEF Computes
      <3> QED BY <1>3, <3>1, <3>2
    <2>3. it[{}] = <<>> BY <2>1 DEF Computes
    <2> QED BY <2>1, <2>2, <2>3
  <1>5. PICK it : E(it) /\ Inspection!Without(q, gone) = it[1..n]
    <2>1. Inspection!Without(q, gone) = (CHOOSE jt : E(jt))[1..n]
      BY <1>1 DEF Inspection!Without, Inspection!FoldLeft, Inspection!MapThenFoldSet,
        Inspection!Max, Max
    <2> HIDE DEF E
    <2> QED BY <1>4, <2>1
  <1>6. it[1..0] = <<>> BY <1>5
  <1>7. ASSUME NEW k \in 1..n
        PROVE  it[1..k] = IF q[k] \in gone THEN it[1..(k - 1)] ELSE Append(it[1..(k - 1)], q[k])
    <2>1. /\ 1..k \in SUBSET (1..n) /\ 1..k # {}
          /\ Max(1..k) = k /\ (1..k) \ {k} = 1..(k - 1)
      BY <1>1, FirstNumbers
    <2> QED BY <1>5, <2>1
  <1> HIDE DEF E
  <1> DEFINE past(k) == {q[i] : i \in 1..k}
             S == {k \in 0..n : /\ it[1..k] \in D
                                /\ ToSet(it[1..k]) = past(k) \ gone
                                /\ IsInjective(q) => IsInjective(it[1..k])}
  <1>8. 0 \in S
    <2>1. <<>> \in D /\ ToSet(<<>>) = {} /\ IsInjective(<<>>) BY <1>1 DEF ToSet, IsInjective
    <2>2. past(0) = {} OBVIOUS
    <2> QED BY <1>1, <1>6, <2>1, <2>2
  <1>9. ASSUME NEW k \in 1..n, k - 1 \in S PROVE k \in S
    <2> DEFINE r == it[1..(k - 1)]
    <2>1. /\ r \in Seq(Paths) /\ ToSet(r) = past(k - 1) \ gone
          /\ IsInjective(q) => IsInjective(r)
      BY <1>9 DEF D
    <2>2. past(k) = past(k - 1) \cup {q[k]} /\ k \in 0..n /\ q[k] \in Paths BY <1>1
    <2>3. IsInjective(q) => q[k] \notin past(k - 1) BY <1>1 DEF IsInjective
    <2>4. CASE q[k] \in gone
      <3>1. it[1..k] = r BY <1>7, <2>4
      <3> HIDE DEF r, past
      <3> QED BY <2>1, <2>2, <2>4, <3>1 DEF D
    <2>5. CASE q[k] \notin gone
      <3>1. it[1..k] = Append(r, q[k]) BY <1>7, <2>5
      <3> HIDE DEF r, past
      <3>2. /\ Append(r, q[k]) \in Seq(Paths)
            /\ ToSet(Append(r, q[k])) = ToSet(r) \cup {q[k]}
            /\ IsInjective(r) /\ q[k] \notin ToSet(r) => IsInjective(Append(r, q[k]))
        BY <2>1, <2>2, AppendToQueue
      <3> QED BY <2>1, <2>2, <2>3, <2>5, <3>1, <3>2 DEF D
    <2> QED BY <2>4, <2>5
  <1>10. n \in S
    <2> HIDE DEF S
    <2> QED BY <1>1, <1>8, <1>9, CountUp
  <1>11. past(n) = ToSet(q) BY <1>1 DEF ToSet
  <1> HIDE DEF past
  <1> QED BY <1>5, <1>10, <1>11 DEF D


-----------------------------------------------------------------------------
(* The jobs and their queue. *)

JobTable == [Paths -> Inspection!Jobs \cup {NoValue}]
HeldIn(js) == {p \in Paths : js[p] # NoValue}
Waiting(js) == {p \in Paths : js[p] # NoValue /\ ~js[p].running}

\* A queue has the jobs that wait, each once, and somebody waits for them.
Tidy(q, js) ==
    /\ q \in Seq(Paths) /\ IsInjective(q) /\ js \in JobTable
    /\ ToSet(q) = Waiting(js)
    /\ Cardinality(HeldIn(js)) <= Capacity
    /\ \A p \in Waiting(js) : js[p].subs # {}

\* The subscriptions of scan s to the job of path p.
Stakes(js, p, s) == IF js[p] = NoValue THEN {} ELSE {c \in js[p].subs : c[1] = s}

\* What d must be when the candidates R of scan have been taken, beginning with jobs.
Candidates == [queue : Seq(Paths), jobs : JobTable, rejected : SUBSET Repos]
Taken(d, R, scan, link) ==
    /\ d \in Candidates /\ Tidy(d.queue, d.jobs) /\ d.rejected \subseteq R
    /\ \A p \in Paths : jobs[p] # NoValue =>
          d.jobs[p] # NoValue /\ d.jobs[p].running = jobs[p].running
    /\ \A p \in Paths, s \in Inspection!Scans \ {scan} : Stakes(d.jobs, p, s) = Stakes(jobs, p, s)
    /\ \A p \in Paths :
          Stakes(d.jobs, p, scan) = {<<scan, r>> : r \in {x \in R \ d.rejected : link[x] = p}}

LEMMA JobsAreFinite ==
    ASSUME Inspection!InspectionConstants, NEW js
    PROVE  IsFiniteSet(HeldIn(js)) /\ Cardinality(HeldIn(js)) \in Nat
  <1>1. HeldIn(js) \in SUBSET Paths /\ IsFiniteSet(Paths)
    BY SameFinite DEF HeldIn, Inspection!InspectionConstants
  <1>2. IsFiniteSet(HeldIn(js)) BY <1>1, FS_Subset
  <1> QED BY <1>2, FS_CardinalityType

\* One more candidate is taken: it joins a job, is rejected or begins a job.
LEMMA EnqueueSteps ==
    ASSUME Inspection!InspectionConstants, NEW scan \in Inspection!Scans, NEW link, NEW R, NEW d,
           NEW r \in Repos,
           r \notin R, link[r] \in Paths, Taken(d, R, scan, link)
    PROVE  Taken(Inspection!Enqueue(scan, link, d, r), R \cup {r}, scan, link)
  <1> DEFINE p == link[r]
             e == Inspection!Enqueue(scan, link, d, r)
             subs == d.jobs[p].subs \cup {<<scan, r>>}
  <1>1. /\ d \in Candidates /\ Tidy(d.queue, d.jobs) /\ d.rejected \subseteq R
        /\ d.queue \in Seq(Paths) /\ d.jobs \in JobTable /\ d.rejected \in SUBSET Repos
        /\ NoValue \notin Inspection!Jobs /\ p \in Paths
    BY DEF Taken, Candidates, Inspection!InspectionConstants
  <1> HIDE DEF p
  <1>2. CASE d.jobs[p] # NoValue
    <2>1. d.jobs[p] \in Inspection!Jobs BY <1>1, <1>2 DEF JobTable
    <2>2. e = [d EXCEPT !.jobs[p].subs = @ \cup {<<scan, r>>}] BY <1>2 DEF Inspection!Enqueue, p
    <2> DEFINE j == [d.jobs[p] EXCEPT !.subs = subs]
    <2>3. /\ j \in Inspection!Jobs /\ j # NoValue /\ j.running = d.jobs[p].running /\ j.subs = subs
          /\ subs # {}
      <3>1. subs \in SUBSET (Inspection!Scans \X Repos) BY <2>1 DEF Inspection!Jobs
      <3> QED BY <1>1, <2>1, <3>1 DEF Inspection!Jobs
    <2>4. /\ e.queue = d.queue /\ e.rejected = d.rejected
          /\ e.jobs = [d.jobs EXCEPT ![p] = j] /\ e \in Candidates
      <3>1. e = [d EXCEPT !.jobs = [d.jobs EXCEPT ![p] = j]] BY <2>2
      <3>2. [d.jobs EXCEPT ![p] = j] \in JobTable
        <4> HIDE DEF j
        <4> QED BY <1>1, <2>3 DEF JobTable
      <3> HIDE DEF j, e
      <3> QED BY <1>1, <3>1, <3>2 DEF Candidates
    <2> HIDE DEF j, e
    <2>5. /\ e.jobs[p] = j /\ \A q \in Paths \ {p} : e.jobs[q] = d.jobs[q]
          /\ e.jobs \in JobTable
      BY <1>1, <2>4 DEF JobTable, Candidates
    <2>6. /\ HeldIn(e.jobs) = HeldIn(d.jobs) /\ Waiting(e.jobs) = Waiting(d.jobs)
          /\ \A q \in Paths : d.jobs[q] # NoValue =>
                e.jobs[q] # NoValue /\ e.jobs[q].running = d.jobs[q].running
      BY <1>2, <2>3, <2>5 DEF HeldIn, Waiting
    <2>7. \A q \in Waiting(e.jobs) : e.jobs[q].subs # {} BY <1>1, <2>3, <2>5, <2>6 DEF Tidy, Waiting
    <2>8. Tidy(e.queue, e.jobs) BY <1>1, <2>4, <2>5, <2>6, <2>7 DEF Tidy
    <2>9. ASSUME NEW q \in Paths, NEW s \in Inspection!Scans \ {scan}
          PROVE  Stakes(e.jobs, q, s) = Stakes(d.jobs, q, s)
      <3>1. {c \in {<<scan, r>>} : c[1] = s} = {} OBVIOUS
      <3>2. CASE q = p BY <1>2, <2>3, <2>5, <3>1, <3>2 DEF Stakes
      <3>3. CASE q # p BY <2>5, <3>3 DEF Stakes
      <3> QED BY <3>2, <3>3
    <2>10. ASSUME NEW q \in Paths
           PROVE  Stakes(e.jobs, q, scan)
                     = Stakes(d.jobs, q, scan) \cup {<<scan, x>> : x \in {y \in {r} : link[y] = q}}
      <3>1. CASE q = p
        <4>1. {<<scan, x>> : x \in {y \in {r} : link[y] = q}} = {<<scan, r>>} BY <3>1 DEF p
        <4> QED BY <1>2, <2>3, <2>5, <3>1, <4>1 DEF Stakes
      <3>2. CASE q # p
        <4>1. {<<scan, x>> : x \in {y \in {r} : link[y] = q}} = {} BY <3>2 DEF p
        <4> QED BY <2>5, <3>2, <4>1 DEF Stakes
      <3> QED BY <3>1, <3>2
    <2>11. \A q \in Paths : Stakes(e.jobs, q, scan)
                = {<<scan, x>> : x \in {y \in (R \cup {r}) \ e.rejected : link[y] = q}}
      <3>1. r \notin d.rejected BY <1>1
      <3> QED BY <2>4, <2>10, <3>1 DEF Taken
    <2> QED BY <1>1, <2>4, <2>6, <2>8, <2>9, <2>11 DEF Taken, e
  <1>3. CASE d.jobs[p] = NoValue /\ Cardinality(HeldIn(d.jobs)) >= Capacity
    <2>1. e = [d EXCEPT !.rejected = @ \cup {r}] BY <1>3, SameSize DEF Inspection!Enqueue, p, HeldIn
    <2>2. /\ e.queue = d.queue /\ e.jobs = d.jobs /\ e.rejected = d.rejected \cup {r}
          /\ e \in Candidates
      BY <1>1, <2>1 DEF Candidates
    <2> HIDE DEF e
    <2>3. (R \cup {r}) \ e.rejected = R \ d.rejected BY <2>2
    <2> QED BY <1>1, <2>2, <2>3 DEF Taken, e
  <1>4. CASE d.jobs[p] = NoValue /\ ~(Cardinality(HeldIn(d.jobs)) >= Capacity)
    <2> DEFINE j == [running |-> FALSE, subs |-> {<<scan, r>>}]
    <2>1. e = [d EXCEPT !.queue = Append(@, p), !.jobs[p] = j]
      BY <1>4, SameSize DEF Inspection!Enqueue, p, HeldIn
    <2>2. j \in Inspection!Jobs /\ j # NoValue /\ j.running = FALSE /\ j.subs = {<<scan, r>>}
      <3> DEFINE one == {<<scan, r>>}
      <3>1. one \in SUBSET (Inspection!Scans \X Repos) OBVIOUS
      <3>2. j.running = FALSE /\ j.subs = {<<scan, r>>} OBVIOUS
      <3>3. j \in Inspection!Jobs
        <4> HIDE DEF one
        <4>1. [running |-> FALSE, subs |-> one] \in Inspection!Jobs BY <3>1 DEF Inspection!Jobs
        <4> QED BY <4>1 DEF one
      <3> QED BY <1>1, <3>2, <3>3
    <2>3. /\ e.queue = Append(d.queue, p) /\ e.rejected = d.rejected
          /\ e.jobs = [d.jobs EXCEPT ![p] = j] /\ e \in Candidates
      <3>1. /\ [d.jobs EXCEPT ![p] = j] \in JobTable /\ Append(d.queue, p) \in Seq(Paths)
        <4> HIDE DEF j
        <4> QED BY <1>1, <2>2 DEF JobTable
      <3> HIDE DEF j, e
      <3> QED BY <1>1, <2>1, <3>1 DEF Candidates
    <2> HIDE DEF j, e
    <2>4. /\ e.jobs[p] = j /\ \A q \in Paths \ {p} : e.jobs[q] = d.jobs[q]
          /\ e.jobs \in JobTable
      BY <1>1, <2>3 DEF JobTable, Candidates
    <2>5. /\ HeldIn(e.jobs) = HeldIn(d.jobs) \cup {p} /\ p \notin HeldIn(d.jobs)
          /\ Waiting(e.jobs) = Waiting(d.jobs) \cup {p} /\ p \notin Waiting(d.jobs)
          /\ \A q \in Paths : d.jobs[q] # NoValue =>
                e.jobs[q] # NoValue /\ e.jobs[q].running = d.jobs[q].running
      BY <1>1, <1>4, <2>2, <2>4 DEF HeldIn, Waiting
    <2>6. /\ e.queue \in Seq(Paths) /\ IsInjective(e.queue)
          /\ ToSet(e.queue) = Waiting(e.jobs)
      <3>1. d.queue \in Seq(Paths) /\ IsInjective(d.queue) /\ p \in Paths /\ p \notin ToSet(d.queue)
            /\ ToSet(d.queue) = Waiting(d.jobs)
        BY <1>1, <2>5 DEF Tidy
      <3>2. /\ Append(d.queue, p) \in Seq(Paths)
            /\ ToSet(Append(d.queue, p)) = ToSet(d.queue) \cup {p}
            /\ IsInjective(Append(d.queue, p))
        BY <3>1, AppendToQueue
      <3> QED BY <2>3, <2>5, <3>1, <3>2
    <2>7. Cardinality(HeldIn(e.jobs)) <= Capacity
      <3>1. /\ Cardinality(HeldIn(e.jobs)) = Cardinality(HeldIn(d.jobs)) + 1
            /\ Cardinality(HeldIn(d.jobs)) \in Nat
        BY <2>5, JobsAreFinite, FS_AddElement
      <3> QED BY <1>4, <3>1 DEF Inspection!InspectionConstants
    <2>8. \A q \in Waiting(e.jobs) : e.jobs[q].subs # {} BY <1>1, <2>2, <2>4, <2>5 DEF Tidy, Waiting
    <2>9. Tidy(e.queue, e.jobs) BY <2>4, <2>6, <2>7, <2>8 DEF Tidy
    <2>10. ASSUME NEW q \in Paths, NEW s \in Inspection!Scans \ {scan}
           PROVE  Stakes(e.jobs, q, s) = Stakes(d.jobs, q, s)
      <3>1. {c \in {<<scan, r>>} : c[1] = s} = {} OBVIOUS
      <3>2. CASE q = p BY <1>4, <2>2, <2>4, <3>1, <3>2 DEF Stakes
      <3>3. CASE q # p BY <2>4, <3>3 DEF Stakes
      <3> QED BY <3>2, <3>3
    <2>11. ASSUME NEW q \in Paths
           PROVE  Stakes(e.jobs, q, scan)
                     = Stakes(d.jobs, q, scan) \cup {<<scan, x>> : x \in {y \in {r} : link[y] = q}}
      <3>1. CASE q = p
        <4>1. {<<scan, x>> : x \in {y \in {r} : link[y] = q}} = {<<scan, r>>} BY <3>1 DEF p
        <4> QED BY <1>4, <2>2, <2>4, <3>1, <4>1 DEF Stakes
      <3>2. CASE q # p
        <4>1. {<<scan, x>> : x \in {y \in {r} : link[y] = q}} = {} BY <3>2 DEF p
        <4> QED BY <2>4, <3>2, <4>1 DEF Stakes
      <3> QED BY <3>1, <3>2
    <2>12. \A q \in Paths : Stakes(e.jobs, q, scan)
                = {<<scan, x>> : x \in {y \in (R \cup {r}) \ e.rejected : link[y] = q}}
      <3>1. r \notin d.rejected BY <1>1
      <3> QED BY <2>3, <2>11, <3>1 DEF Taken
    <2> QED BY <1>1, <2>3, <2>5, <2>9, <2>10, <2>12 DEF Taken, e
  <1> QED BY <1>2, <1>3, <1>4

LEMMA EnqueueIsCandidate ==
    ASSUME NEW scan \in Inspection!Scans, NEW link, NEW d \in Candidates, NEW r \in Repos,
           link[r] \in Paths
    PROVE  Inspection!Enqueue(scan, link, d, r) \in Candidates
  <1> DEFINE p == link[r]
             one == {<<scan, r>>}
             subs == d.jobs[p].subs \cup one
             e == Inspection!Enqueue(scan, link, d, r)
  <1>1. /\ d.queue \in Seq(Paths) /\ d.jobs \in JobTable /\ d.rejected \in SUBSET Repos
        /\ p \in Paths /\ one \in SUBSET (Inspection!Scans \X Repos)
    BY DEF Candidates
  <1> HIDE DEF p, one
  <1>2. CASE d.jobs[p] # NoValue
    <2> DEFINE j == [d.jobs[p] EXCEPT !.subs = subs]
    <2>1. d.jobs[p] \in Inspection!Jobs BY <1>1, <1>2 DEF JobTable
    <2>2. subs \in SUBSET (Inspection!Scans \X Repos) BY <1>1, <2>1 DEF Inspection!Jobs
    <2>3. j \in Inspection!Jobs
      <3> HIDE DEF subs
      <3> QED BY <2>1, <2>2 DEF Inspection!Jobs
    <2>4. e = [d EXCEPT !.jobs = [d.jobs EXCEPT ![p] = j]] BY <1>2 DEF Inspection!Enqueue, p, one
    <2> HIDE DEF j, e
    <2>5. [d.jobs EXCEPT ![p] = j] \in JobTable BY <1>1, <2>3 DEF JobTable
    <2> QED BY <1>1, <2>4, <2>5 DEF Candidates, e
  <1>3. CASE e = [d EXCEPT !.rejected = @ \cup {r}]
    <2> HIDE DEF e
    <2> QED BY <1>1, <1>3 DEF Candidates, e
  <1>4. CASE e = [d EXCEPT !.queue = Append(@, p), !.jobs[p] = [running |-> FALSE, subs |-> one]]
    <2> DEFINE j == [running |-> FALSE, subs |-> one]
    <2>1. j \in Inspection!Jobs BY <1>1 DEF Inspection!Jobs
    <2> HIDE DEF j
    <2>2. [d.jobs EXCEPT ![p] = j] \in JobTable /\ Append(d.queue, p) \in Seq(Paths)
      BY <1>1, <2>1 DEF JobTable
    <2>3. e = [d EXCEPT !.queue = Append(d.queue, p), !.jobs = [d.jobs EXCEPT ![p] = j]]
      <3> HIDE DEF e
      <3> QED BY <1>4 DEF j
    <2> HIDE DEF e
    <2> QED BY <1>1, <2>2, <2>3 DEF Candidates, e
  <1>5. d.jobs[p] # NoValue \/ e = [d EXCEPT !.rejected = @ \cup {r}]
        \/ e = [d EXCEPT !.queue = Append(@, p), !.jobs[p] = [running |-> FALSE, subs |-> one]]
    BY DEF Inspection!Enqueue, p, one
  <1> QED BY <1>2, <1>3, <1>4, <1>5

\* A schedule call with candidates of its own and of linked paths takes all of them.
Sound(c) ==
    /\ c.scan \in Inspection!Scans /\ c.order \in Seq(Repos) /\ IsInjective(c.order)
    /\ \A i \in 1..Len(c.order) : c.link[c.order[i]] \in Paths

\* A schedule call takes its candidates, one after the other.
LEMMA ScheduledIsTaken ==
    ASSUME Inspection!InspectionConstants, NEW c, Sound(c), Tidy(queue, jobs),
           \A p \in Paths : Stakes(jobs, p, c.scan) = {}
    PROVE  Taken(Inspection!Scheduled(c), ToSet(c.order), c.scan, c.link)
  <1> DEFINE n == Len(c.order)
             base == [queue |-> queue, jobs |-> jobs, rejected |-> {}]
             step(d, i) == Inspection!Enqueue(c.scan, c.link, d, c.order[i])
             G == [x \in Candidates \X (1..n) |-> step(x[1], x[2])]
  <1>1. /\ n \in Nat /\ DOMAIN c.order = 1..n /\ c.order \in [1..n -> Repos]
        /\ base \in Candidates
    BY DEF Sound, Tidy, Candidates
  <1>2. G \in [Candidates \X (1..n) -> Candidates]
    <2>1. ASSUME NEW x \in Candidates \X (1..n) PROVE step(x[1], x[2]) \in Candidates
      <3>1. x[1] \in Candidates /\ x[2] \in 1..n /\ c.order[x[2]] \in Repos BY <1>1
      <3> QED BY <3>1, EnqueueIsCandidate DEF Sound
    <2> HIDE DEF step
    <2> QED BY <2>1
  <1>3. ASSUME NEW d \in Candidates, NEW i \in 1..n PROVE G[<<d, i>>] = step(d, i) OBVIOUS
  <1> HIDE DEF G
  <1> DEFINE E(it) == it = [t \in SUBSET (1..n) |->
                               IF t = {} THEN base ELSE step(it[t \ {Max(t)}], Max(t))]
  <1>4. \E it : E(it)
    <2> HIDE DEF step, base, n
    <2>1. PICK it \in [SUBSET (1..n) -> Candidates] : Computes(it, n, base, G)
      BY <1>1, <1>2, FoldExists
    <2>2. ASSUME NEW t \in SUBSET (1..n), t # {}
          PROVE  it[t] = step(it[t \ {Max(t)}], Max(t))
      <3>1. Max(t) \in 1..n
        <4>1. t \subseteq 0..n BY <1>1
        <4> QED BY <1>1, <2>2, <4>1, MaxIsIn
      <3>2. it[t \ {Max(t)}] \in Candidates /\ it[t] = G[<<it[t \ {Max(t)}], Max(t)>>]
        BY <2>1, <2>2 DEF Computes
      <3> QED BY <1>3, <3>1, <3>2
    <2>3. it[{}] = base BY <2>1 DEF Computes
    <2> QED BY <2>1, <2>2, <2>3
  <1>5. PICK it : E(it) /\ Inspection!Scheduled(c) = it[1..n]
    <2>1. Inspection!Scheduled(c) = (CHOOSE jt : E(jt))[1..n]
      BY <1>1 DEF Inspection!Scheduled, Inspection!FoldLeft, Inspection!MapThenFoldSet,
        Inspection!Max, Max
    <2> HIDE DEF E
    <2> QED BY <1>4, <2>1
  <1> HIDE DEF n, step, base
  <1>6. it[1..0] = base BY <1>1, <1>5
  <1>7. ASSUME NEW k \in 1..n PROVE it[1..k] = step(it[1..(k - 1)], k)
    <2>1. /\ 1..k \in SUBSET (1..n) /\ 1..k # {}
          /\ Max(1..k) = k /\ (1..k) \ {k} = 1..(k - 1)
      BY <1>1, FirstNumbers
    <2> QED BY <1>5, <2>1
  <1> HIDE DEF E
  <1> DEFINE R(k) == {c.order[i] : i \in 1..k}
             S == {k \in 0..n : Taken(it[1..k], R(k), c.scan, c.link)}
  <1>8. 0 \in S
    <2>1. /\ base \in Candidates /\ base.queue = queue /\ base.jobs = jobs /\ base.rejected = {}
      BY <1>1 DEF base
    <2>2. R(0) = {} OBVIOUS
    <2> QED BY <1>1, <1>6, <2>1, <2>2 DEF Taken
  <1>9. ASSUME NEW k \in 1..n, k - 1 \in S PROVE k \in S
    <2>1. R(k) = R(k - 1) \cup {c.order[k]} /\ k \in 0..n /\ c.order[k] \in Repos BY <1>1
    <2>2. c.order[k] \notin R(k - 1) BY <1>1 DEF IsInjective, Sound
    <2>3. c.link[c.order[k]] \in Paths BY DEF n, Sound
    <2>4. Taken(it[1..(k - 1)], R(k - 1), c.scan, c.link) /\ c.scan \in Inspection!Scans
      BY <1>9 DEF Sound
    <2> HIDE DEF R
    <2>5. Taken(step(it[1..(k - 1)], k), R(k - 1) \cup {c.order[k]}, c.scan, c.link)
      BY <2>1, <2>2, <2>3, <2>4, EnqueueSteps DEF step
    <2> QED BY <1>7, <2>1, <2>5
  <1>10. n \in S
    <2> HIDE DEF S
    <2> QED BY <1>1, <1>8, <1>9, CountUp
  <1>11. R(n) = ToSet(c.order) BY <1>1 DEF ToSet
  <1> HIDE DEF R
  <1> QED BY <1>5, <1>10, <1>11

-----------------------------------------------------------------------------
(* Counting. *)

LEMMA SameSizeByBijection ==
    ASSUME NEW S, IsFiniteSet(S), NEW T, NEW f \in [S -> T],
           \A x, y \in S : f[x] = f[y] => x = y, \A t \in T : \E x \in S : f[x] = t
    PROVE  IsFiniteSet(T) /\ Cardinality(T) = Cardinality(S)
  <1>1. f \in Bijection(S, T) BY DEF Bijection, Injection, Surjection, IsInjective
  <1>2. ExistsBijection(S, T) BY <1>1 DEF ExistsBijection
  <1> QED BY <1>2, FS_Bijection

\* The elements of a finite set, each once.
LEMMA SetToSeqIsOfTheSet ==
    ASSUME NEW S, IsFiniteSet(S)
    PROVE  /\ SetToSeq(S) \in Seq(S) /\ IsInjective(SetToSeq(S))
  <1> DEFINE n == Cardinality(S)
  <1>1. n \in Nat /\ ExistsBijection(1..n, S) BY FS_CardinalityType
  <1> HIDE DEF n
  <1>2. \E f \in [1..n -> S] : IsInjective(f) BY <1>1 DEF ExistsBijection, Bijection, Injection
  <1>3. SetToSeq(S) \in [1..n -> S] /\ IsInjective(SetToSeq(S)) BY <1>2 DEF SetToSeq, n
  <1> QED BY <1>1, <1>3

LEMMA TwoSetsInOrder ==
    ASSUME NEW X, NEW A \in SUBSET X, NEW B \in SUBSET X, IsFiniteSet(X), A \cap B = {}
    PROVE  LET q == SetToSeq(A) \o SetToSeq(B)
           IN  /\ q \in Seq(X) /\ IsInjective(q)
               /\ \A i \in 1..Len(q) : q[i] \in A \cup B
  <1> DEFINE a == SetToSeq(A)
             b == SetToSeq(B)
             q == a \o b
  <1>1. IsFiniteSet(A) /\ IsFiniteSet(B) BY FS_Subset
  <1>2. a \in Seq(A) /\ IsInjective(a) /\ b \in Seq(B) /\ IsInjective(b) BY <1>1, SetToSeqIsOfTheSet
  <1> HIDE DEF a, b
  <1>3. /\ Len(a) \in Nat /\ Len(b) \in Nat
        /\ DOMAIN a = 1..Len(a) /\ DOMAIN b = 1..Len(b)
        /\ \A i \in 1..Len(a) : a[i] \in A
        /\ \A i \in 1..Len(b) : b[i] \in B
    BY <1>2
  <1>4. a \in Seq(X) /\ b \in Seq(X) BY <1>2
  <1>5. /\ q \in Seq(X) /\ Len(q) = Len(a) + Len(b) /\ DOMAIN q = 1..Len(a) + Len(b)
        /\ \A i \in 1..Len(a) : q[i] = a[i]
        /\ \A i \in Len(a) + 1..Len(a) + Len(b) : q[i] = b[i - Len(a)]
    BY <1>4
  <1> HIDE DEF q
  <1>6. ASSUME NEW i \in Len(a) + 1..Len(a) + Len(b) PROVE i - Len(a) \in 1..Len(b) BY <1>3
  <1>7. ASSUME NEW i \in 1..Len(q) PROVE q[i] \in A \cup B
    <2>1. CASE i \in 1..Len(a) BY <1>3, <1>5, <2>1
    <2>2. CASE i \in Len(a) + 1..Len(a) + Len(b) BY <1>3, <1>5, <1>6, <2>2
    <2> QED BY <1>3, <1>5, <2>1, <2>2
  <1>8. ASSUME NEW i \in 1..Len(q), NEW j \in 1..Len(q), q[i] = q[j] PROVE i = j
    <2>1. CASE i \in 1..Len(a) /\ j \in 1..Len(a) BY <1>2, <1>3, <1>5, <1>8, <2>1 DEF IsInjective
    <2>2. CASE i \in Len(a) + 1..Len(a) + Len(b) /\ j \in Len(a) + 1..Len(a) + Len(b)
      <3>1. /\ i - Len(a) \in DOMAIN b /\ j - Len(a) \in DOMAIN b
            /\ b[i - Len(a)] = b[j - Len(a)]
        BY <1>3, <1>5, <1>6, <1>8, <2>2
      <3>2. i - Len(a) = j - Len(a) BY <1>2, <3>1 DEF IsInjective
      <3> QED BY <1>3, <3>2
    <2>3. CASE i \in 1..Len(a) /\ j \in Len(a) + 1..Len(a) + Len(b) BY <1>3, <1>5, <1>6, <1>8, <2>3
    <2>4. CASE j \in 1..Len(a) /\ i \in Len(a) + 1..Len(a) + Len(b) BY <1>3, <1>5, <1>6, <1>8, <2>4
    <2> QED BY <1>3, <1>5, <2>1, <2>2, <2>3, <2>4
  <1>9. IsInjective(q) BY <1>5, <1>8 DEF IsInjective
  <1> QED BY <1>5, <1>7, <1>9 DEF q, a, b

\* What the jobs owe scan s: its subscriptions, by path.
Debts(js, s) == UNION {{p} \X Stakes(js, p, s) : p \in Paths}

LEMMA DebtsAreFinite ==
    ASSUME Inspection!InspectionConstants, NEW js \in JobTable, NEW s
    PROVE  /\ IsFiniteSet(Debts(js, s)) /\ Cardinality(Debts(js, s)) \in Nat
           /\ \A p \in Paths : /\ IsFiniteSet(Stakes(js, p, s))
                               /\ Cardinality(Stakes(js, p, s)) \in Nat
           /\ \A x : x \in Debts(js, s) <=>
                 \E p \in Paths : \E c \in Stakes(js, p, s) : x = <<p, c>>
  <1>1. IsFiniteSet(Paths) /\ IsFiniteSet(Repos) /\ IsFiniteSet(Inspection!Scans)
    BY FS_Interval, SameFinite DEF Inspection!InspectionConstants, Inspection!Scans
  <1>2. IsFiniteSet(Inspection!Scans \X Repos) /\ IsFiniteSet(Paths \X (Inspection!Scans \X Repos))
    BY <1>1, FS_Product
  <1>3. ASSUME NEW p \in Paths PROVE Stakes(js, p, s) \in SUBSET (Inspection!Scans \X Repos)
    <2>1. CASE js[p] = NoValue BY <2>1 DEF Stakes
    <2>2. CASE js[p] # NoValue
      <3>1. js[p].subs \in SUBSET (Inspection!Scans \X Repos) BY <2>2 DEF JobTable, Inspection!Jobs
      <3> QED BY <2>2, <3>1 DEF Stakes
    <2> QED BY <2>1, <2>2
  <1>4. ASSUME NEW p \in Paths
        PROVE  IsFiniteSet(Stakes(js, p, s)) /\ Cardinality(Stakes(js, p, s)) \in Nat
    <2>1. IsFiniteSet(Stakes(js, p, s)) BY <1>2, <1>3, FS_Subset
    <2> QED BY <2>1, FS_CardinalityType
  <1>5. \A x : x \in Debts(js, s) <=>
            \E p \in Paths : \E c \in Stakes(js, p, s) : x = <<p, c>>
    BY DEF Debts
  <1>6. Debts(js, s) \in SUBSET (Paths \X (Inspection!Scans \X Repos)) BY <1>3, <1>5
  <1>7. IsFiniteSet(Debts(js, s)) BY <1>2, <1>6, FS_Subset
  <1> QED BY <1>4, <1>5, <1>7, FS_CardinalityType

\* When the candidates were taken, every one of them is owed, but the rejected ones.
LEMMA CandidatesAreOwed ==
    ASSUME Inspection!InspectionConstants, NEW c, Sound(c), NEW d,
           Taken(d, ToSet(c.order), c.scan, c.link)
    PROVE  /\ Cardinality(d.rejected) \in Nat
           /\ Len(c.order) = Cardinality(Debts(d.jobs, c.scan)) + Cardinality(d.rejected)
  <1> DEFINE R == ToSet(c.order)
             left == R \ d.rejected
             owed == Debts(d.jobs, c.scan)
  <1>1. /\ c.order \in [1..Len(c.order) -> Repos] /\ Len(c.order) \in Nat
        /\ DOMAIN c.order = 1..Len(c.order)
        /\ d.jobs \in JobTable /\ d.rejected \subseteq R
    BY DEF Sound, Taken, Candidates
  <1>2. /\ IsFiniteSet(1..Len(c.order)) /\ Cardinality(1..Len(c.order)) = Len(c.order)
    BY <1>1, FS_Interval
  <1>3. IsFiniteSet(R) /\ Cardinality(R) = Len(c.order)
    <2>1. c.order \in [1..Len(c.order) -> R] BY <1>1 DEF ToSet
    <2>2. \A i, j \in 1..Len(c.order) : c.order[i] = c.order[j] => i = j
      BY <1>1 DEF Sound, IsInjective
    <2>3. \A r \in R : \E i \in 1..Len(c.order) : c.order[i] = r BY <1>1 DEF ToSet
    <2> HIDE DEF R
    <2> QED BY <1>2, <2>1, <2>2, <2>3, SameSizeByBijection
  <1>4. \A r \in R : c.link[r] \in Paths BY <1>1 DEF ToSet, Sound
  <1>5. \A p \in Paths :
            Stakes(d.jobs, p, c.scan) = {<<c.scan, r>> : r \in {x \in left : c.link[x] = p}}
    BY DEF Taken
  <1> HIDE DEF R
  <1>6. /\ IsFiniteSet(left) /\ IsFiniteSet(d.rejected)
        /\ Cardinality(left) = Cardinality(R) - Cardinality(d.rejected)
        /\ Cardinality(left) \in Nat /\ Cardinality(d.rejected) \in Nat
    <2>1. R \cap d.rejected = d.rejected BY <1>1
    <2>2. IsFiniteSet(left) /\ Cardinality(left) = Cardinality(R) - Cardinality(d.rejected)
      BY <1>3, <2>1, FS_Difference
    <2>3. IsFiniteSet(d.rejected) BY <1>1, <1>3, FS_Subset
    <2> QED BY <2>2, <2>3, FS_CardinalityType
  <1> HIDE DEF left
  <1>7. Cardinality(owed) = Cardinality(left)
    <2> DEFINE f == [r \in left |-> <<c.link[r], <<c.scan, r>>>>]
    <2>1. \A x : x \in owed <=> \E p \in Paths : \E k \in Stakes(d.jobs, p, c.scan) : x = <<p, k>>
      BY <1>1, DebtsAreFinite
    <2> HIDE DEF owed
    <2>2. ASSUME NEW r \in left PROVE f[r] \in owed
      <3>1. c.link[r] \in Paths BY <1>4 DEF left
      <3>2. <<c.scan, r>> \in Stakes(d.jobs, c.link[r], c.scan) BY <1>5, <3>1
      <3> QED BY <2>1, <3>1, <3>2
    <2>3. f \in [left -> owed] BY <2>2
    <2>4. \A x, y \in left : f[x] = f[y] => x = y OBVIOUS
    <2>5. ASSUME NEW x \in owed PROVE \E r \in left : f[r] = x
      <3>1. PICK p \in Paths : \E k \in Stakes(d.jobs, p, c.scan) : x = <<p, k>> BY <2>1
      <3>2. PICK r \in left : c.link[r] = p /\ x = <<p, <<c.scan, r>>>> BY <1>5, <3>1
      <3> QED BY <3>2
    <2> HIDE DEF f
    <2> QED BY <1>6, <2>3, <2>4, <2>5, SameSizeByBijection
  <1> QED BY <1>1, <1>3, <1>6, <1>7 DEF owed

-----------------------------------------------------------------------------
(* What holds of the board, of its calls and of the scheduler. *)

BoardSound ==
    /\ path \in [Repos -> Paths \cup {NoValue}] /\ priority \subseteq Repos /\ seen \subseteq Repos
    /\ gen \in 0..MaxScans
    /\ active # NoValue => "scan" \in DOMAIN active /\ active.scan \in Inspection!Scans
    /\ refresh # NoValue =>
          /\ gen \in Inspection!Scans /\ refresh.repos \subseteq Repos
          /\ \A r \in refresh.repos : path[r] \in Paths

\* A generation is scheduled at most once, by the refresh that took it.
Schedules == {c \in calls : "order" \in DOMAIN c}
CallsSound ==
    /\ \A c \in calls : c \in [cancel : Inspection!Scans]
       \/ ("order" \in DOMAIN c /\ "cancel" \notin DOMAIN c)
    /\ \A c \in Schedules :
          Sound(c) /\ c.scan <= gen /\ (c.scan = gen => refresh = NoValue)
    /\ \A c, e \in Schedules : c.scan = e.scan => c = e

\* A scan that is not yet scheduled has left no trace at the scheduler.
NoTrace(s) ==
    /\ scans[s] = NoValue
    /\ \A p \in Paths : Stakes(jobs, p, s) = {}
    /\ rejected # NoValue => rejected.scan # s
Unscheduled(s) ==
    s > gen \/ (s = gen /\ refresh # NoValue) \/ \E c \in Schedules : c.scan = s

WorkersSound ==
    /\ worker \in [Workers -> Inspection!Work \cup {NoValue}]
    /\ \A w \in Workers : worker[w] # NoValue =>
          jobs[worker[w].path] # NoValue /\ jobs[worker[w].path].running
    /\ \A v, w \in Workers : worker[v] # NoValue /\ worker[w] # NoValue
          /\ worker[v].path = worker[w].path => v = w

Uncounted(s) ==
    IF rejected # NoValue /\ rejected.scan = s THEN Cardinality(rejected.repos) ELSE 0
CountsSound ==
    /\ scans \in [Inspection!Scans -> Nat \cup {NoValue}]
    /\ rejected \in Inspection!Rejected \cup {NoValue}
    /\ rejected # NoValue => IsFiniteSet(rejected.repos) /\ Cardinality(rejected.repos) \in Nat
    /\ \A s \in Inspection!Scans : scans[s] # NoValue =>
          scans[s] = Cardinality(Debts(jobs, s)) + Uncounted(s)

SchedulerInv ==
    /\ BoardSound /\ CallsSound
    /\ \A s \in Inspection!Scans : Unscheduled(s) => NoTrace(s)
    /\ Tidy(queue, jobs) /\ WorkersSound /\ CountsSound

\* The promise is a part of it.
LEMMA InvIsExact ==
    ASSUME Inspection!InspectionConstants, SchedulerInv PROVE SchedulerIsExact
  <1>1. /\ jobs \in JobTable /\ DOMAIN jobs = Paths /\ IsInjective(queue)
        /\ ToSet(queue) = Waiting(jobs) /\ Cardinality(HeldIn(jobs)) <= Capacity
        /\ DOMAIN scans = Inspection!Scans
    BY DEF SchedulerInv, Tidy, JobTable, CountsSound
  <1>2. HeldPaths = HeldIn(jobs) /\ {p \in HeldPaths : ~jobs[p].running} = Waiting(jobs)
    BY <1>1 DEF HeldPaths, HeldIn, Waiting
  <1>3. ASSUME NEW s \in Inspection!Scans PROVE Owed(s) = Debts(jobs, s)
    <2>1. \A p \in HeldPaths : Claims(p, s) = Stakes(jobs, p, s) BY <1>2 DEF Claims, Stakes, HeldIn
    <2>2. \A p \in Paths \ HeldPaths : Stakes(jobs, p, s) = {} BY <1>2 DEF Stakes, HeldIn
    <2>3. HeldPaths \subseteq Paths BY <1>2 DEF HeldIn
    <2>4. \A x : x \in Owed(s) <=> \E p \in HeldPaths : x \in {p} \X Stakes(jobs, p, s)
      BY <2>1 DEF Owed
    <2>5. \A x : x \in Debts(jobs, s) <=> \E p \in Paths : x \in {p} \X Stakes(jobs, p, s)
      BY DEF Debts
    <2>6. \A x : x \in Owed(s) <=> x \in Debts(jobs, s) BY <2>2, <2>3, <2>4, <2>5
    <2> QED BY <2>6
  <1> QED BY <1>1, <1>2, <1>3 DEF SchedulerIsExact, SchedulerInv, CountsSound, Uncounted

LEMMA InitHolds ==
    ASSUME Inspection!InspectionConstants, Inspection!Init PROVE SchedulerInv
  <1>1. BoardSound
    <2>1. HomePath \in [Repos -> Paths \cup {NoValue}] /\ 0 \in 0..MaxScans
      BY DEF Inspection!InspectionConstants
    <2> QED BY <2>1 DEF BoardSound, Inspection!Init
  <1>2. CallsSound BY DEF CallsSound, Schedules, Inspection!Init
  <1>3. /\ jobs \in JobTable /\ HeldIn(jobs) = {} /\ Waiting(jobs) = {}
        /\ \A p \in Paths, s \in Inspection!Scans : Stakes(jobs, p, s) = {}
    BY DEF Inspection!Init, JobTable, HeldIn, Waiting, Stakes
  <1>4. Tidy(queue, jobs)
    <2>1. queue \in Seq(Paths) /\ IsInjective(queue) /\ ToSet(queue) = {}
      BY DEF Inspection!Init, IsInjective, ToSet
    <2>2. Cardinality(HeldIn(jobs)) <= Capacity
      BY <1>3, FS_EmptySet DEF Inspection!InspectionConstants
    <2> QED BY <1>3, <2>1, <2>2 DEF Tidy
  <1>5. WorkersSound /\ CountsSound BY DEF WorkersSound, CountsSound, Inspection!Init
  <1>6. \A s \in Inspection!Scans : NoTrace(s) BY <1>3 DEF NoTrace, Inspection!Init
  <1> QED BY <1>1, <1>2, <1>4, <1>5, <1>6 DEF SchedulerInv

-----------------------------------------------------------------------------
(* The scheduler's steps. *)

\* Jobs that keep the claims of a scan keep what is owed it.
LEMMA SameDebts ==
    ASSUME NEW js, NEW s, \A p \in Paths : Stakes(js, p, s) = Stakes(jobs, p, s)
    PROVE  Debts(js, s) = Debts(jobs, s)
  BY DEF Debts

\* The scan scheduled has left no trace, so what it is owed is what its call adds.
LEMMA ScheduleKeeps ==
    ASSUME Inspection!InspectionConstants, SchedulerInv, NEW c \in calls,
           Inspection!ExecuteSchedule(c)
    PROVE  SchedulerInv'
  <1> DEFINE d == Inspection!Scheduled(c)
  <1>1. /\ c \in Schedules /\ Sound(c) /\ c.scan \in Inspection!Scans /\ rejected = NoValue
        /\ c.scan <= gen /\ (c.scan = gen => refresh = NoValue)
        /\ calls' = calls \ {c}
        /\ queue' = d.queue /\ jobs' = d.jobs
        /\ rejected' = [scan |-> c.scan, repos |-> d.rejected]
        /\ scans' = [scans EXCEPT ![c.scan] = Len(c.order)]
        /\ UNCHANGED <<Inspection!boardVars, worker>>
    BY DEF Inspection!ExecuteSchedule, Inspection!MainThreadFree, SchedulerInv, CallsSound,
      Schedules, Sound
  <1>2. Tidy(queue, jobs) /\ NoTrace(c.scan) BY <1>1 DEF SchedulerInv, Unscheduled
  <1>3. Taken(d, ToSet(c.order), c.scan, c.link) BY <1>1, <1>2, ScheduledIsTaken DEF NoTrace
  <1> HIDE DEF d
  <1>4. /\ Tidy(queue', jobs')
        /\ \A p \in Paths, s \in Inspection!Scans \ {c.scan} :
           Stakes(jobs', p, s) = Stakes(jobs, p, s)
        /\ \A p \in Paths : jobs[p] # NoValue =>
              jobs'[p] # NoValue /\ jobs'[p].running = jobs[p].running
        /\ d.rejected \in SUBSET Repos
    BY <1>1, <1>3 DEF Taken, Candidates
  <1>5. BoardSound' BY <1>1 DEF SchedulerInv, BoardSound, Inspection!boardVars
  <1>6. Schedules' = Schedules \ {c} BY <1>1 DEF Schedules
  <1>7. CallsSound' BY <1>1, <1>6 DEF SchedulerInv, CallsSound, Inspection!boardVars, Sound
  <1>8. ASSUME NEW s \in Inspection!Scans, Unscheduled(s)' PROVE NoTrace(s)'
    <2>1. s # c.scan
      <3>1. s > gen \/ (s = gen /\ refresh # NoValue) \/ \E e \in Schedules \ {c} : e.scan = s
        BY <1>1, <1>6, <1>8 DEF Unscheduled, Inspection!boardVars
      <3>2. \A e \in Schedules \ {c} : e.scan # c.scan BY <1>1 DEF SchedulerInv, CallsSound
      <3>3. c.scan \in Nat /\ gen \in Nat BY <1>1 DEF Inspection!Scans, SchedulerInv, BoardSound
      <3> QED BY <1>1, <3>1, <3>2, <3>3
    <2>2. NoTrace(s) BY <1>1, <1>6, <1>8 DEF Unscheduled, SchedulerInv, Inspection!boardVars
    <2> QED BY <1>1, <1>4, <2>1, <2>2 DEF NoTrace, SchedulerInv, CountsSound
  <1>9. WorkersSound'
    <2>1. \A w \in Workers : worker[w] # NoValue => worker[w].path \in Paths
      BY DEF SchedulerInv, WorkersSound, Inspection!Work
    <2> QED BY <1>1, <1>4, <2>1 DEF SchedulerInv, WorkersSound
  <1>10. CountsSound'
    <2>1. /\ Cardinality(d.rejected) \in Nat
          /\ Len(c.order) = Cardinality(Debts(jobs', c.scan)) + Cardinality(d.rejected)
      BY <1>1, <1>3, CandidatesAreOwed
    <2>2. rejected' \in Inspection!Rejected BY <1>1, <1>4 DEF Inspection!Rejected
    <2>3. rejected' # NoValue /\ IsFiniteSet(rejected'.repos)
      <3>1. rejected' # NoValue BY <2>2 DEF Inspection!InspectionConstants
      <3>2. IsFiniteSet(d.rejected)
        BY <1>4, FS_Subset, SameFinite DEF Inspection!InspectionConstants
      <3> QED BY <1>1, <3>1, <3>2
    <2>4. scans' \in [Inspection!Scans -> Nat \cup {NoValue}]
      <3>1. Len(c.order) \in Nat BY <1>1 DEF Sound
      <3> QED BY <1>1, <3>1 DEF SchedulerInv, CountsSound
    <2>5. ASSUME NEW s \in Inspection!Scans, scans'[s] # NoValue
          PROVE  scans'[s] = Cardinality(Debts(jobs', s)) + Uncounted(s)'
      <3>1. CASE s = c.scan
        <4>1. scans'[s] = Len(c.order) BY <1>1, <3>1 DEF SchedulerInv, CountsSound
        <4>2. Uncounted(s)' = Cardinality(d.rejected) BY <1>1, <2>3, <3>1 DEF Uncounted
        <4> QED BY <2>1, <3>1, <4>1, <4>2
      <3>2. CASE s # c.scan
        <4>1. scans'[s] = scans[s] BY <1>1, <3>2 DEF SchedulerInv, CountsSound
        <4>2. Uncounted(s)' = 0 /\ Uncounted(s) = 0 BY <1>1, <3>2 DEF Uncounted
        <4>3. Debts(jobs', s) = Debts(jobs, s) BY <1>4, <3>2, SameDebts
        <4> QED BY <2>5, <4>1, <4>2, <4>3 DEF SchedulerInv, CountsSound
      <3> QED BY <3>1, <3>2
    <2>6. \A s \in Inspection!Scans : scans'[s] # NoValue =>
              scans'[s] = Cardinality(Debts(jobs', s)) + Uncounted(s)'
      BY <2>5
    <2>7. Cardinality(rejected'.repos) \in Nat BY <1>1, <2>1
    <2> QED BY <2>2, <2>3, <2>4, <2>6, <2>7 DEF CountsSound, Debts, Stakes
  <1> QED BY <1>4, <1>5, <1>7, <1>8, <1>9, <1>10
          DEF SchedulerInv, Tidy, JobTable, Waiting, HeldIn

LEMMA ImmediateKeeps ==
    ASSUME Inspection!InspectionConstants, SchedulerInv, Inspection!CompleteImmediate
    PROVE  SchedulerInv'
  <1> DEFINE k == rejected.scan
             left == scans[k] - Cardinality(rejected.repos)
  <1>1. /\ rejected # NoValue /\ rejected' = NoValue /\ rejected \in Inspection!Rejected
           /\ k \in Inspection!Scans
        /\ scans' = [scans EXCEPT ![k] = IF @ = NoValue \/ left <= 0 THEN NoValue ELSE left]
        /\ UNCHANGED <<Inspection!boardVars, calls, queue, jobs, worker>>
    BY SameSize DEF Inspection!CompleteImmediate, SchedulerInv, CountsSound, Inspection!Rejected
  <1>2. BoardSound' /\ CallsSound' /\ Schedules' = Schedules
    BY <1>1 DEF SchedulerInv, BoardSound, CallsSound, Schedules, Inspection!boardVars
  <1>3. Tidy(queue, jobs)' /\ WorkersSound'
    BY <1>1 DEF SchedulerInv, Tidy, JobTable, Waiting, HeldIn, WorkersSound
  <1>4. ASSUME NEW s \in Inspection!Scans, Unscheduled(s)' PROVE NoTrace(s)'
    <2>1. NoTrace(s) BY <1>1, <1>2, <1>4 DEF Unscheduled, SchedulerInv, Inspection!boardVars
    <2>2. s # k BY <1>1, <2>1 DEF NoTrace
    <2> QED BY <1>1, <2>1, <2>2 DEF NoTrace, Stakes, SchedulerInv, CountsSound
  <1>5. \A s \in Inspection!Scans : Debts(jobs', s) = Debts(jobs, s) BY <1>1
  <1>6. CountsSound'
    <2>1. scans[k] # NoValue =>
              /\ scans[k] = Cardinality(Debts(jobs, k)) + Cardinality(rejected.repos)
              /\ Cardinality(Debts(jobs, k)) \in Nat /\ Cardinality(rejected.repos) \in Nat
      BY <1>1, DebtsAreFinite DEF SchedulerInv, CountsSound, Uncounted, Tidy
    <2>2. scans[k] # NoValue => left = Cardinality(Debts(jobs, k)) /\ left \in Nat BY <2>1
    <2> HIDE DEF left
    <2>3. ASSUME NEW s \in Inspection!Scans
          PROVE  /\ scans'[s] \in Nat \cup {NoValue}
                 /\ scans'[s] # NoValue => scans'[s] = Cardinality(Debts(jobs', s))
      <3>1. CASE s = k BY <1>1, <1>5, <2>2, <3>1 DEF SchedulerInv, CountsSound
      <3>2. CASE s # k
        <4>1. scans'[s] = scans[s] /\ scans[s] \in Nat \cup {NoValue}
          BY <1>1, <3>2 DEF SchedulerInv, CountsSound
        <4>2. scans[s] # NoValue => scans[s] = Cardinality(Debts(jobs, s)) + 0
          BY <3>2 DEF SchedulerInv, CountsSound, Uncounted
        <4>3. Cardinality(Debts(jobs, s)) \in Nat BY DebtsAreFinite DEF SchedulerInv, Tidy
        <4> QED BY <1>5, <4>1, <4>2, <4>3
      <3> QED BY <3>1, <3>2
    <2>4. scans' \in [Inspection!Scans -> Nat \cup {NoValue}]
      <3>1. scans' = [s \in Inspection!Scans |-> scans'[s]] BY <1>1 DEF SchedulerInv, CountsSound
      <3> QED BY <2>3, <3>1
    <2>5. ASSUME NEW s \in Inspection!Scans, scans'[s] # NoValue
          PROVE  scans'[s] = Cardinality(Debts(jobs, s)') + Uncounted(s)'
      <3>1. Uncounted(s)' = 0 BY <1>1 DEF Uncounted
      <3>2. Debts(jobs, s)' = Debts(jobs', s) BY <1>1
      <3>3. Cardinality(Debts(jobs', s)) \in Nat BY <1>5, DebtsAreFinite DEF SchedulerInv, Tidy
      <3> QED BY <2>3, <2>5, <3>1, <3>2, <3>3
    <2>6. \A s \in Inspection!Scans : scans'[s] # NoValue =>
              scans'[s] = Cardinality(Debts(jobs, s)') + Uncounted(s)'
      BY <2>5
    <2> QED BY <1>1, <2>4, <2>6 DEF CountsSound
  <1>7. \A s \in Inspection!Scans : Unscheduled(s)' => NoTrace(s)' BY <1>4
  <1> QED BY <1>2, <1>3, <1>6, <1>7 DEF SchedulerInv

\* Steps of the scheduler alone leave the board, and what it asks for, as they are.
LEMMA BoardRests ==
    ASSUME SchedulerInv, UNCHANGED Inspection!boardVars, calls' \subseteq calls
    PROVE  /\ BoardSound' /\ CallsSound'
           /\ \A s \in Inspection!Scans : Unscheduled(s)' => Unscheduled(s)
  <1>1. BoardSound' BY DEF SchedulerInv, BoardSound, Inspection!boardVars
  <1>2. Schedules' \subseteq Schedules BY DEF Schedules
  <1>3. CallsSound' BY <1>2 DEF SchedulerInv, CallsSound, Inspection!boardVars, Sound
  <1>4. \A s \in Inspection!Scans : Unscheduled(s)' => Unscheduled(s)
    BY <1>2 DEF Unscheduled, Inspection!boardVars
  <1> QED BY <1>1, <1>3, <1>4

\* What the dropped jobs owed was owed to the cancelled scan alone.
LEMMA CancelKeeps ==
    ASSUME Inspection!InspectionConstants, SchedulerInv, NEW c \in calls,
           Inspection!ExecuteCancel(c)
    PROVE  SchedulerInv'
  <1> DEFINE k == c.cancel
             kept(p) == {s \in jobs[p].subs : s[1] # k}
             abandoned == {p \in HeldPaths : ~jobs[p].running /\ kept(p) = {}}
  <1>1. /\ calls' = calls \ {c} /\ k \in Inspection!Scans /\ rejected = NoValue
        /\ jobs' = [p \in Paths |-> IF p \in HeldPaths \ abandoned
                                    THEN [jobs[p] EXCEPT !.subs = kept(p)] ELSE NoValue]
        /\ queue' = Inspection!Without(queue, abandoned)
        /\ scans' = [scans EXCEPT ![k] = NoValue]
        /\ UNCHANGED <<Inspection!boardVars, rejected, worker>>
    <2>1. c \in [cancel : Inspection!Scans]
      BY DEF Inspection!ExecuteCancel, SchedulerInv, CallsSound
    <2> QED BY <2>1 DEF Inspection!ExecuteCancel, Inspection!MainThreadFree, Inspection!HeldPaths,
                      HeldPaths
  <1>2. /\ queue \in Seq(Paths) /\ IsInjective(queue) /\ jobs \in JobTable
        /\ Cardinality(HeldIn(jobs)) <= Capacity /\ ToSet(queue) = Waiting(jobs)
        /\ HeldPaths = HeldIn(jobs) /\ NoValue \notin Inspection!Jobs
    BY DEF SchedulerInv, Tidy, HeldPaths, HeldIn, JobTable, Inspection!InspectionConstants
  <1>3. BoardSound' /\ CallsSound' /\ \A s \in Inspection!Scans : Unscheduled(s)' => Unscheduled(s)
    BY <1>1, BoardRests
  <1>4. ASSUME NEW p \in HeldPaths \ abandoned
        PROVE  /\ p \in Paths /\ jobs'[p] \in Inspection!Jobs /\ jobs'[p] # NoValue
               /\ jobs'[p].running = jobs[p].running /\ jobs'[p].subs = kept(p)
    <2>1. p \in Paths /\ jobs[p] \in Inspection!Jobs BY <1>2 DEF HeldIn, JobTable
    <2>2. kept(p) \in SUBSET (Inspection!Scans \X Repos) BY <2>1 DEF Inspection!Jobs
    <2> HIDE DEF kept, abandoned
    <2>3. jobs'[p] = [jobs[p] EXCEPT !.subs = kept(p)] BY <1>1, <2>1
    <2>4. [jobs[p] EXCEPT !.subs = kept(p)] \in Inspection!Jobs BY <2>1, <2>2 DEF Inspection!Jobs
    <2> QED BY <1>2, <2>1, <2>3, <2>4 DEF Inspection!Jobs
  <1>5. \A p \in Paths \ (HeldPaths \ abandoned) : jobs'[p] = NoValue BY <1>1
  <1>6. /\ jobs' \in JobTable
        /\ HeldIn(jobs') = HeldPaths \ abandoned
        /\ Waiting(jobs') = Waiting(jobs) \ abandoned
    <2>1. jobs' \in JobTable
      <3> DEFINE f(p) == IF p \in HeldPaths \ abandoned THEN [jobs[p] EXCEPT !.subs = kept(p)]
                         ELSE NoValue
      <3>1. jobs' = [p \in Paths |-> f(p)] BY <1>1
      <3> HIDE DEF f
      <3>2. \A p \in Paths : f(p) \in Inspection!Jobs \cup {NoValue} BY <1>4, <1>5, <3>1
      <3> QED BY <3>1, <3>2 DEF JobTable
    <2> HIDE DEF kept, abandoned
    <2>2. HeldIn(jobs') = HeldPaths \ abandoned BY <1>2, <1>4, <1>5 DEF HeldIn
    <2>3. Waiting(jobs') = Waiting(jobs) \ abandoned BY <1>2, <1>4, <1>5 DEF HeldIn, Waiting
    <2> QED BY <2>1, <2>2, <2>3
  <1>7. Tidy(queue, jobs)'
    <2>1. /\ queue' \in Seq(Paths) /\ ToSet(queue') = Waiting(jobs) \ abandoned
          /\ IsInjective(queue')
      BY <1>1, <1>2, WithoutLeavesTheRest
    <2>2. Cardinality(HeldIn(jobs')) <= Capacity
      <3>1. /\ IsFiniteSet(HeldIn(jobs)) /\ Cardinality(HeldIn(jobs)) \in Nat
            /\ HeldIn(jobs') \in SUBSET HeldIn(jobs) /\ Cardinality(HeldIn(jobs')) \in Nat
        BY <1>2, <1>6, JobsAreFinite
      <3>2. Cardinality(HeldIn(jobs')) <= Cardinality(HeldIn(jobs)) BY <3>1, FS_Subset
      <3> QED BY <1>2, <3>1, <3>2 DEF Inspection!InspectionConstants
    <2>3. \A p \in Waiting(jobs') : jobs'[p].subs # {}
      <3>1. Waiting(jobs') \subseteq HeldPaths /\ \A p \in Waiting(jobs') : ~jobs[p].running
        BY <1>2, <1>6 DEF Waiting, HeldIn
      <3>2. \A p \in Waiting(jobs') : p \in HeldPaths \ abandoned BY <1>6, <3>1
      <3> QED BY <1>4, <3>1, <3>2
    <2> HIDE DEF abandoned
    <2>4. Tidy(queue', jobs') BY <1>6, <2>1, <2>2, <2>3 DEF Tidy
    <2> QED BY <2>4 DEF Tidy, JobTable, Waiting, HeldIn
  <1>8. ASSUME NEW p \in Paths, NEW s
        PROVE  /\ Stakes(jobs', p, s) \subseteq Stakes(jobs, p, s)
               /\ s # k => Stakes(jobs', p, s) = Stakes(jobs, p, s)
    <2>1. CASE p \in HeldPaths \ abandoned
      <3>1. /\ jobs'[p] # NoValue /\ jobs'[p].subs = {t \in jobs[p].subs : t[1] # k}
            /\ jobs[p] # NoValue
        BY <1>2, <1>4, <2>1 DEF HeldIn
      <3> QED BY <3>1 DEF Stakes
    <2>2. CASE p \in abandoned
      <3>1. jobs'[p] = NoValue /\ {t \in jobs[p].subs : t[1] # k} = {} /\ jobs[p] # NoValue
        BY <1>2, <1>5, <2>2 DEF HeldIn
      <3> QED BY <3>1 DEF Stakes
    <2>3. CASE p \notin HeldPaths
      <3>1. jobs'[p] = NoValue /\ jobs[p] = NoValue BY <1>2, <1>5, <2>3 DEF HeldIn
      <3> QED BY <3>1 DEF Stakes
    <2> QED BY <2>1, <2>2, <2>3
  <1>9. WorkersSound'
    <2>1. ASSUME NEW w \in Workers, worker[w] # NoValue
          PROVE  jobs'[worker[w].path] # NoValue /\ jobs'[worker[w].path].running
      <3>1. /\ worker[w].path \in Paths /\ jobs[worker[w].path] # NoValue
            /\ jobs[worker[w].path].running
        BY <2>1 DEF SchedulerInv, WorkersSound, Inspection!Work
      <3>2. worker[w].path \in HeldPaths \ abandoned BY <1>2, <3>1 DEF HeldIn
      <3> HIDE DEF abandoned, kept
      <3> QED BY <1>4, <3>1, <3>2
    <2> QED BY <1>1, <2>1 DEF SchedulerInv, WorkersSound
  <1> HIDE DEF kept, abandoned
  <1>10. ASSUME NEW s \in Inspection!Scans, Unscheduled(s)' PROVE NoTrace(s)'
    <2>1. NoTrace(s) BY <1>3, <1>10 DEF SchedulerInv
    <2>2. \A p \in Paths : Stakes(jobs', p, s) = {} BY <1>8, <2>1 DEF NoTrace
    <2> QED BY <1>1, <2>1, <2>2 DEF NoTrace, Stakes, SchedulerInv, CountsSound
  <1>11. CountsSound'
    <2>1. ASSUME NEW s \in Inspection!Scans, scans'[s] # NoValue
          PROVE  scans'[s] = Cardinality(Debts(jobs, s)') + Uncounted(s)'
      <3>1. s # k /\ scans'[s] = scans[s] BY <1>1, <2>1 DEF SchedulerInv, CountsSound
      <3>2. Debts(jobs', s) = Debts(jobs, s) BY <1>8, <3>1, SameDebts
      <3>3. Uncounted(s)' = Uncounted(s) BY <1>1 DEF Uncounted
      <3>4. Debts(jobs, s)' = Debts(jobs', s) BY DEF Debts, Stakes
      <3> QED BY <2>1, <3>1, <3>2, <3>3, <3>4 DEF SchedulerInv, CountsSound
    <2>2. scans' \in [Inspection!Scans -> Nat \cup {NoValue}] BY <1>1 DEF SchedulerInv, CountsSound
    <2>3. \A s \in Inspection!Scans : scans'[s] # NoValue =>
              scans'[s] = Cardinality(Debts(jobs, s)') + Uncounted(s)'
      BY <2>1
    <2> QED BY <1>1, <2>2, <2>3 DEF CountsSound, SchedulerInv
  <1>12. \A s \in Inspection!Scans : Unscheduled(s)' => NoTrace(s)' BY <1>10
  <1> QED BY <1>3, <1>7, <1>9, <1>11, <1>12 DEF SchedulerInv

\* The first of a queue is taken off.
LEMMA TailOfQueue ==
    ASSUME NEW X, NEW q \in Seq(X), q # <<>>, IsInjective(q)
    PROVE  /\ Head(q) \in ToSet(q) /\ Tail(q) \in Seq(X)
           /\ ToSet(Tail(q)) = ToSet(q) \ {Head(q)} /\ IsInjective(Tail(q))
  <1> DEFINE t == Tail(q)
  <1>1. /\ Len(q) \in Nat \ {0} /\ DOMAIN q = 1..Len(q) /\ Head(q) = q[1]
        /\ t \in Seq(X) /\ DOMAIN t = 1..Len(q) - 1
        /\ \A i \in 1..Len(q) - 1 : t[i] = q[i + 1]
    OBVIOUS
  <1> HIDE DEF t
  <1>2. 1 \in 1..Len(q) /\ \A i \in 1..Len(q) - 1 : i + 1 \in 1..Len(q) /\ i + 1 # 1 BY <1>1
  <1>3. \A i \in 1..Len(q) : i = 1 \/ (i - 1 \in 1..Len(q) - 1 /\ (i - 1) + 1 = i) BY <1>1
  <1>4. Head(q) \in ToSet(q) BY <1>1, <1>2 DEF ToSet
  <1>5. ToSet(t) = ToSet(q) \ {Head(q)}
    <2>1. ASSUME NEW x \in ToSet(t) PROVE x \in ToSet(q) \ {Head(q)}
      <3>1. PICK i \in 1..Len(q) - 1 : x = t[i] BY <1>1, <2>1 DEF ToSet
      <3> QED BY <1>1, <1>2, <3>1 DEF ToSet, IsInjective
    <2>2. ASSUME NEW x \in ToSet(q), x # Head(q) PROVE x \in ToSet(t)
      <3>1. PICK i \in 1..Len(q) : x = q[i] BY <1>1 DEF ToSet
      <3>2. i - 1 \in 1..Len(q) - 1 /\ t[i - 1] = x BY <1>1, <1>3, <2>2, <3>1
      <3> QED BY <1>1, <3>2 DEF ToSet
    <2> QED BY <2>1, <2>2
  <1>6. IsInjective(t)
    <2>1. ASSUME NEW i \in 1..Len(q) - 1, NEW j \in 1..Len(q) - 1, t[i] = t[j] PROVE i = j
      <3>1. i + 1 = j + 1 BY <1>1, <1>2, <2>1 DEF IsInjective
      <3> QED BY <3>1
    <2> QED BY <1>1, <2>1 DEF IsInjective
  <1> QED BY <1>1, <1>4, <1>5, <1>6 DEF t

LEMMA TakeKeeps ==
    ASSUME Inspection!InspectionConstants, SchedulerInv, NEW w \in Workers, Inspection!TakeJob(w)
    PROVE  SchedulerInv'
  <1> DEFINE p == Head(queue)
             j == [jobs[p] EXCEPT !.running = TRUE]
  <1>1. /\ queue \in Seq(Paths) /\ IsInjective(queue) /\ jobs \in JobTable
        /\ Cardinality(HeldIn(jobs)) <= Capacity /\ ToSet(queue) = Waiting(jobs)
        /\ \A q \in Waiting(jobs) : jobs[q].subs # {}
        /\ NoValue \notin Inspection!Jobs /\ NoValue \notin Inspection!Work /\ queue # <<>>
           /\ worker[w] = NoValue
    BY DEF SchedulerInv, Tidy, Inspection!InspectionConstants, Inspection!TakeJob
  <1>2. /\ Tail(queue) \in Seq(Paths) /\ IsInjective(Tail(queue))
        /\ p \in Waiting(jobs) /\ ToSet(Tail(queue)) = Waiting(jobs) \ {p}
    BY <1>1, TailOfQueue
  <1>3. p \in Paths /\ jobs[p] # NoValue /\ ~jobs[p].running /\ jobs[p].subs # {}
        /\ jobs[p] \in Inspection!Jobs
    BY <1>1, <1>2 DEF Waiting, JobTable
  <1>4. /\ queue' = Tail(queue) /\ jobs' = [jobs EXCEPT ![p] = j]
        /\ worker' = [worker EXCEPT ![w] = [path |-> p, done |-> FALSE]]
        /\ UNCHANGED <<Inspection!boardVars, calls, scans, rejected>>
    BY <1>3 DEF Inspection!TakeJob
  <1> HIDE DEF p
  <1>5. j \in Inspection!Jobs /\ j # NoValue /\ j.running /\ j.subs = jobs[p].subs
    BY <1>1, <1>3 DEF Inspection!Jobs
  <1> HIDE DEF j
  <1>6. /\ jobs' \in JobTable /\ jobs'[p] = j /\ \A q \in Paths \ {p} : jobs'[q] = jobs[q]
    BY <1>1, <1>3, <1>4, <1>5 DEF JobTable
  <1>7. HeldIn(jobs') = HeldIn(jobs) /\ Waiting(jobs') = Waiting(jobs) \ {p}
    BY <1>3, <1>5, <1>6 DEF HeldIn, Waiting
  <1>8. Tidy(queue, jobs)'
    <2>1. \A q \in Waiting(jobs') : jobs'[q].subs # {} BY <1>1, <1>6, <1>7 DEF Waiting
    <2>2. Tidy(queue', jobs') BY <1>1, <1>2, <1>4, <1>6, <1>7, <2>1 DEF Tidy
    <2> QED BY <2>2 DEF Tidy, JobTable, Waiting, HeldIn
  <1>9. \A q \in Paths, s \in Inspection!Scans : Stakes(jobs', q, s) = Stakes(jobs, q, s)
    BY <1>3, <1>5, <1>6 DEF Stakes
  <1>10. BoardSound' /\ CallsSound' /\ \A s \in Inspection!Scans : Unscheduled(s)' => Unscheduled(s)
    BY <1>4, BoardRests
  <1>11. \A s \in Inspection!Scans : Unscheduled(s)' => NoTrace(s)'
    <2>1. ASSUME NEW s \in Inspection!Scans, Unscheduled(s)' PROVE NoTrace(s)'
      <3>1. NoTrace(s) BY <1>10, <2>1 DEF SchedulerInv
      <3>2. \A q \in Paths : Stakes(jobs', q, s) = {} BY <1>9, <3>1 DEF NoTrace
      <3> QED BY <1>4, <3>1, <3>2 DEF NoTrace, Stakes
    <2> QED BY <2>1
  <1>12. WorkersSound'
    <2>1. worker \in [Workers -> Inspection!Work \cup {NoValue}] BY DEF SchedulerInv, WorkersSound
    <2>2. [path |-> p, done |-> FALSE] \in Inspection!Work BY <1>3 DEF Inspection!Work
    <2>3. /\ worker' \in [Workers -> Inspection!Work \cup {NoValue}]
          /\ worker'[w].path = p
          /\ \A v \in Workers \ {w} : worker'[v] = worker[v]
      BY <1>4, <2>1, <2>2
    <2>4. ASSUME NEW v \in Workers \ {w}, worker[v] # NoValue
          PROVE  /\ worker[v].path \in Paths \ {p} /\ jobs[worker[v].path] # NoValue
                 /\ jobs[worker[v].path].running
      BY <1>3, <2>4 DEF SchedulerInv, WorkersSound, Inspection!Work
    <2>5. ASSUME NEW v \in Workers, worker'[v] # NoValue
          PROVE  jobs'[worker'[v].path] # NoValue /\ jobs'[worker'[v].path].running
      <3>1. CASE v = w BY <1>5, <1>6, <2>3, <3>1
      <3>2. CASE v # w BY <1>6, <2>3, <2>4, <2>5, <3>2
      <3> QED BY <3>1, <3>2
    <2>6. ASSUME NEW u \in Workers, NEW v \in Workers, worker'[u] # NoValue, worker'[v] # NoValue,
                 worker'[u].path = worker'[v].path
          PROVE  u = v
      <3>1. CASE u # w /\ v # w BY <2>3, <2>6, <3>1 DEF SchedulerInv, WorkersSound
      <3>2. CASE u = w /\ v # w BY <2>3, <2>4, <2>6, <3>2
      <3>3. CASE u # w /\ v = w BY <2>3, <2>4, <2>6, <3>3
      <3> QED BY <3>1, <3>2, <3>3
    <2> QED BY <2>3, <2>5, <2>6 DEF WorkersSound
  <1>13. CountsSound'
    <2>1. \A s \in Inspection!Scans : Debts(jobs, s)' = Debts(jobs, s)
             /\ Uncounted(s)' = Uncounted(s)
      <3>1. \A s \in Inspection!Scans : Debts(jobs', s) = Debts(jobs, s) BY <1>9, SameDebts
      <3>2. \A s \in Inspection!Scans : Debts(jobs, s)' = Debts(jobs', s) BY DEF Debts, Stakes
      <3> QED BY <1>4, <3>1, <3>2 DEF Uncounted
    <2> QED BY <1>4, <2>1 DEF SchedulerInv, CountsSound
  <1> QED BY <1>8, <1>10, <1>11, <1>12, <1>13 DEF SchedulerInv

\* An answer from a folder changes only that its worker may finish.
LEMMA InspectionKeeps ==
    ASSUME SchedulerInv, NEW p \in Paths, Inspection!CompleteInspection(p) PROVE SchedulerInv'
  <1>1. /\ UNCHANGED <<path, priority, seen, gen, active, refresh, calls, queue, jobs, scans,
           rejected>>
        /\ worker' = [w \in Workers |-> IF worker[w] # NoValue /\ worker[w].path = p
                                        THEN [worker[w] EXCEPT !.done = TRUE] ELSE worker[w]]
    BY DEF Inspection!CompleteInspection
  <1>2. BoardSound' /\ CallsSound' /\ Schedules' = Schedules
    BY <1>1 DEF SchedulerInv, BoardSound, CallsSound, Schedules
  <1>3. \A s \in Inspection!Scans : Unscheduled(s)' => NoTrace(s)'
    BY <1>1, <1>2 DEF SchedulerInv, Unscheduled, NoTrace, Stakes
  <1>4. Tidy(queue, jobs)' /\ CountsSound'
    BY <1>1 DEF SchedulerInv, Tidy, JobTable, HeldIn, Waiting, CountsSound, Debts, Stakes, Uncounted
  <1>5. WorkersSound'
    <2>1. ASSUME NEW w \in Workers
          PROVE  /\ worker'[w] \in Inspection!Work \cup {NoValue}
                 /\ worker'[w] # NoValue => worker[w] # NoValue /\ worker'[w].path = worker[w].path
      BY <1>1 DEF SchedulerInv, WorkersSound, Inspection!Work
    <2>2. worker' = [w \in Workers |-> worker'[w]] BY <1>1
    <2>3. worker' \in [Workers -> Inspection!Work \cup {NoValue}] BY <2>1, <2>2
    <2> QED BY <1>1, <2>1, <2>3 DEF SchedulerInv, WorkersSound
  <1> QED BY <1>2, <1>3, <1>4, <1>5 DEF SchedulerInv

\* A finished job pays its subscribers, and each scan is owed as much less.
LEMMA FinishKeeps ==
    ASSUME Inspection!InspectionConstants, SchedulerInv, NEW w \in Workers, Inspection!FinishJob(w)
    PROVE  SchedulerInv'
  <1> DEFINE p == worker[w].path
             subs == {s \in jobs[p].subs : scans[s[1]] # NoValue}
             got(s) == Cardinality({t \in subs : t[1] = s})
  <1>1. /\ queue \in Seq(Paths) /\ IsInjective(queue) /\ jobs \in JobTable
        /\ Cardinality(HeldIn(jobs)) <= Capacity /\ ToSet(queue) = Waiting(jobs)
        /\ \A q \in Waiting(jobs) : jobs[q].subs # {}
        /\ worker[w] # NoValue /\ p \in Paths /\ jobs[p] # NoValue /\ jobs[p].running
    BY DEF SchedulerInv, Tidy, Inspection!FinishJob, WorkersSound, Inspection!Work
  <1>2. /\ jobs' = [jobs EXCEPT ![p] = NoValue]
        /\ scans' = [s \in Inspection!Scans |-> IF got(s) = 0 THEN scans[s]
                                     ELSE IF scans[s] <= got(s) THEN NoValue
                                     ELSE scans[s] - got(s)]
        /\ worker' = [worker EXCEPT ![w] = NoValue]
        /\ UNCHANGED <<Inspection!boardVars, calls, queue, rejected>>
    BY SameSize DEF Inspection!FinishJob
  <1>3. ASSUME NEW s \in Inspection!Scans
        PROVE  /\ scans[s] = NoValue => got(s) = 0
               /\ scans[s] # NoValue => got(s) = Cardinality(Stakes(jobs, p, s))
    <2>1. CASE scans[s] = NoValue
      <3>1. {t \in subs : t[1] = s} = {} BY <2>1
      <3> QED BY <2>1, <3>1, FS_EmptySet
    <2>2. CASE scans[s] # NoValue
      <3>1. {t \in subs : t[1] = s} = Stakes(jobs, p, s) BY <1>1, <2>2 DEF Stakes
      <3> QED BY <2>2, <3>1
    <2> QED BY <2>1, <2>2
  <1> HIDE DEF p, subs, got
  <1>4. /\ jobs' \in JobTable /\ jobs'[p] = NoValue /\ \A q \in Paths \ {p} : jobs'[q] = jobs[q]
    BY <1>1, <1>2 DEF JobTable
  <1>5. HeldIn(jobs') = HeldIn(jobs) \ {p} /\ Waiting(jobs') = Waiting(jobs)
    BY <1>1, <1>4 DEF HeldIn, Waiting
  <1>6. Tidy(queue, jobs)'
    <2>1. Cardinality(HeldIn(jobs')) <= Capacity
      <3>1. /\ IsFiniteSet(HeldIn(jobs)) /\ Cardinality(HeldIn(jobs)) \in Nat
            /\ HeldIn(jobs') \in SUBSET HeldIn(jobs) /\ Cardinality(HeldIn(jobs')) \in Nat
        BY <1>5, JobsAreFinite
      <3>2. Cardinality(HeldIn(jobs')) <= Cardinality(HeldIn(jobs)) BY <3>1, FS_Subset
      <3> QED BY <1>1, <3>1, <3>2 DEF Inspection!InspectionConstants
    <2>2. \A q \in Waiting(jobs') : jobs'[q].subs # {} BY <1>1, <1>4, <1>5 DEF Waiting
    <2>3. Tidy(queue', jobs') BY <1>1, <1>2, <1>4, <1>5, <2>1, <2>2 DEF Tidy
    <2> QED BY <2>3 DEF Tidy, JobTable, Waiting, HeldIn
  <1>7. \A q \in Paths, s \in Inspection!Scans :
            Stakes(jobs', q, s) = IF q = p THEN {} ELSE Stakes(jobs, q, s)
    BY <1>4 DEF Stakes
  <1>8. BoardSound' /\ CallsSound' /\ \A s \in Inspection!Scans : Unscheduled(s)' => Unscheduled(s)
    BY <1>2, BoardRests
  <1>9. \A s \in Inspection!Scans : Unscheduled(s)' => NoTrace(s)'
    <2>1. ASSUME NEW s \in Inspection!Scans, Unscheduled(s)' PROVE NoTrace(s)'
      <3>1. NoTrace(s) BY <1>8, <2>1 DEF SchedulerInv
      <3>2. scans'[s] = NoValue /\ \A q \in Paths : Stakes(jobs', q, s) = {}
        BY <1>2, <1>3, <1>7, <3>1 DEF NoTrace
      <3> QED BY <1>2, <3>1, <3>2 DEF NoTrace, Stakes
    <2> QED BY <2>1
  <1>10. WorkersSound'
    <2>1. worker \in [Workers -> Inspection!Work \cup {NoValue}] BY DEF SchedulerInv, WorkersSound
    <2>2. /\ worker' \in [Workers -> Inspection!Work \cup {NoValue}] /\ worker'[w] = NoValue
          /\ \A v \in Workers \ {w} : worker'[v] = worker[v]
      BY <1>2, <2>1
    <2>3. ASSUME NEW v \in Workers, worker'[v] # NoValue
          PROVE  /\ v # w /\ worker'[v] = worker[v] /\ worker[v].path \in Paths \ {p}
                 /\ jobs[worker[v].path] # NoValue /\ jobs[worker[v].path].running
      BY <1>1, <2>2, <2>3 DEF SchedulerInv, WorkersSound, Inspection!Work, p
    <2>4. ASSUME NEW v \in Workers, worker'[v] # NoValue
          PROVE  jobs'[worker'[v].path] # NoValue /\ jobs'[worker'[v].path].running
      BY <1>4, <2>3, <2>4
    <2>5. ASSUME NEW u \in Workers, NEW v \in Workers, worker'[u] # NoValue, worker'[v] # NoValue,
                 worker'[u].path = worker'[v].path
          PROVE  u = v
      BY <2>3, <2>5 DEF SchedulerInv, WorkersSound
    <2> QED BY <2>2, <2>4, <2>5 DEF WorkersSound
  <1>11. ASSUME NEW s \in Inspection!Scans, scans[s] # NoValue
         PROVE  /\ Cardinality(Debts(jobs', s)) = Cardinality(Debts(jobs, s)) - got(s)
                /\ Cardinality(Debts(jobs, s)) \in Nat /\ got(s) \in Nat
                /\ Cardinality(Debts(jobs', s)) \in Nat
    <2> DEFINE mine == Stakes(jobs, p, s)
               gone == {<<p, c>> : c \in mine}
    <2>1. /\ IsFiniteSet(Debts(jobs, s)) /\ Cardinality(Debts(jobs, s)) \in Nat
          /\ Cardinality(Debts(jobs', s)) \in Nat
          /\ IsFiniteSet(mine) /\ Cardinality(mine) \in Nat /\ got(s) = Cardinality(mine)
      BY <1>1, <1>3, <1>4, <1>11, DebtsAreFinite
    <2>2. \A x : x \in Debts(jobs, s) <=>
              \E q \in Paths : \E c \in Stakes(jobs, q, s) : x = <<q, c>>
      BY <1>1, DebtsAreFinite
    <2>3. \A x : x \in Debts(jobs', s) <=>
              \E q \in Paths : \E c \in Stakes(jobs', q, s) : x = <<q, c>>
      BY <1>4, DebtsAreFinite
    <2>4. Debts(jobs', s) = Debts(jobs, s) \ gone
      <3>1. ASSUME NEW x \in Debts(jobs', s) PROVE x \in Debts(jobs, s) \ gone
        <4>1. PICK q \in Paths : \E c \in Stakes(jobs', q, s) : x = <<q, c>> BY <2>3
        <4>2. q # p /\ \E c \in Stakes(jobs, q, s) : x = <<q, c>> BY <1>7, <4>1
        <4> QED BY <2>2, <4>2
      <3>2. ASSUME NEW x \in Debts(jobs, s), x \notin gone PROVE x \in Debts(jobs', s)
        <4>1. PICK q \in Paths : \E c \in Stakes(jobs, q, s) : x = <<q, c>> BY <2>2
        <4>2. q # p BY <3>2, <4>1
        <4> QED BY <1>7, <2>3, <4>1, <4>2
      <3> QED BY <3>1, <3>2
    <2>5. Debts(jobs, s) \cap gone = gone BY <1>1, <2>2
    <2>6. Cardinality(gone) = Cardinality(mine)
      <3> DEFINE f == [c \in mine |-> <<p, c>>]
      <3> HIDE DEF mine
      <3>1. /\ f \in [mine -> gone] /\ \A x, y \in mine : f[x] = f[y] => x = y
            /\ \A t \in gone : \E x \in mine : f[x] = t
        OBVIOUS
      <3> HIDE DEF f, gone
      <3> QED BY <2>1, <3>1, SameSizeByBijection
    <2> HIDE DEF gone, mine
    <2>7. Cardinality(Debts(jobs', s)) = Cardinality(Debts(jobs, s)) - Cardinality(gone)
      <3> DEFINE owed == Debts(jobs, s)
      <3> HIDE DEF owed
      <3>1. Cardinality(owed \ gone) = Cardinality(owed) - Cardinality(owed \cap gone)
        BY <2>1, FS_Difference DEF owed
      <3> QED BY <2>4, <2>5, <3>1 DEF owed
    <2> QED BY <2>1, <2>6, <2>7
  <1>12. ASSUME NEW s \in Inspection!Scans
         PROVE  /\ scans'[s] \in Nat \cup {NoValue}
                /\ scans'[s] # NoValue =>
                      scans'[s] = Cardinality(Debts(jobs', s)) + Uncounted(s)
    <2>1. CASE scans[s] = NoValue BY <1>2, <1>3, <2>1
    <2>2. CASE scans[s] # NoValue
      <3>1. scans[s] \in Nat /\ scans[s] = Cardinality(Debts(jobs, s)) + Uncounted(s)
            /\ Uncounted(s) \in Nat
        BY <2>2 DEF SchedulerInv, CountsSound, Uncounted
      <3>2. /\ Cardinality(Debts(jobs', s)) = Cardinality(Debts(jobs, s)) - got(s)
            /\ Cardinality(Debts(jobs, s)) \in Nat /\ got(s) \in Nat
        BY <1>11, <2>2
      <3>3. CASE got(s) = 0 BY <1>2, <3>1, <3>2, <3>3
      <3>4. CASE got(s) # 0 /\ scans[s] <= got(s) BY <1>2, <3>4
      <3>5. CASE got(s) # 0 /\ ~(scans[s] <= got(s))
        <4>1. scans'[s] = scans[s] - got(s) BY <1>2, <3>5
        <4>2. scans[s] - got(s) \in Nat BY <3>1, <3>2, <3>5
        <4> QED BY <3>1, <3>2, <4>1, <4>2
      <3> QED BY <3>3, <3>4, <3>5
    <2> QED BY <2>1, <2>2
  <1>13. CountsSound'
    <2>1. \A s \in Inspection!Scans : Debts(jobs, s)' = Debts(jobs', s)
             /\ Uncounted(s)' = Uncounted(s)
      BY <1>2 DEF Debts, Stakes, Uncounted
    <2>2. scans' = [s \in Inspection!Scans |-> scans'[s]] BY <1>2
    <2>3. scans' \in [Inspection!Scans -> Nat \cup {NoValue}] BY <1>12, <2>2
    <2> QED BY <1>2, <1>12, <2>1, <2>3 DEF SchedulerInv, CountsSound
  <1> QED BY <1>6, <1>8, <1>9, <1>10, <1>13 DEF SchedulerInv

-----------------------------------------------------------------------------
(* The board's steps. *)

\* A step of the board that schedules nothing: at most it asks for cancels.
LEMMA BoardKeeps ==
    ASSUME SchedulerInv, BoardSound', UNCHANGED Inspection!nativeVars,
           \A c \in calls' \ calls : c \in [cancel : Inspection!Scans],
           gen' >= gen, gen' = gen /\ refresh' # NoValue => refresh # NoValue
    PROVE  SchedulerInv'
  <1>1. gen \in Int /\ gen' \in Int BY DEF SchedulerInv, BoardSound
  <1>2. Schedules' \subseteq Schedules
    <2>1. \A c \in [cancel : Inspection!Scans] : "order" \notin DOMAIN c OBVIOUS
    <2> QED BY <2>1 DEF Schedules
  <1>3. ASSUME NEW c \in Schedules
        PROVE  Sound(c) /\ c.scan \in Int /\ c.scan <= gen /\ (c.scan = gen => refresh = NoValue)
    BY DEF SchedulerInv, CallsSound, Sound, Inspection!Scans
  <1>4. CallsSound'
    <2>1. ASSUME NEW c \in Schedules
          PROVE  Sound(c)' /\ c.scan <= gen' /\ (c.scan = gen' => refresh' = NoValue)
      BY <1>1, <1>3 DEF Sound
    <2> QED BY <1>2, <2>1 DEF SchedulerInv, CallsSound
  <1>5. ASSUME NEW s \in Inspection!Scans, Unscheduled(s)' PROVE Unscheduled(s)
    <2>1. CASE s > gen' BY <1>1, <2>1 DEF Unscheduled, Inspection!Scans
    <2>2. CASE s = gen' /\ refresh' # NoValue BY <1>1, <2>2 DEF Unscheduled
    <2>3. CASE \E c \in Schedules' : c.scan = s BY <1>2, <2>3 DEF Unscheduled
    <2> QED BY <1>5, <2>1, <2>2, <2>3 DEF Unscheduled
  <1>6. \A s \in Inspection!Scans : Unscheduled(s)' => NoTrace(s)'
    BY <1>5 DEF SchedulerInv, NoTrace, Stakes, Inspection!nativeVars
  <1>7. Tidy(queue, jobs)' /\ WorkersSound' /\ CountsSound'
    BY DEF SchedulerInv, Tidy, JobTable, HeldIn, Waiting, WorkersSound, CountsSound, Debts, Stakes,
      Uncounted, Inspection!nativeVars
  <1> QED BY <1>4, <1>6, <1>7 DEF SchedulerInv

\* A refresh takes a new generation, and wants none but its repositories.
LEMMA RefreshStarts ==
    ASSUME Inspection!InspectionConstants, SchedulerInv, NEW repos, NEW base, NEW link,
           Inspection!StartRefresh(repos, base, link)
    PROVE  /\ gen' = gen + 1 /\ gen' \in Inspection!Scans /\ gen' \in 0..MaxScans /\ gen' > gen
           /\ active' = NoValue
           /\ refresh' # NoValue => refresh'.repos \subseteq repos
           /\ \A c \in calls' \ calls : c \in [cancel : Inspection!Scans]
  <1>1. gen \in Int /\ gen >= 0 /\ gen < MaxScans /\ gen \in 0..MaxScans
        /\ gen' = gen + 1 /\ active' = NoValue /\ MaxScans \in Int
    BY DEF Inspection!InspectionConstants, Inspection!StartRefresh, SchedulerInv, BoardSound
  <1>2. gen' \in Inspection!Scans /\ gen' \in 0..MaxScans /\ gen' > gen BY <1>1 DEF Inspection!Scans
  <1>3. CASE active = NoValue
    <2>1. Inspection!Hydrate(repos, base, link) /\ calls' = calls
      BY <1>3 DEF Inspection!StartRefresh
    <2>2. refresh' # NoValue => refresh'.repos \subseteq repos BY <2>1 DEF Inspection!Hydrate
    <2> QED BY <1>1, <1>2, <2>1, <2>2
  <1>4. CASE active # NoValue
    <2>1. /\ calls' = calls \cup {[cancel |-> active.scan]} /\ active.scan \in Inspection!Scans
          /\ refresh' = [step |-> "cancel", repos |-> repos, of |-> active.scan]
      BY <1>4 DEF Inspection!StartRefresh, SchedulerInv, BoardSound
    <2> QED BY <1>1, <1>2, <2>1
  <1> QED BY <1>3, <1>4

LEMMA InspectAllKeeps ==
    ASSUME Inspection!InspectionConstants, SchedulerInv, NEW link, link = path',
           path' \in [Repos -> Paths \cup {NoValue}], priority' = priority,
           UNCHANGED Inspection!nativeVars, Inspection!InspectAll(link)
    PROVE  SchedulerInv'
  <1> DEFINE links == {r \in Repos : link[r] # NoValue}
             base == [r \in Repos |-> IF r \in links THEN shown[r] ELSE NoValue]
  <1>1. Inspection!StartRefresh(links, base, link) /\ seen' = priority BY DEF Inspection!InspectAll
  <1>2. links \subseteq Repos /\ \A r \in links : link[r] \in Paths OBVIOUS
  <1> HIDE DEF links, base
  <1>3. /\ gen' \in Inspection!Scans /\ gen' \in 0..MaxScans /\ gen' > gen /\ active' = NoValue
        /\ refresh' # NoValue => refresh'.repos \subseteq links
        /\ \A c \in calls' \ calls : c \in [cancel : Inspection!Scans]
    BY <1>1, RefreshStarts
  <1>4. BoardSound' BY <1>1, <1>2, <1>3 DEF SchedulerInv, BoardSound, Inspection!Scans
  <1>5. gen' >= gen /\ gen' # gen BY <1>3 DEF SchedulerInv, BoardSound, Inspection!Scans
  <1> QED BY <1>3, <1>4, <1>5, BoardKeeps

LEMMA ScheduleScanKeeps ==
    ASSUME Inspection!InspectionConstants, SchedulerInv, Inspection!ScheduleScan PROVE SchedulerInv'
  <1> DEFINE first == refresh.repos \cap seen
             rest == refresh.repos \ seen
             new == [scan |-> gen, link |-> path, order |-> SetToSeq(first) \o SetToSeq(rest)]
  <1>1. /\ refresh # NoValue /\ refresh' = NoValue /\ gen \in Inspection!Scans
        /\ active' = [scan |-> gen, at |-> now, left |-> refresh.repos]
        /\ calls' = calls \cup {new}
        /\ UNCHANGED <<path, priority, seen, gen, Inspection!nativeVars>>
        /\ refresh.repos \subseteq Repos /\ \A r \in refresh.repos : path[r] \in Paths
    BY SameOrder DEF Inspection!ScheduleScan, SchedulerInv, BoardSound
  <1>2. Sound(new)
    <2>1. /\ first \in SUBSET Repos /\ rest \in SUBSET Repos /\ first \cap rest = {}
          /\ IsFiniteSet(Repos) /\ first \cup rest = refresh.repos
      BY <1>1, SameFinite DEF Inspection!InspectionConstants
    <2> HIDE DEF first, rest
    <2>2. /\ new.order \in Seq(Repos) /\ IsInjective(new.order)
          /\ \A i \in 1..Len(new.order) : new.order[i] \in refresh.repos
      BY <2>1, TwoSetsInOrder
    <2>3. new.scan = gen /\ new.link = path OBVIOUS
    <2> HIDE DEF new
    <2> QED BY <1>1, <2>2, <2>3 DEF Sound
  <1>3. new.scan = gen /\ "order" \in DOMAIN new /\ "cancel" \notin DOMAIN new OBVIOUS
  <1>4. active'.scan = gen /\ "scan" \in DOMAIN active' BY <1>1
  <1> HIDE DEF new
  <1>5. BoardSound' BY <1>1, <1>4 DEF SchedulerInv, BoardSound
  <1>6. Schedules' = Schedules \cup {new} BY <1>1, <1>3 DEF Schedules
  <1>7. \A c \in Schedules : c.scan # gen BY <1>1 DEF SchedulerInv, CallsSound
  <1>8. CallsSound'
    <2>1. gen \in Int BY <1>1 DEF Inspection!Scans
    <2>2. \A c \in Schedules' : Sound(c)' /\ c.scan <= gen' /\ (c.scan = gen' => refresh' = NoValue)
      BY <1>1, <1>2, <1>3, <1>6, <2>1 DEF SchedulerInv, CallsSound, Sound
    <2>3. \A c, e \in Schedules' : c.scan = e.scan => c = e
      BY <1>3, <1>6, <1>7 DEF SchedulerInv, CallsSound
    <2>4. \A c \in calls' : c \in [cancel : Inspection!Scans]
             \/ ("order" \in DOMAIN c /\ "cancel" \notin DOMAIN c)
      BY <1>1, <1>3 DEF SchedulerInv, CallsSound
    <2> QED BY <2>2, <2>3, <2>4 DEF CallsSound
  <1>9. ASSUME NEW s \in Inspection!Scans, Unscheduled(s)' PROVE Unscheduled(s)
    BY <1>1, <1>3, <1>6, <1>9 DEF Unscheduled
  <1>10. \A s \in Inspection!Scans : Unscheduled(s)' => NoTrace(s)'
    BY <1>1, <1>9 DEF SchedulerInv, NoTrace, Stakes, Inspection!nativeVars
  <1>11. Tidy(queue, jobs)' /\ WorkersSound' /\ CountsSound'
    BY <1>1 DEF SchedulerInv, Tidy, JobTable, HeldIn, Waiting, WorkersSound, CountsSound, Debts,
      Stakes, Uncounted, Inspection!nativeVars
  <1> QED BY <1>5, <1>8, <1>10, <1>11 DEF SchedulerInv

LEMMA NextKeeps ==
    ASSUME Inspection!InspectionConstants, SchedulerInv, [Inspection!Next]_(Inspection!vars)
    PROVE  SchedulerInv'
  <1>1. gen \in Int /\ gen >= gen BY DEF SchedulerInv, BoardSound
  <1>2. CASE UNCHANGED <<path, priority, seen, gen, active, refresh, calls, Inspection!nativeVars>>
    <2>1. BoardSound' BY <1>2 DEF SchedulerInv, BoardSound
    <2> QED BY <1>1, <1>2, <2>1, BoardKeeps
  <1>3. CASE Inspection!CancelAnswered
    <2>1. /\ refresh # NoValue /\ Inspection!Hydrate(refresh.repos, shown, path)
          /\ UNCHANGED <<path, priority, seen, gen, active, calls, Inspection!nativeVars>>
      BY <1>3 DEF Inspection!CancelAnswered
    <2>2. refresh' # NoValue => refresh'.repos \subseteq refresh.repos
      BY <2>1 DEF Inspection!Hydrate
    <2>3. BoardSound' BY <2>1, <2>2 DEF SchedulerInv, BoardSound
    <2> QED BY <1>1, <2>1, <2>3, BoardKeeps
  <1>4. ASSUME NEW e \in events, Inspection!ReceiveRecord(e) PROVE SchedulerInv'
    <2>1. UNCHANGED <<path, priority, seen, gen, refresh, calls, Inspection!nativeVars>>
      BY <1>4 DEF Inspection!ReceiveRecord
    <2>2. active' # NoValue => "scan" \in DOMAIN active' /\ active'.scan \in Inspection!Scans
      BY <1>4 DEF Inspection!ReceiveRecord, SchedulerInv, BoardSound
    <2>3. BoardSound' BY <2>1, <2>2 DEF SchedulerInv, BoardSound
    <2> QED BY <1>1, <2>1, <2>3, BoardKeeps
  <1>5. CASE Inspection!OpenBoard
    <2>1. Inspection!InspectAll(path) /\ UNCHANGED <<path, priority, Inspection!nativeVars>>
      BY <1>5 DEF Inspection!OpenBoard
    <2> QED BY <2>1, InspectAllKeeps DEF SchedulerInv, BoardSound
  <1>6. ASSUME NEW r \in Repos, NEW p \in Paths \cup {NoValue}, Inspection!EditLink(r, p)
        PROVE  SchedulerInv'
    <2>1. /\ Inspection!InspectAll(path') /\ UNCHANGED <<priority, Inspection!nativeVars>>
          /\ path' \in [Repos -> Paths \cup {NoValue}]
      BY <1>6 DEF Inspection!EditLink, SchedulerInv, BoardSound
    <2> QED BY <2>1, InspectAllKeeps
  <1>7. CASE Inspection!CloseBoard
    <2>1. /\ gen < MaxScans /\ gen' = gen + 1 /\ active' = NoValue /\ refresh' = NoValue
          /\ calls' = IF active = NoValue THEN calls ELSE calls \cup {[cancel |-> active.scan]}
          /\ UNCHANGED <<path, priority, seen, Inspection!nativeVars>>
      BY <1>7 DEF Inspection!CloseBoard
    <2>2. gen' \in 0..MaxScans /\ gen' >= gen /\ \A c \in calls' \ calls :
                 c \in [cancel : Inspection!Scans]
      BY <2>1 DEF Inspection!InspectionConstants, SchedulerInv, BoardSound
    <2>3. BoardSound' BY <2>1, <2>2 DEF SchedulerInv, BoardSound
    <2> QED BY <2>1, <2>2, <2>3, BoardKeeps
  <1>8. ASSUME NEW S \in Projects, Inspection!SelectProject(S), S # {}, S # seen PROVE SchedulerInv'
    <2>1. /\ Inspection!StartRefresh(S \cap Inspection!Linked, shown, path) /\ priority' = S
             /\ seen' = S
          /\ S \subseteq Repos /\ UNCHANGED <<path, Inspection!nativeVars>>
      BY <1>8 DEF Inspection!SelectProject, Inspection!InspectionConstants
    <2>2. \A r \in S \cap Inspection!Linked : r \in Repos /\ path[r] \in Paths
      BY DEF Inspection!Linked, SchedulerInv, BoardSound
    <2>3. /\ gen' \in Inspection!Scans /\ gen' \in 0..MaxScans /\ gen' > gen /\ active' = NoValue
          /\ refresh' # NoValue => refresh'.repos \subseteq S \cap Inspection!Linked
          /\ \A c \in calls' \ calls : c \in [cancel : Inspection!Scans]
      BY <2>1, RefreshStarts
    <2>4. BoardSound' BY <2>1, <2>2, <2>3 DEF SchedulerInv, BoardSound
    <2>5. gen' >= gen /\ gen' # gen BY <1>1, <2>3 DEF Inspection!Scans
    <2> QED BY <2>1, <2>3, <2>4, <2>5, BoardKeeps
  <1>9. ASSUME NEW S \in Projects, Inspection!SelectProject(S), S = {} \/ S = seen
        PROVE  SchedulerInv'
    <2>1. /\ UNCHANGED <<path, seen, gen, active, refresh, calls, Inspection!nativeVars>>
          /\ priority' = S /\ S \subseteq Repos
      BY <1>9 DEF Inspection!SelectProject, Inspection!InspectionConstants
    <2>2. BoardSound' BY <2>1 DEF SchedulerInv, BoardSound
    <2> QED BY <1>1, <2>1, <2>2, BoardKeeps
  <1>10. CASE Inspection!ScheduleScan BY <1>10, ScheduleScanKeeps
  <1>11. CASE Inspection!CompleteImmediate BY <1>11, ImmediateKeeps
  <1>12. ASSUME NEW c \in calls, Inspection!ExecuteSchedule(c) \/ Inspection!ExecuteCancel(c)
         PROVE  SchedulerInv'
    BY <1>12, ScheduleKeeps, CancelKeeps
  <1>13. ASSUME NEW w \in Workers, Inspection!TakeJob(w) \/ Inspection!FinishJob(w)
         PROVE  SchedulerInv'
    BY <1>13, TakeKeeps, FinishKeeps
  <1>14. ASSUME NEW p \in Paths, Inspection!CompleteInspection(p) PROVE SchedulerInv'
    BY <1>14, InspectionKeeps
  <1>15. ASSUME NEW r \in Repos, Inspection!StartSingle(r) \/ Inspection!FinishSingle(r)
         PROVE  SchedulerInv'
    <2>1. UNCHANGED <<path, priority, seen, gen, active, refresh, calls, Inspection!nativeVars>>
      BY <1>15 DEF Inspection!StartSingle, Inspection!FinishSingle
    <2> QED BY <1>2, <2>1
  <1>16. CASE Inspection!Tick \/ UNCHANGED Inspection!vars
    <2>1. UNCHANGED <<path, priority, seen, gen, active, refresh, calls, Inspection!nativeVars>>
      BY <1>16 DEF Inspection!Tick, Inspection!vars, Inspection!boardVars
    <2> QED BY <1>2, <2>1
  <1> QED BY <1>3, <1>4, <1>5, <1>6, <1>7, <1>8, <1>9, <1>10, <1>11, <1>12, <1>13, <1>14, <1>15,
             <1>16 DEF Inspection!Next, Inspection!Progress

\* In every reachable state a path is queued once while its job waits, the queue keeps to
\* its capacity, and the count of a registered scan is what is still owed to it, whatever
\* is scheduled, cancelled and rejected while workers take and finish jobs
\* (repository_inspection_scheduler.rs).
THEOREM SchedulerStaysExact ==
    ASSUME Inspection!InspectionConstants PROVE Inspection!Spec => []SchedulerIsExact
  <1>1. Inspection!Init => SchedulerInv BY InitHolds
  <1>2. SchedulerInv /\ [Inspection!Next]_(Inspection!vars) => SchedulerInv' BY NextKeeps
  <1>3. SchedulerInv => SchedulerIsExact BY InvIsExact
  <1> QED BY <1>1, <1>2, <1>3, PTL DEF Inspection!Spec

-----------------------------------------------------------------------------
(* Sending and receiving: what is known of every workflow.                  *)

\* What is imported or written is a version.
Carries ==
    \A i \in SyncPanels : \A s \in Slots :
        flow[i][s].step \in {"encrypt", "write", "import"} => flow[i][s].content \in Sync!Versions
\* A panel that was not opened yet does nothing.
Unopened == \A i \in SyncPanels : i > mounted => \A s \in Slots : flow[i][s] = Sync!NoFlow
\* An inspection is of the file in the settings, as the last one was.
LookOk(p) ==
    /\ p.look.by # None =>
          /\ p.look.file = p.file
          /\ p.look.seen # None => (p.look.seen.ready <=> p.file = "git")
    /\ p.look.by = None /\ p.info # None /\ p.info.ready => p.file = "git"
\* The receive that asked for an inspection waits for it.
Awaits(fl) == fl.kind = "receive" /\ fl.step = "look" /\ fl.action = "fetch"
Looks ==
    \A i \in SyncPanels :
        /\ LookOk(panel[i])
        /\ panel[i].look.by \in Slots => Awaits(flow[i][panel[i].look.by])

\* The version of a send is in the file until it is committed, or another save took it.
SendOk(fl, p) ==
    fl.kind = "send" /\ ~fl.astray =>
        /\ fl.step = "write" => fl.file = p.file
        /\ fl.step \in {"credential", "git", "answered"} =>
              /\ fl.action = "push"
              /\ fl.content \in ToSet(head) \cup {file["git"]} \cup lost
        /\ fl.step = "answered" /\ fl.ok => fl.content \in ToSet(remote) \cup lost
\* The tip a receive fetched is known to the clone, and is in it when the receive loads.
Fetched(fl) ==
    fl.step \in {"look", "load", "import"} \/ fl.action = "pull"
        \/ (fl.step = "answered" /\ fl.ok) => fl.tip \in ToSet(tracked)
Contained(fl) == upstream => fl.tip \in ToSet(head)
ReceiveOk(s, fl, p) ==
    fl.kind = "receive" /\ ~fl.astray /\ fl.action \in {"fetch", "pull"} =>
        /\ p.file = "git"
        /\ Fetched(fl)
        /\ fl.step = "answered" /\ fl.action = "pull" /\ fl.ok => Contained(fl)
        /\ fl.step = "look" /\ p.look.by = s /\ p.look.seen # None =>
              p.look.seen.behind \/ Contained(fl)
        /\ fl.step \in {"load", "import"} => Contained(fl)
FlowsOk ==
    \A i \in SyncPanels : \A s \in Slots :
        SendOk(flow[i][s], panel[i]) /\ ReceiveOk(s, flow[i][s], panel[i])

SyncInv ==
    /\ Sync!TypeOK /\ Carries /\ Unopened /\ Looks /\ FlowsOk
    /\ ToSet(tracked) \subseteq ToSet(remote)

\* What every step does to the versions: nothing that is known is forgotten, and what the
\* file had is committed, still there, or counted as lost.
Moves ==
    /\ ToSet(head) \subseteq ToSet(head') /\ ToSet(remote) \subseteq ToSet(remote')
    /\ ToSet(tracked) \subseteq ToSet(tracked') /\ ToSet(tracked') \subseteq ToSet(remote')
    /\ lost \subseteq lost'
    /\ file["git"] \in ToSet(head') \cup {file'["git"]} \cup lost'
    /\ upstream' => upstream \/ ToSet(remote) \subseteq ToSet(head')

-----------------------------------------------------------------------------
(* The versions of a history.                                               *)

LEMMA LastIsThere ==
    ASSUME NEW V, NEW h \in Seq(V), h # <<>>
    PROVE  Sync!Last(h) \in V /\ Sync!Last(h) \in ToSet(h)
  <1>1. Len(h) \in 1..Len(h) OBVIOUS
  <1> QED BY <1>1 DEF Sync!Last, ToSet

LEMMA PrefixIsThere ==
    ASSUME NEW V, NEW h \in Seq(V), NEW g \in Seq(V), Sync!IsPrefix(h, g)
    PROVE  ToSet(h) \subseteq ToSet(g)
  <1> SUFFICES ASSUME NEW k \in 1..Len(h) PROVE h[k] \in ToSet(g) BY DEF ToSet
  <1>1. Len(h) <= Len(g) /\ SubSeq(h, 1, Len(h)) = SubSeq(g, 1, Len(h)) BY DEF Sync!IsPrefix
  <1>2. SubSeq(h, 1, Len(h))[k] = h[k] /\ SubSeq(g, 1, Len(h))[k] = g[k] /\ k \in 1..Len(g) BY <1>1
  <1> QED BY <1>1, <1>2 DEF ToSet

LEMMA AppendIsThere ==
    ASSUME NEW V, NEW h \in Seq(V), NEW v \in V
    PROVE  /\ ToSet(Append(h, v)) = ToSet(h) \cup {v}
           /\ Append(h, v) \in Seq(V) /\ Append(h, v) # <<>>
  <1>1. /\ Append(h, v) \in Seq(V) /\ Len(Append(h, v)) = Len(h) + 1
        /\ Append(h, v)[Len(h) + 1] = v
        /\ \A k \in 1..Len(h) : Append(h, v)[k] = h[k]
    OBVIOUS
  <1>2. DOMAIN Append(h, v) = 1..(Len(h) + 1) /\ DOMAIN h = 1..Len(h) /\ Len(h) \in Nat OBVIOUS
  <1>3. Append(h, v) # <<>> BY <1>1
  <1> HIDE <1>1
  <1>4. \A k \in 1..(Len(h) + 1) : k \in 1..Len(h) \/ k = Len(h) + 1 BY <1>2
  <1>5. \A k \in 1..Len(h) : k \in 1..(Len(h) + 1) BY <1>2
  <1>6. Len(h) + 1 \in 1..(Len(h) + 1) BY <1>2
  <1> QED BY <1>1, <1>2, <1>3, <1>4, <1>5, <1>6 DEF ToSet

-----------------------------------------------------------------------------
(* A step of a workflow.                                                    *)

\* Nothing but None and the display is not a workflow.
LEMMA WhoLooks ==
    ASSUME Sync!SyncConstants
    PROVE  None \notin Slots /\ Sync!Display \notin Slots /\ None # Sync!Display
  <1>1. None \notin Nat /\ Slots \subseteq Nat \ {0} BY DEF Sync!SyncConstants
  <1>2. 0 \notin Slots BY <1>1
  <1>3. None # 0 BY <1>1
  <1>4. None \notin Slots BY <1>1
  <1> QED BY <1>2, <1>3, <1>4 DEF Sync!Display

LEMMA PanelRecords ==
    ASSUME NEW p \in Sync!PanelStates
    PROVE  /\ Sync!Busy(p) \in Sync!PanelStates /\ Sync!Free(p) \in Sync!PanelStates /\ Sync!Glances(p) \in Sync!PanelStates
           /\ Sync!Busy(p).file = p.file /\ Sync!Busy(p).look = p.look /\ Sync!Busy(p).info = p.info
           /\ Sync!Free(p).file = p.file /\ Sync!Free(p).look = p.look /\ Sync!Free(p).info = p.info
           /\ Sync!Glances(p).file = p.file /\ Sync!Glances(p).info = p.info
           /\ Sync!Glances(p).look = Sync!Glance(p.file)
           /\ Sync!Glance(p.file).by = Sync!Display /\ Sync!Glance(p.file).file = p.file
           /\ Sync!Glance(p.file).seen = None
  <1>1. Sync!Glance(p.file).by = Sync!Display /\ Sync!Glance(p.file).file = p.file /\ Sync!Glance(p.file).seen = None
    BY DEF Sync!Glance, Sync!NoLook
  <1>2. Sync!Glance(p.file) \in [by : Slots \cup {Sync!Display, None}, file : Sync!Files, seen : Sync!Info \cup {None}]
    <2>1. Sync!NoLook \in [by : Slots \cup {Sync!Display, None}, file : Sync!Files, seen : Sync!Info \cup {None}]
      BY DEF Sync!NoLook, Sync!Files
    <2>2. p.file \in Sync!Files BY DEF Sync!PanelStates
    <2> QED BY <2>1, <2>2 DEF Sync!Glance
  <1> HIDE DEF Sync!Glance
  <1> QED BY <1>1, <1>2 DEF Sync!PanelStates, Sync!Busy, Sync!Free, Sync!Glances

LEMMA WorkflowRecords ==
    ASSUME Sync!SyncConstants
    PROVE  /\ Sync!NoFlow \in Sync!Workflows /\ Sync!NoFlow.kind = None /\ Sync!NoFlow.step = "idle"
           /\ Sync!NoFlow.astray = FALSE /\ Sync!NoFlow.action = None /\ Sync!NoFlow.ok = FALSE
  BY DEF Sync!SyncConstants, Sync!NoFlow, Sync!Workflows, Sync!Files, Sync!Versions

\* What a workflow relies on stays while the others go on.
LEMMA FlowStays ==
    ASSUME SyncInv, Moves, NEW i \in SyncPanels, NEW s \in Slots,
           flow'[i][s] = flow[i][s], panel'[i].file = panel[i].file,
           panel'[i].look = panel[i].look \/ panel'[i].look.by # s
    PROVE  SendOk(flow[i][s], panel[i])' /\ ReceiveOk(s, flow[i][s], panel[i])'
  <1>1. SendOk(flow[i][s], panel[i]) /\ ReceiveOk(s, flow[i][s], panel[i])
        /\ ToSet(tracked) \subseteq ToSet(remote)
    BY DEF SyncInv, FlowsOk
  <1>2. SendOk(flow[i][s], panel[i])' BY <1>1 DEF SendOk, Moves
  <1>3. Contained(flow[i][s]) /\ flow[i][s].tip \in ToSet(tracked) => Contained(flow[i][s])'
    BY <1>1 DEF Contained, Moves
  <1>4. Fetched(flow[i][s]) => Fetched(flow[i][s])' BY DEF Fetched, Moves
  <1>5. ReceiveOk(s, flow[i][s], panel[i])' BY <1>1, <1>3, <1>4 DEF ReceiveOk, Fetched, Moves
  <1> QED BY <1>2, <1>5

\* A step of one workflow, which may begin or give up an inspection.
LEMMA StepAt ==
    ASSUME Sync!SyncConstants, SyncInv, Moves, Sync!TypeOK', NEW i \in SyncPanels, NEW s \in Slots,
           mounted' = mounted, i <= mounted,
           \A j \in SyncPanels : j # i => panel'[j] = panel[j] /\ flow'[j] = flow[j],
           \A t \in Slots : t # s => flow'[i][t] = flow[i][t],
           panel'[i].file = panel[i].file,
           panel'[i].look = panel[i].look \/ panel'[i].look.by \in {s, Sync!Display, None},
           LookOk(panel[i])', panel'[i].look.by = s => Awaits(flow[i][s])',
           flow'[i][s].step \in {"encrypt", "write", "import"} => flow'[i][s].content \in Sync!Versions,
           SendOk(flow[i][s], panel[i])', ReceiveOk(s, flow[i][s], panel[i])'
    PROVE  SyncInv'
  <1>1. Carries' BY DEF SyncInv, Carries
  <1>2. Unopened'
    <2> SUFFICES ASSUME NEW j \in SyncPanels, j > mounted, NEW t \in Slots PROVE flow'[j][t] = Sync!NoFlow
      BY DEF Unopened, Sync!NoFlow
    <2>1. j # i
      <3>1. i \in Nat /\ j \in Nat /\ mounted \in Nat
        BY DEF Sync!SyncConstants, SyncInv, Sync!TypeOK
      <3> QED BY <3>1
    <2> QED BY <2>1 DEF SyncInv, Unopened
  <1>3. Looks'
    <2> SUFFICES ASSUME NEW j \in SyncPanels
                 PROVE  LookOk(panel[j])' /\ (panel'[j].look.by \in Slots =>
                                                Awaits(flow[j][panel[j].look.by])')
      BY DEF Looks
    <2>1. LookOk(panel[j]) /\ (panel[j].look.by \in Slots => Awaits(flow[j][panel[j].look.by]))
      BY DEF SyncInv, Looks
    <2>2. CASE j # i BY <2>1, <2>2 DEF LookOk, Awaits
    <2>3. CASE j = i
      <3>1. CASE panel'[i].look.by = s BY <2>3, <3>1 DEF Awaits
      <3>2. CASE panel'[i].look.by # s
        <4>1. panel'[i].look.by \in Slots => panel'[i].look = panel[i].look BY <3>2, WhoLooks
        <4>2. panel'[i].look.by \in Slots => flow'[i][panel'[i].look.by] = flow[i][panel[i].look.by]
          BY <3>2, <4>1
        <4> QED BY <2>1, <2>3, <4>1, <4>2 DEF Awaits
      <3> QED BY <3>1, <3>2
    <2> QED BY <2>2, <2>3
  <1>4. FlowsOk'
    <2> SUFFICES ASSUME NEW j \in SyncPanels, NEW t \in Slots
                 PROVE  SendOk(flow[j][t], panel[j])' /\ ReceiveOk(t, flow[j][t], panel[j])'
      BY DEF FlowsOk
    <2>1. CASE j = i /\ t = s BY <2>1
    <2>2. CASE j # i \/ t # s
      <3>1. /\ flow'[j][t] = flow[j][t] /\ panel'[j].file = panel[j].file
            /\ panel'[j].look = panel[j].look \/ panel'[j].look.by # t
        BY <2>2, WhoLooks
      <3> QED BY <3>1, FlowStays
    <2> QED BY <2>1, <2>2
  <1> QED BY <1>1, <1>2, <1>3, <1>4 DEF SyncInv, Moves
LEMMA Opened ==
    ASSUME Sync!SyncConstants, SyncInv, NEW i \in SyncPanels, NEW s \in Slots, flow[i][s].step # "idle"
    PROVE  i <= mounted
  <1>1. i \in Nat /\ mounted \in Nat BY DEF Sync!SyncConstants, SyncInv, Sync!TypeOK
  <1>2. ~(i > mounted) BY WorkflowRecords DEF SyncInv, Unopened
  <1> QED BY <1>1, <1>2

LEMMA Known ==
    ASSUME SyncInv, NEW i \in SyncPanels
    PROVE  /\ panel[i] \in Sync!PanelStates /\ LookOk(panel[i])
           /\ panel[i].look.by \in Slots => Awaits(flow[i][panel[i].look.by])
           /\ \A s \in Slots : /\ flow[i][s] \in Sync!Workflows
                               /\ SendOk(flow[i][s], panel[i]) /\ ReceiveOk(s, flow[i][s], panel[i])
  BY DEF SyncInv, Sync!TypeOK, Looks, FlowsOk

LEMMA IdleOk ==
    ASSUME Sync!SyncConstants, NEW p, NEW s
    PROVE  SendOk(Sync!NoFlow, p) /\ ReceiveOk(s, Sync!NoFlow, p)
  <1>1. Sync!NoFlow.step = "idle" /\ Sync!NoFlow.action = None /\ None \notin {"fetch", "pull"}
    BY WorkflowRecords DEF Sync!SyncConstants
  <1> QED BY <1>1 DEF SendOk, ReceiveOk

\* Becoming what the invariant allows, while the versions stay where they are.
LEMMA BecomeStep ==
    ASSUME Sync!SyncConstants, SyncInv, NEW i \in SyncPanels, NEW s \in Slots,
           NEW p \in Sync!PanelStates, NEW fl \in Sync!Workflows, Sync!Become(i, s, p, fl),
           UNCHANGED <<file, Sync!gitVars, stored, mounted, lost, made>>, local' \in Sync!Versions,
           inputs' \in 0..MaxInputs, errors' \in 0..MaxFaults,
           flow[i][s].step # "idle" \/ i = mounted,
           p.file = panel[i].file, p.look = panel[i].look \/ p.look.by \in {s, Sync!Display, None},
           LookOk(p), p.look.by = s => Awaits(fl),
           fl.step \in {"encrypt", "write", "import"} => fl.content \in Sync!Versions,
           SendOk(fl, p), ReceiveOk(s, fl, p)
    PROVE  SyncInv'
  <1>1. /\ panel' \in [SyncPanels -> Sync!PanelStates] /\ flow' \in [SyncPanels -> [Slots -> Sync!Workflows]]
        /\ panel'[i] = p /\ flow'[i][s] = fl
        /\ \A j \in SyncPanels : j # i => panel'[j] = panel[j] /\ flow'[j] = flow[j]
        /\ \A t \in Slots : t # s => flow'[i][t] = flow[i][t]
    BY DEF SyncInv, Sync!TypeOK, Sync!Become
  <1>2. Sync!TypeOK' BY <1>1 DEF SyncInv, Sync!TypeOK, Sync!gitVars
  <1>3. Moves BY DEF SyncInv, Moves, Sync!gitVars
  <1>4. SendOk(flow[i][s], panel[i])' BY <1>1 DEF SendOk, Sync!gitVars
  <1>5. ReceiveOk(s, flow[i][s], panel[i])' BY <1>1 DEF ReceiveOk, Fetched, Contained, Sync!gitVars
  <1>6. i <= mounted BY Opened DEF Sync!SyncConstants, SyncInv, Sync!TypeOK
  <1>7. LookOk(panel[i])' /\ (panel'[i].look.by = s => Awaits(flow[i][s])')
    BY <1>1 DEF LookOk, Awaits
  <1> HIDE DEF Moves
  <1> QED BY <1>1, <1>2, <1>3, <1>4, <1>5, <1>6, <1>7, StepAt

\* The same, when nothing changes that an inspection knows.
LEMMA SameLook ==
    ASSUME Sync!SyncConstants, SyncInv, NEW i \in SyncPanels, NEW s \in Slots, ~Awaits(flow[i][s]),
           NEW p, p.file = panel[i].file, p.look = panel[i].look, p.info = panel[i].info
    PROVE  LookOk(p) /\ p.look.by # s
  <1>1. LookOk(p) BY Known DEF LookOk
  <1>2. p.look.by # s BY Known
  <1> QED BY <1>1, <1>2

LEMMA NewLook ==
    ASSUME Sync!SyncConstants, SyncInv, NEW i \in SyncPanels, NEW p, p.file = panel[i].file,
           p.look.by # None, p.look.file = p.file, p.look.seen = None
    PROVE  LookOk(p)
  BY DEF LookOk

\* An awaited call that failed, or a workflow at its end.
LEMMA EndsStep ==
    ASSUME Sync!SyncConstants, SyncInv, NEW i \in SyncPanels, NEW s \in Slots, ~Awaits(flow[i][s]),
           flow[i][s].step # "idle", NEW p \in Sync!PanelStates, Sync!Become(i, s, p, Sync!NoFlow),
           UNCHANGED <<file, Sync!gitVars, stored, mounted, lost, made, inputs>>, local' \in Sync!Versions,
           errors' \in 0..MaxFaults, p.file = panel[i].file,
           \/ p.look = panel[i].look /\ p.info = panel[i].info
           \/ p.look.by = Sync!Display /\ p.look.file = p.file /\ p.look.seen = None
    PROVE  SyncInv'
  <1>1. LookOk(p) /\ p.look.by # s BY SameLook, NewLook, WhoLooks
  <1>2. Sync!NoFlow \in Sync!Workflows /\ Sync!NoFlow.step = "idle" /\ inputs' \in 0..MaxInputs
    BY WorkflowRecords DEF SyncInv, Sync!TypeOK
  <1> HIDE DEF Sync!NoFlow, Sync!Become
  <1> QED BY <1>1, <1>2, IdleOk, BecomeStep
-----------------------------------------------------------------------------
(* The steps of a workflow that leave the versions where they are.          *)

LEMMA StepsCounted ==
    ASSUME Sync!SyncConstants, Sync!TypeOK
    PROVE  /\ Sync!Fault => errors' \in 0..MaxFaults
           /\ errors' = errors => errors' \in 0..MaxFaults
           /\ Sync!Input => inputs' \in 0..MaxInputs
           /\ inputs' = inputs => inputs' \in 0..MaxInputs
           /\ local \in Sync!Versions
  BY DEF Sync!SyncConstants, Sync!TypeOK, Sync!Fault, Sync!Input

LEMMA StageRecords ==
    ASSUME NEW fl \in Sync!Workflows, NEW p \in Sync!PanelStates
    PROVE  /\ Sync!Loads(fl, p) \in Sync!Workflows /\ Sync!Loads(fl, p).step = "load"
           /\ Sync!Loads(fl, p).kind = fl.kind /\ Sync!Loads(fl, p).astray = fl.astray
           /\ Sync!Loads(fl, p).action = fl.action /\ Sync!Loads(fl, p).tip = fl.tip
           /\ \A a \in {"fetch", "pull", "push"} :
                 /\ Sync!Gits(fl, a) \in Sync!Workflows /\ Sync!Gits(fl, a).step = "credential"
                 /\ Sync!Gits(fl, a).kind = fl.kind /\ Sync!Gits(fl, a).astray = fl.astray
                 /\ Sync!Gits(fl, a).action = a /\ Sync!Gits(fl, a).tip = fl.tip
                 /\ Sync!Gits(fl, a).content = fl.content /\ Sync!Gits(fl, a).ok = fl.ok
  BY DEF Sync!Loads, Sync!Gits, Sync!Workflows, Sync!PanelStates

LEMMA ReadyIsGit ==
    ASSUME Sync!SyncConstants, SyncInv, NEW i \in SyncPanels, Sync!Ready(panel[i])
    PROVE  panel[i].file = "git"
  BY Known DEF Sync!Ready, Sync!MayTry, LookOk

\* A workflow that begins.
LEMMA Begins ==
    ASSUME Sync!SyncConstants, SyncInv, NEW s \in Slots, NEW kind \in Sync!Kinds, Sync!Input,
           NEW fl \in Sync!Workflows, NEW p \in Sync!PanelStates, Sync!Become(mounted, s, p, fl),
           flow[mounted][s] = Sync!NoFlow, p.file = panel[mounted].file,
           p.look = panel[mounted].look, p.info = panel[mounted].info,
           \/ fl = Sync!NoFlow
           \/ fl.step = "read" /\ fl.action = None
           \/ fl.step = "load" /\ fl.action = None
           \/ fl.step = "credential" /\ fl.kind # "send"
              /\ (fl.kind = "receive" => fl.action = "fetch" /\ Sync!Ready(panel[mounted])),
           UNCHANGED <<local, file, Sync!gitVars, stored, mounted, lost, made, errors>>
    PROVE  SyncInv'
  <1>1. mounted \in SyncPanels /\ ~Awaits(flow[mounted][s])
    BY WorkflowRecords DEF SyncInv, Sync!TypeOK, Awaits
  <1>2. LookOk(p) /\ p.look.by # s BY <1>1, SameLook
  <1>3. SendOk(fl, p) /\ ReceiveOk(s, fl, p) /\ fl.step \notin {"encrypt", "write", "import"}
    <2>1. None \notin {"fetch", "pull"} BY DEF Sync!SyncConstants
    <2>2. CASE fl = Sync!NoFlow BY <2>2, IdleOk, WorkflowRecords
    <2>3. CASE fl.step = "read" /\ fl.action = None BY <2>1, <2>3 DEF SendOk, ReceiveOk
    <2>4. CASE fl.step = "load" /\ fl.action = None BY <2>1, <2>4 DEF SendOk, ReceiveOk
    <2>5. CASE fl.step = "credential" /\ fl.kind # "send"
               /\ (fl.kind = "receive" => fl.action = "fetch" /\ Sync!Ready(panel[mounted]))
      BY <1>1, <2>5, ReadyIsGit DEF SendOk, ReceiveOk, Fetched
    <2> QED BY <2>2, <2>3, <2>4, <2>5
  <1>4. inputs' \in 0..MaxInputs /\ errors' \in 0..MaxFaults
        /\ local' \in Sync!Versions
    BY StepsCounted DEF SyncInv
  <1> HIDE DEF Sync!NoFlow, Sync!Become, Sync!Input
  <1> QED BY <1>1, <1>2, <1>3, <1>4, BecomeStep

LEMMA ConfirmKeeps ==
    ASSUME Sync!SyncConstants, SyncInv, NEW s \in Slots, NEW kind \in Sync!Kinds, Sync!Confirm(s, kind)
    PROVE  SyncInv'
  <1> DEFINE p == panel[mounted]
             fl == [Sync!NoFlow EXCEPT !.kind = kind]
  <1>1. p \in Sync!PanelStates BY Known DEF SyncInv, Sync!TypeOK
  <1>2. /\ fl \in Sync!Workflows /\ fl.kind = kind /\ fl.action = None
        /\ [fl EXCEPT !.step = "read"] \in Sync!Workflows
        /\ [fl EXCEPT !.step = "read"].step = "read" /\ [fl EXCEPT !.step = "read"].action = None
    BY WorkflowRecords DEF Sync!Workflows
  <1>3. /\ Sync!Input /\ flow[mounted][s] = Sync!NoFlow /\ Sync!Enabled(p, kind)
        /\ UNCHANGED <<local, file, Sync!gitVars, stored, mounted, lost, made, errors>>
    BY DEF Sync!Confirm
  <1>4. \/ Sync!Become(mounted, s, Sync!Busy(p), [fl EXCEPT !.step = "read"])
        \/ Sync!Become(mounted, s, Sync!Busy(p), Sync!Loads(fl, p))
        \/ kind = "receive" /\ Sync!Ready(p) /\ Sync!GoesGit(mounted, s, p, fl, "fetch")
        \/ kind \in {"fetch", "pull", "push"} /\ Sync!GoesGit(mounted, s, p, fl, kind)
    BY DEF Sync!Confirm, Sync!Kinds
  <1>5. Sync!NoFlow \in Sync!Workflows BY WorkflowRecords
  <1> HIDE DEF p, fl, Sync!NoFlow, Sync!Input
  <1>6. p = panel[mounted] BY DEF p
  <1>7. CASE Sync!Become(mounted, s, Sync!Busy(p), [fl EXCEPT !.step = "read"])
    BY <1>1, <1>2, <1>3, <1>6, <1>7, PanelRecords, Begins
  <1>8. CASE Sync!Become(mounted, s, Sync!Busy(p), Sync!Loads(fl, p))
    <2>1. /\ Sync!Busy(p) \in Sync!PanelStates /\ Sync!Loads(fl, p) \in Sync!Workflows
          /\ Sync!Loads(fl, p).step = "load" /\ Sync!Loads(fl, p).action = None
          /\ Sync!Busy(p).file = p.file /\ Sync!Busy(p).look = p.look /\ Sync!Busy(p).info = p.info
      BY <1>1, <1>2, StageRecords, PanelRecords
    <2> QED BY <1>3, <1>6, <1>8, <2>1, Begins
  <1>9. ASSUME NEW a \in {"fetch", "pull", "push"}, Sync!GoesGit(mounted, s, p, fl, a),
               kind # "send", kind = "receive" => a = "fetch" /\ Sync!Ready(p)
        PROVE  SyncInv'
    <2>1. /\ Sync!Busy(p) \in Sync!PanelStates /\ Sync!Gits(fl, a) \in Sync!Workflows
          /\ Sync!Gits(fl, a).step = "credential" /\ Sync!Gits(fl, a).action = a /\ Sync!Gits(fl, a).kind = kind
          /\ Sync!Busy(p).file = p.file /\ Sync!Busy(p).look = p.look /\ Sync!Busy(p).info = p.info
      BY <1>1, <1>2, StageRecords, PanelRecords
    <2>2. CASE Sync!Become(mounted, s, Sync!Busy(p), Sync!Gits(fl, a))
      BY <1>3, <1>6, <1>9, <2>1, <2>2, Begins
    <2>3. CASE Sync!Become(mounted, s, p, Sync!NoFlow) BY <1>1, <1>3, <1>5, <1>6, <2>3, Begins
    <2> QED BY <1>9, <2>2, <2>3 DEF Sync!GoesGit
  <1> QED BY <1>4, <1>7, <1>8, <1>9

LEMMA ReadsRegistriesKeeps ==
    ASSUME Sync!SyncConstants, SyncInv, NEW i \in SyncPanels, NEW s \in Slots, Sync!ReadsRegistries(i, s)
    PROVE  SyncInv'
  <1> DEFINE p == panel[i]
             fl == [flow[i][s] EXCEPT !.step = "encrypt", !.content = local]
  <1>1. /\ flow[i][s].step = "read" /\ ~Awaits(flow[i][s]) /\ p \in Sync!PanelStates
        /\ UNCHANGED <<local, file, Sync!gitVars, stored, mounted, lost, made, inputs>>
    BY Known DEF Sync!ReadsRegistries, Awaits
  <1>2. LookOk(p) /\ p.look.by # s BY <1>1, SameLook
  <1>3. CASE flow' = [flow EXCEPT ![i][s].step = "encrypt", ![i][s].content = local]
             /\ UNCHANGED <<panel, errors>>
    <2>1. Sync!Become(i, s, p, fl) BY <1>3 DEF SyncInv, Sync!TypeOK, Sync!Become
    <2>2. /\ flow[i][s] \in Sync!Workflows /\ local \in Sync!Versions
          /\ local' \in Sync!Versions /\ inputs' \in 0..MaxInputs
          /\ errors' \in 0..MaxFaults
      BY <1>1, <1>3, Known, StepsCounted DEF SyncInv
    <2>3. fl \in Sync!Workflows /\ fl.step = "encrypt" /\ fl.content \in Sync!Versions
          /\ fl.action = flow[i][s].action /\ fl.kind = flow[i][s].kind
          /\ fl.astray = flow[i][s].astray
      BY <2>2 DEF Sync!Workflows
    <2>4. SendOk(fl, p) /\ ReceiveOk(s, fl, p)
      <3>1. SendOk(fl, p) BY <2>3 DEF SendOk
      <3>2. ReceiveOk(s, flow[i][s], panel[i]) BY Known
      <3>3. ReceiveOk(s, fl, p) BY <1>1, <2>3, <3>2 DEF ReceiveOk, Fetched
      <3> QED BY <3>1, <3>3
    <2> HIDE DEF fl, Sync!Become
    <2> QED BY <1>1, <1>2, <2>1, <2>2, <2>3, <2>4, BecomeStep
  <1>4. CASE Sync!Fault /\ Sync!Ends(i, s, panel[i])
    <2>1. Sync!Free(p) \in Sync!PanelStates /\ Sync!Free(p).file = p.file /\ Sync!Free(p).look = p.look
          /\ Sync!Free(p).info = p.info
      BY <1>1, PanelRecords
    <2>2. local' \in Sync!Versions /\ errors' \in 0..MaxFaults
      BY <1>1, <1>4, StepsCounted DEF SyncInv
    <2> QED BY <1>1, <1>4, <2>1, <2>2, EndsStep DEF Sync!Ends
  <1> QED BY <1>3, <1>4 DEF Sync!ReadsRegistries
\* A workflow that goes on, while no inspection changes.
LEMMA GoesOn ==
    ASSUME Sync!SyncConstants, SyncInv, NEW i \in SyncPanels, NEW s \in Slots, ~Awaits(flow[i][s]),
           flow[i][s].step # "idle", NEW p \in Sync!PanelStates, NEW fl \in Sync!Workflows,
           Sync!Become(i, s, p, fl), p.file = panel[i].file, p.look = panel[i].look,
           p.info = panel[i].info,
           UNCHANGED <<local, file, Sync!gitVars, stored, mounted, lost, made, inputs, errors>>,
           fl.step \in {"encrypt", "write", "import"} => fl.content \in Sync!Versions,
           SendOk(fl, p), ReceiveOk(s, fl, p)
    PROVE  SyncInv'
  <1>1. LookOk(p) /\ p.look.by # s BY SameLook
  <1>2. /\ local' \in Sync!Versions /\ inputs' \in 0..MaxInputs
        /\ errors' \in 0..MaxFaults
    BY StepsCounted DEF SyncInv
  <1> HIDE DEF Sync!Become
  <1> QED BY <1>1, <1>2, BecomeStep

LEMMA EncryptsKeeps ==
    ASSUME Sync!SyncConstants, SyncInv, NEW i \in SyncPanels, NEW s \in Slots, Sync!Encrypts(i, s)
    PROVE  SyncInv'
  <1> DEFINE p == Sync!Busy(panel[i])
             fl == [flow[i][s] EXCEPT !.step = "write", !.file = panel[i].file]
  <1>1. /\ flow[i][s].step = "encrypt" /\ ~Awaits(flow[i][s]) /\ Sync!Become(i, s, p, fl)
        /\ UNCHANGED <<local, file, Sync!gitVars, stored, mounted, lost, made, inputs, errors>>
    BY DEF Sync!Encrypts, Awaits
  <1>2. flow[i][s] \in Sync!Workflows /\ panel[i] \in Sync!PanelStates /\ ReceiveOk(s, flow[i][s], panel[i])
        /\ flow[i][s].content \in Sync!Versions
    BY <1>1, Known DEF SyncInv, Carries
  <1>3. p \in Sync!PanelStates /\ p.file = panel[i].file /\ p.look = panel[i].look
        /\ p.info = panel[i].info
    BY <1>2, PanelRecords
  <1>4. /\ fl \in Sync!Workflows /\ fl.step = "write" /\ fl.content = flow[i][s].content
        /\ fl.action = flow[i][s].action /\ fl.kind = flow[i][s].kind
        /\ fl.astray = flow[i][s].astray /\ fl.file = panel[i].file /\ fl.tip = flow[i][s].tip
    BY <1>2 DEF Sync!Workflows, Sync!PanelStates
  <1> HIDE DEF p, fl
  <1>5. SendOk(fl, p) BY <1>3, <1>4 DEF SendOk
  <1>6. ReceiveOk(s, fl, p) BY <1>1, <1>2, <1>3, <1>4 DEF ReceiveOk, Fetched
  <1> QED BY <1>1, <1>2, <1>3, <1>4, <1>5, <1>6, GoesOn

LEMMA CredentialKeeps ==
    ASSUME Sync!SyncConstants, SyncInv, NEW i \in SyncPanels, NEW s \in Slots, Sync!Credential(i, s)
    PROVE  SyncInv'
  <1> DEFINE p == panel[i]
             fl == [flow[i][s] EXCEPT !.step = "git", !.file = panel[i].file]
  <1>1. /\ flow[i][s].step = "credential" /\ ~Awaits(flow[i][s])
        /\ UNCHANGED <<local, file, Sync!gitVars, stored, mounted, lost, made, inputs, errors>>
    BY DEF Sync!Credential, Awaits
  <1>2. flow[i][s] \in Sync!Workflows /\ p \in Sync!PanelStates /\ ReceiveOk(s, flow[i][s], p)
        /\ SendOk(flow[i][s], p)
    BY Known
  <1>3. Sync!Become(i, s, p, fl) BY DEF SyncInv, Sync!TypeOK, Sync!Become, Sync!Credential
  <1>4. /\ fl \in Sync!Workflows /\ fl.step = "git" /\ fl.content = flow[i][s].content
        /\ fl.action = flow[i][s].action /\ fl.kind = flow[i][s].kind
        /\ fl.astray = flow[i][s].astray /\ fl.tip = flow[i][s].tip
    BY <1>2 DEF Sync!Workflows, Sync!PanelStates
  <1> HIDE DEF fl
  <1>5. SendOk(fl, p) BY <1>1, <1>2, <1>4 DEF SendOk
  <1>6. ReceiveOk(s, fl, p) BY <1>1, <1>2, <1>4 DEF ReceiveOk, Fetched
  <1> QED BY <1>1, <1>2, <1>3, <1>4, <1>5, <1>6, GoesOn

LEMMA GitAnsweredKeeps ==
    ASSUME Sync!SyncConstants, SyncInv, NEW i \in SyncPanels, NEW s \in Slots, Sync!GitAnswered(i, s)
    PROVE  SyncInv'
  <1> DEFINE fl == flow[i][s]
             q == Sync!Free(panel[i])
             p == IF fl.ok THEN Sync!Glances(q) ELSE q
  <1>1. /\ fl.step = "answered" /\ ~Awaits(fl)
        /\ UNCHANGED <<local, file, Sync!gitVars, stored, mounted, lost, made, inputs, errors>>
    BY DEF Sync!GitAnswered, Awaits
  <1>2. fl \in Sync!Workflows /\ panel[i] \in Sync!PanelStates /\ ReceiveOk(s, fl, panel[i])
    BY Known
  <1>3. /\ q \in Sync!PanelStates /\ q.file = panel[i].file /\ q.look = panel[i].look
        /\ q.info = panel[i].info
    BY <1>2, PanelRecords
  <1>4. /\ Sync!Glances(q) \in Sync!PanelStates /\ Sync!Glances(q).file = panel[i].file
        /\ Sync!Glances(q).look.by = Sync!Display /\ Sync!Glances(q).look.file = panel[i].file
        /\ Sync!Glances(q).look.seen = None
    BY <1>3, PanelRecords
  <1>5. /\ local' \in Sync!Versions /\ inputs' \in 0..MaxInputs
        /\ errors' \in 0..MaxFaults
    BY <1>1, StepsCounted DEF SyncInv
  <1>6. \/ /\ fl.ok /\ fl.kind = "receive" /\ fl.action = "fetch"
           /\ Sync!Become(i, s, [Sync!Glances(q) EXCEPT !.look.by = s], [fl EXCEPT !.step = "look"])
        \/ /\ fl.ok /\ fl.kind = "receive" /\ fl.action = "pull"
           /\ Sync!Become(i, s, Sync!Busy(Sync!Glances(q)), Sync!Loads(fl, Sync!Glances(q)))
        \/ Sync!Become(i, s, p, Sync!NoFlow)
    BY DEF Sync!GitAnswered
  <1> HIDE DEF fl, q
  <1>7. fl = flow[i][s] BY DEF fl
  <1>8. ASSUME fl.ok, fl.kind = "receive", fl.action = "fetch",
               Sync!Become(i, s, [Sync!Glances(q) EXCEPT !.look.by = s], [fl EXCEPT !.step = "look"])
        PROVE  SyncInv'
    <2> DEFINE r == [Sync!Glances(q) EXCEPT !.look.by = s]
               gl == [fl EXCEPT !.step = "look"]
    <2>1. /\ r \in Sync!PanelStates /\ r.file = panel[i].file /\ r.look.by = s
          /\ r.look.file = panel[i].file /\ r.look.seen = None
      BY <1>4 DEF Sync!PanelStates
    <2>2. /\ gl \in Sync!Workflows /\ gl.step = "look" /\ gl.kind = "receive" /\ gl.action = "fetch"
          /\ gl.astray = fl.astray /\ gl.tip = fl.tip
      BY <1>2, <1>8 DEF Sync!Workflows
    <2> HIDE DEF r, gl
    <2>3. LookOk(r) BY <2>1, WhoLooks, NewLook
    <2>4. SendOk(gl, r) BY <2>2 DEF SendOk
    <2>5. ReceiveOk(s, gl, r) BY <1>1, <1>2, <1>8, <2>1, <2>2 DEF ReceiveOk, Fetched
    <2>6. Awaits(gl) /\ Sync!Become(i, s, r, gl) BY <1>8, <2>2 DEF Awaits, r, gl
    <2> HIDE DEF Sync!Become
    <2> QED BY <1>1, <1>5, <1>7, <2>1, <2>2, <2>3, <2>4, <2>5, <2>6, BecomeStep
  <1>9. ASSUME fl.ok, fl.kind = "receive", fl.action = "pull",
               Sync!Become(i, s, Sync!Busy(Sync!Glances(q)), Sync!Loads(fl, Sync!Glances(q)))
        PROVE  SyncInv'
    <2> DEFINE r == Sync!Busy(Sync!Glances(q))
               gl == Sync!Loads(fl, Sync!Glances(q))
    <2>1. /\ r \in Sync!PanelStates /\ r.file = panel[i].file /\ r.look.by = Sync!Display
          /\ r.look.file = panel[i].file /\ r.look.seen = None
      BY <1>4, PanelRecords
    <2>2. /\ gl \in Sync!Workflows /\ gl.step = "load" /\ gl.kind = "receive" /\ gl.action = "pull"
          /\ gl.astray = fl.astray /\ gl.tip = fl.tip
      BY <1>2, <1>4, <1>9, StageRecords
    <2> HIDE DEF r, gl
    <2>3. LookOk(r) /\ r.look.by # s BY <2>1, WhoLooks, NewLook
    <2>4. SendOk(gl, r) BY <2>2 DEF SendOk
    <2>5. ReceiveOk(s, gl, r) BY <1>1, <1>2, <1>9, <2>1, <2>2 DEF ReceiveOk, Fetched, Contained
    <2>6. Sync!Become(i, s, r, gl) BY <1>9 DEF r, gl
    <2> HIDE DEF Sync!Become
    <2> QED BY <1>1, <1>5, <1>7, <2>1, <2>2, <2>3, <2>4, <2>5, <2>6, BecomeStep
  <1>10. CASE Sync!Become(i, s, p, Sync!NoFlow)
    <2>1. /\ p \in Sync!PanelStates /\ p.file = panel[i].file
          /\ \/ p.look = panel[i].look /\ p.info = panel[i].info
             \/ p.look.by = Sync!Display /\ p.look.file = p.file /\ p.look.seen = None
      BY <1>3, <1>4
    <2> HIDE DEF p, Sync!Become, Sync!NoFlow
    <2> QED BY <1>1, <1>5, <1>7, <1>10, <2>1, EndsStep
  <1> QED BY <1>6, <1>8, <1>9, <1>10

LEMMA SupersededKeeps ==
    ASSUME Sync!SyncConstants, SyncInv, NEW i \in SyncPanels, NEW s \in Slots, Sync!Superseded(i, s)
    PROVE  SyncInv'
  <1> DEFINE p == Sync!Busy(panel[i])
             gl == [flow[i][s] EXCEPT !.astray = TRUE]
             fl == Sync!Loads(gl, panel[i])
  <1>1. /\ flow[i][s].step = "look" /\ panel[i].look.by # s /\ Sync!Become(i, s, p, fl)
        /\ UNCHANGED <<local, file, Sync!gitVars, stored, mounted, lost, made, inputs, errors>>
    BY DEF Sync!Superseded
  <1>2. flow[i][s] \in Sync!Workflows /\ panel[i] \in Sync!PanelStates /\ LookOk(panel[i]) BY Known
  <1>3. p \in Sync!PanelStates /\ p.file = panel[i].file /\ p.look = panel[i].look
        /\ p.info = panel[i].info
    BY <1>2, PanelRecords
  <1>4. gl \in Sync!Workflows /\ gl.astray = TRUE BY <1>2 DEF Sync!Workflows
  <1> HIDE DEF gl
  <1>5. fl \in Sync!Workflows /\ fl.step = "load" /\ fl.astray = TRUE BY <1>2, <1>4, StageRecords
  <1> HIDE DEF p, fl
  <1>6. LookOk(p) /\ SendOk(fl, p) /\ ReceiveOk(s, fl, p)
    BY <1>2, <1>3, <1>5 DEF LookOk, SendOk, ReceiveOk
  <1>7. /\ local' \in Sync!Versions /\ inputs' \in 0..MaxInputs
        /\ errors' \in 0..MaxFaults
    BY <1>1, StepsCounted DEF SyncInv
  <1> HIDE DEF Sync!Become
  <1> QED BY <1>1, <1>3, <1>5, <1>6, <1>7, BecomeStep

LEMMA LoadsFileKeeps ==
    ASSUME Sync!SyncConstants, SyncInv, NEW i \in SyncPanels, NEW s \in Slots, Sync!LoadsFile(i, s)
    PROVE  SyncInv'
  <1> DEFINE fl == flow[i][s]
             gl == [fl EXCEPT !.step = "import", !.content = file[fl.file]]
  <1>1. /\ fl.step = "load" /\ ~Awaits(fl)
        /\ UNCHANGED <<local, file, Sync!gitVars, stored, mounted, lost, made, inputs>>
    BY DEF Sync!LoadsFile, Awaits
  <1>2. fl \in Sync!Workflows /\ panel[i] \in Sync!PanelStates /\ ReceiveOk(s, fl, panel[i])
    BY Known
  <1>3. CASE file[fl.file] # None /\ Sync!Become(i, s, Sync!Busy(panel[i]), gl) /\ UNCHANGED errors
    <2>1. fl.file \in Sync!Files /\ file[fl.file] \in Sync!Versions
      BY <1>2, <1>3 DEF SyncInv, Sync!TypeOK, Sync!Workflows
    <2>2. /\ gl \in Sync!Workflows /\ gl.step = "import" /\ gl.content \in Sync!Versions
          /\ gl.kind = fl.kind /\ gl.action = fl.action /\ gl.astray = fl.astray
          /\ gl.tip = fl.tip
      BY <1>2, <2>1 DEF Sync!Workflows
    <2>3. /\ Sync!Busy(panel[i]) \in Sync!PanelStates /\ Sync!Busy(panel[i]).file = panel[i].file
          /\ Sync!Busy(panel[i]).look = panel[i].look /\ Sync!Busy(panel[i]).info = panel[i].info
      BY <1>2, PanelRecords
    <2> HIDE DEF gl
    <2>4. SendOk(gl, Sync!Busy(panel[i])) BY <2>2 DEF SendOk
    <2>5. ReceiveOk(s, gl, Sync!Busy(panel[i]))
      BY <1>1, <1>2, <2>2, <2>3 DEF ReceiveOk, Fetched, Contained
    <2> HIDE DEF Sync!Become
    <2> QED BY <1>1, <1>3, <2>2, <2>3, <2>4, <2>5, GoesOn
  <1>4. CASE (Sync!Fault \/ errors' = errors) /\ Sync!Ends(i, s, panel[i])
    <2>1. /\ Sync!Free(panel[i]) \in Sync!PanelStates /\ Sync!Free(panel[i]).file = panel[i].file
          /\ Sync!Free(panel[i]).look = panel[i].look /\ Sync!Free(panel[i]).info = panel[i].info
      BY <1>2, PanelRecords
    <2>2. local' \in Sync!Versions /\ errors' \in 0..MaxFaults
      BY <1>1, <1>4, StepsCounted DEF SyncInv
    <2> QED BY <1>1, <1>4, <2>1, <2>2, EndsStep DEF Sync!Ends
  <1> QED BY <1>3, <1>4 DEF Sync!LoadsFile

LEMMA ImportsKeeps ==
    ASSUME Sync!SyncConstants, SyncInv, NEW i \in SyncPanels, NEW s \in Slots, Sync!Imports(i, s)
    PROVE  SyncInv'
  <1>1. /\ flow[i][s].step = "import" /\ ~Awaits(flow[i][s])
        /\ UNCHANGED <<file, Sync!gitVars, stored, mounted, lost, made, inputs>>
        /\ \/ /\ local' = flow[i][s].content /\ errors' = errors
              /\ Sync!Become(i, s, Sync!Free(Sync!Glances(panel[i])), Sync!NoFlow)
           \/ local' = local /\ Sync!Fault /\ Sync!Become(i, s, Sync!Free(panel[i]), Sync!NoFlow)
    BY DEF Sync!Imports, Awaits, Sync!Ends
  <1>2. panel[i] \in Sync!PanelStates BY Known
  <1>3. /\ Sync!Free(panel[i]) \in Sync!PanelStates /\ Sync!Free(panel[i]).file = panel[i].file
        /\ Sync!Free(panel[i]).look = panel[i].look /\ Sync!Free(panel[i]).info = panel[i].info
    BY <1>2, PanelRecords
  <1>4. /\ Sync!Free(Sync!Glances(panel[i])) \in Sync!PanelStates
        /\ Sync!Free(Sync!Glances(panel[i])).file = panel[i].file
        /\ Sync!Free(Sync!Glances(panel[i])).look.by = Sync!Display
        /\ Sync!Free(Sync!Glances(panel[i])).look.file = panel[i].file
        /\ Sync!Free(Sync!Glances(panel[i])).look.seen = None
    BY <1>2, PanelRecords
  <1>5. local' \in Sync!Versions /\ errors' \in 0..MaxFaults
    BY <1>1, StepsCounted DEF SyncInv, Carries
  <1> HIDE DEF Sync!Become, Sync!NoFlow
  <1> QED BY <1>1, <1>3, <1>4, <1>5, EndsStep
\* The workflow whose inspection is over goes on.
LEMMA LookedStep ==
    ASSUME Sync!SyncConstants, SyncInv, NEW i \in SyncPanels, NEW s \in Slots, Awaits(flow[i][s]),
           NEW p \in Sync!PanelStates, NEW fl \in Sync!Workflows, Sync!Become(i, s, p, fl),
           p.file = panel[i].file, p.look.by = None, LookOk(p),
           UNCHANGED <<local, file, Sync!gitVars, stored, mounted, lost, made, inputs, errors>>,
           fl.step \notin {"encrypt", "write", "import"}, SendOk(fl, p), ReceiveOk(s, fl, p)
    PROVE  SyncInv'
  <1>1. /\ local' \in Sync!Versions /\ inputs' \in 0..MaxInputs
        /\ errors' \in 0..MaxFaults
    BY StepsCounted DEF SyncInv
  <1>2. p.look.by # s /\ flow[i][s].step # "idle" BY WhoLooks DEF Awaits
  <1> HIDE DEF Sync!Become
  <1> QED BY <1>1, <1>2, BecomeStep

\* An inspection for display is over, and nobody waits for it.
LEMMA DisplayKeeps ==
    ASSUME Sync!SyncConstants, SyncInv, NEW i \in SyncPanels, panel[i].look.by = Sync!Display,
           NEW p \in Sync!PanelStates, panel' = [panel EXCEPT ![i] = p],
           p.file = panel[i].file, p.look.by = None, LookOk(p),
           UNCHANGED <<local, file, Sync!gitVars, stored, mounted, lost, made, inputs, errors, flow>>
    PROVE  SyncInv'
  <1>1. /\ panel' \in [SyncPanels -> Sync!PanelStates] /\ panel'[i] = p
        /\ \A j \in SyncPanels : j # i => panel'[j] = panel[j]
    BY DEF SyncInv, Sync!TypeOK
  <1>2. Sync!TypeOK' BY <1>1 DEF SyncInv, Sync!TypeOK, Sync!gitVars
  <1>3. Moves BY DEF SyncInv, Moves, Sync!gitVars
  <1>4. Carries' /\ Unopened' BY DEF SyncInv, Carries, Unopened, Sync!NoFlow
  <1>5. Looks' BY <1>1, WhoLooks DEF SyncInv, Looks, LookOk, Awaits
  <1>6. FlowsOk'
    <2> SUFFICES ASSUME NEW j \in SyncPanels, NEW t \in Slots
                 PROVE  SendOk(flow[j][t], panel[j])' /\ ReceiveOk(t, flow[j][t], panel[j])'
      BY DEF FlowsOk
    <2>1. /\ flow'[j][t] = flow[j][t] /\ panel'[j].file = panel[j].file
          /\ panel'[j].look = panel[j].look \/ panel'[j].look.by # t
      BY <1>1, WhoLooks
    <2> QED BY <1>3, <2>1, FlowStays
  <1> QED BY <1>2, <1>3, <1>4, <1>5, <1>6 DEF SyncInv, Moves

LEMMA InspectAnsweredKeeps ==
    ASSUME Sync!SyncConstants, SyncInv, NEW i \in SyncPanels, Sync!InspectAnswered(i)
    PROVE  SyncInv'
  <1> DEFINE look == panel[i].look
             p == [panel[i] EXCEPT !.info = look.seen, !.look = Sync!NoLook]
             fl == flow[i][look.by]
  <1>1. /\ look.by # None /\ look.seen # None
        /\ UNCHANGED <<local, file, Sync!gitVars, stored, mounted, lost, made, inputs, errors>>
    BY DEF Sync!InspectAnswered
  <1>2. /\ panel[i] \in Sync!PanelStates /\ LookOk(panel[i])
        /\ look.by \in Slots => Awaits(fl) /\ fl \in Sync!Workflows /\ ReceiveOk(look.by, fl, panel[i])
    BY Known
  <1>3. /\ p \in Sync!PanelStates /\ p.file = panel[i].file /\ p.look.by = None /\ p.info = look.seen
        /\ look.seen \in Sync!Info /\ look.by \in Slots \cup {Sync!Display}
    <2>1. Sync!NoLook \in [by : Slots \cup {Sync!Display, None}, file : Sync!Files, seen : Sync!Info \cup {None}]
          /\ Sync!NoLook.by = None
      BY DEF Sync!NoLook, Sync!Files
    <2> HIDE DEF Sync!NoLook
    <2> QED BY <1>1, <1>2, <2>1 DEF Sync!PanelStates
  <1>4. LookOk(p) /\ (look.seen.ready <=> p.file = "git") BY <1>1, <1>2, <1>3 DEF LookOk
  <1>5. CASE look.by = Sync!Display /\ panel' = [panel EXCEPT ![i] = p] /\ flow' = flow
    <2> HIDE DEF p
    <2> QED BY <1>1, <1>3, <1>4, <1>5, DisplayKeeps
  <1>6. ASSUME look.by # Sync!Display, look.seen.ready, Sync!GoesGit(i, look.by, p, fl, "pull")
        PROVE  SyncInv'
    <2> DEFINE gl == Sync!Gits(fl, "pull")
    <2>1. look.by \in Slots /\ Awaits(fl) /\ Sync!MayTry(p) /\ Sync!Become(i, look.by, Sync!Busy(p), gl)
      BY <1>1, <1>2, <1>3, <1>6 DEF Sync!GoesGit, Sync!MayTry
    <2>2. /\ gl \in Sync!Workflows /\ gl.step = "credential" /\ gl.action = "pull"
          /\ gl.kind = "receive" /\ gl.astray = fl.astray /\ gl.tip = fl.tip
      BY <1>2, <2>1, StageRecords DEF Awaits
    <2>3. /\ Sync!Busy(p) \in Sync!PanelStates /\ Sync!Busy(p).file = panel[i].file /\ Sync!Busy(p).look.by = None
          /\ LookOk(Sync!Busy(p))
      BY <1>3, <1>4, PanelRecords DEF LookOk
    <2>4. ReceiveOk(look.by, gl, Sync!Busy(p))
      BY <1>2, <2>1, <2>2, <2>3 DEF ReceiveOk, Fetched, Awaits
    <2>5. SendOk(gl, Sync!Busy(p)) BY <2>2 DEF SendOk
    <2> HIDE DEF gl, look, fl, p, Sync!Become
    <2>6. Awaits(flow[i][look.by]) BY <2>1 DEF fl
    <2> QED BY <1>1, <2>1, <2>2, <2>3, <2>4, <2>5, <2>6, LookedStep
  <1>7. ASSUME look.by # Sync!Display, ~(look.seen.ready /\ look.seen.behind),
               Sync!Become(i, look.by, Sync!Busy(p), Sync!Loads(fl, p))
        PROVE  SyncInv'
    <2> DEFINE gl == Sync!Loads(fl, p)
    <2>1. look.by \in Slots /\ Awaits(fl) BY <1>1, <1>2, <1>3, <1>7
    <2>2. /\ gl \in Sync!Workflows /\ gl.step = "load" /\ gl.action = "fetch"
          /\ gl.kind = "receive" /\ gl.astray = fl.astray /\ gl.tip = fl.tip
      BY <1>2, <1>3, <2>1, StageRecords DEF Awaits
    <2>3. /\ Sync!Busy(p) \in Sync!PanelStates /\ Sync!Busy(p).file = panel[i].file /\ Sync!Busy(p).look.by = None
          /\ LookOk(Sync!Busy(p))
      BY <1>3, <1>4, PanelRecords DEF LookOk
    <2>4. ReceiveOk(look.by, gl, Sync!Busy(p))
      <3>1. p.file = "git" => ~look.seen.behind BY <1>4, <1>7
      <3> QED BY <1>1, <1>2, <1>3, <2>1, <2>2, <2>3, <3>1 DEF ReceiveOk, Fetched, Awaits, Contained
    <2>5. SendOk(gl, Sync!Busy(p)) BY <2>2 DEF SendOk
    <2>6. Sync!Become(i, look.by, Sync!Busy(p), gl) BY <1>7
    <2> HIDE DEF gl, look, fl, p, Sync!Become
    <2>7. Awaits(flow[i][look.by]) BY <2>1 DEF fl
    <2> QED BY <1>1, <2>1, <2>2, <2>3, <2>4, <2>5, <2>6, <2>7, LookedStep
  <1>8. \/ look.by = Sync!Display /\ panel' = [panel EXCEPT ![i] = p] /\ flow' = flow
        \/ look.by # Sync!Display /\ look.seen.ready /\ Sync!GoesGit(i, look.by, p, fl, "pull")
        \/ /\ look.by # Sync!Display /\ ~(look.seen.ready /\ look.seen.behind)
           /\ Sync!Become(i, look.by, Sync!Busy(p), Sync!Loads(fl, p))
    BY DEF Sync!InspectAnswered
  <1> QED BY <1>5, <1>6, <1>7, <1>8

-----------------------------------------------------------------------------
(* The settings, the inspections and the data.                              *)

\* The panels change, and the workflows of at most one.
LEMMA PanelsStep ==
    ASSUME Sync!SyncConstants, SyncInv, Sync!TypeOK', Moves, mounted' >= mounted,
           \A j \in SyncPanels : \A t \in Slots :
              /\ flow'[j][t].step \in {"encrypt", "write", "import"}
                    => flow'[j][t].content \in Sync!Versions
              /\ j > mounted' => flow'[j][t] = Sync!NoFlow,
           \A j \in SyncPanels : LookOk(panel[j])'
              /\ (panel'[j].look.by \in Slots => Awaits(flow[j][panel[j].look.by])'),
           \A j \in SyncPanels : \A t \in Slots :
              SendOk(flow[j][t], panel[j])' /\ ReceiveOk(t, flow[j][t], panel[j])'
    PROVE  SyncInv'
  <1>1. Carries' /\ Unopened' BY DEF Carries, Unopened, Sync!NoFlow
  <1>2. Looks' /\ FlowsOk' BY DEF Looks, FlowsOk
  <1> QED BY <1>1, <1>2 DEF SyncInv, Moves

\* A panel begins an inspection for display, and its workflows go on.
LEMMA GlancesKeeps ==
    ASSUME Sync!SyncConstants, SyncInv, Sync!TypeOK', Moves, NEW i \in SyncPanels, mounted' >= mounted,
           \A j \in SyncPanels : j # i => panel'[j] = panel[j] /\ flow'[j] = flow[j],
           panel'[i].look.by = Sync!Display, panel'[i].look.file = panel'[i].file,
           panel'[i].look.seen = None,
           \A t \in Slots : \/ flow'[i][t] = Sync!NoFlow
                            \/ flow'[i][t] = flow[i][t] /\ panel'[i].file = panel[i].file
                            \/ /\ flow'[i][t].astray = TRUE /\ i = mounted
                               /\ flow'[i][t].step = flow[i][t].step
                               /\ flow'[i][t].content = flow[i][t].content
    PROVE  SyncInv'
  <1>1. mounted \in Nat /\ mounted' \in Nat /\ SyncPanels \subseteq Nat
    BY DEF Sync!SyncConstants, SyncInv, Sync!TypeOK
  <1>2. ASSUME NEW j \in SyncPanels, NEW t \in Slots
        PROVE  /\ flow'[j][t].step \in {"encrypt", "write", "import"}
                     => flow'[j][t].content \in Sync!Versions
               /\ j > mounted' => flow'[j][t] = Sync!NoFlow
    <2>1. flow[j][t].step \in {"encrypt", "write", "import"} => flow[j][t].content \in Sync!Versions
      BY DEF SyncInv, Carries
    <2>2. j > mounted => flow[j][t] = Sync!NoFlow BY DEF SyncInv, Unopened
    <2>3. j > mounted' => j > mounted /\ j # mounted BY <1>1
    <2>4. Sync!NoFlow.step = "idle" BY WorkflowRecords
    <2> HIDE DEF Sync!NoFlow
    <2> QED BY <2>1, <2>2, <2>3, <2>4
  <1>3. ASSUME NEW j \in SyncPanels
        PROVE  LookOk(panel[j])'
               /\ (panel'[j].look.by \in Slots => Awaits(flow[j][panel[j].look.by])')
    <2>1. CASE j = i BY <2>1, WhoLooks DEF LookOk
    <2>2. CASE j # i BY <2>2, Known DEF LookOk, Awaits
    <2> QED BY <2>1, <2>2
  <1>4. ASSUME NEW j \in SyncPanels, NEW t \in Slots
        PROVE  SendOk(flow[j][t], panel[j])' /\ ReceiveOk(t, flow[j][t], panel[j])'
    <2>1. CASE flow'[j][t] = flow[j][t] /\ panel'[j].file = panel[j].file
      <3>1. panel'[j].look = panel[j].look \/ panel'[j].look.by # t BY WhoLooks
      <3> QED BY <2>1, <3>1, FlowStays
    <2>2. CASE flow'[j][t] = Sync!NoFlow
      BY <2>2, WorkflowRecords DEF Sync!SyncConstants, SendOk, ReceiveOk
    <2>3. CASE flow'[j][t].astray = TRUE BY <2>3 DEF SendOk, ReceiveOk
    <2> QED BY <2>1, <2>2, <2>3
  <1> HIDE DEF Sync!NoFlow
  <1> QED BY <1>2, <1>3, <1>4, PanelsStep
LEMMA StillMoves ==
    ASSUME SyncInv, lost' = lost, file' = file,
           tracked' = tracked, upstream' = upstream, head' = head,
           ToSet(remote) \subseteq ToSet(remote')
    PROVE  Moves
  BY DEF SyncInv, Moves

LEMMA CheckStatusKeeps ==
    ASSUME Sync!SyncConstants, SyncInv, Sync!CheckStatus
    PROVE  SyncInv'
  <1>1. mounted \in SyncPanels /\ mounted \in Nat /\ panel[mounted] \in Sync!PanelStates /\ Sync!Input
        /\ panel' = [panel EXCEPT ![mounted] = Sync!Glances(panel[mounted])]
        /\ UNCHANGED <<local, file, Sync!gitVars, stored, flow, mounted, lost, made, errors>>
    <2>1. mounted \in SyncPanels /\ mounted \in Nat /\ panel[mounted] \in Sync!PanelStates
      BY DEF Sync!SyncConstants, SyncInv, Sync!TypeOK
    <2>2. panel' = [panel EXCEPT ![mounted] = Sync!Glances(panel[mounted])] BY DEF Sync!CheckStatus
    <2> QED BY <2>1, <2>2 DEF Sync!CheckStatus
  <1>2. /\ panel' \in [SyncPanels -> Sync!PanelStates] /\ panel'[mounted] = Sync!Glances(panel[mounted])
        /\ \A j \in SyncPanels : j # mounted => panel'[j] = panel[j]
    BY <1>1, PanelRecords DEF SyncInv, Sync!TypeOK
  <1>3. Sync!TypeOK' BY <1>1, <1>2, StepsCounted DEF SyncInv, Sync!TypeOK, Sync!gitVars
  <1>4. Moves BY <1>1, StillMoves DEF Sync!gitVars
  <1>5. /\ panel'[mounted].look.by = Sync!Display /\ panel'[mounted].file = panel[mounted].file
        /\ panel'[mounted].look.file = panel'[mounted].file /\ panel'[mounted].look.seen = None
    BY <1>1, <1>2, PanelRecords
  <1>6. mounted' >= mounted
        /\ \A t \in Slots : flow'[mounted][t] = flow[mounted][t]
    BY <1>1
  <1> HIDE DEF Sync!NoFlow
  <1> QED BY <1>1, <1>2, <1>3, <1>4, <1>5, <1>6, GlancesKeeps

LEMMA EditSettingsKeeps ==
    ASSUME Sync!SyncConstants, SyncInv, NEW f \in Sync!Files, Sync!EditSettings(f)
    PROVE  SyncInv'
  <1> DEFINE q == [panel[mounted] EXCEPT !.file = f]
  <1>1. mounted \in SyncPanels /\ mounted \in Nat /\ panel[mounted] \in Sync!PanelStates /\ Sync!Input
        /\ panel' = [panel EXCEPT ![mounted] = Sync!Glances(q)]
        /\ UNCHANGED <<local, file, Sync!gitVars, mounted, lost, made, errors>> /\ stored' = f
        /\ flow' = [flow EXCEPT ![mounted] = [s \in Slots |->
                       IF @[s] = Sync!NoFlow THEN Sync!NoFlow ELSE [@[s] EXCEPT !.astray = TRUE]]]
    BY DEF Sync!SyncConstants, SyncInv, Sync!TypeOK, Sync!EditSettings
  <1>2. q \in Sync!PanelStates BY <1>1 DEF Sync!PanelStates
  <1> HIDE DEF q
  <1>3. /\ Sync!Glances(q) \in Sync!PanelStates /\ Sync!Glances(q).look.by = Sync!Display
        /\ Sync!Glances(q).look.file = Sync!Glances(q).file /\ Sync!Glances(q).look.seen = None
    BY <1>2, PanelRecords
  <1>4. /\ panel' \in [SyncPanels -> Sync!PanelStates] /\ panel'[mounted] = Sync!Glances(q)
        /\ \A j \in SyncPanels : j # mounted => panel'[j] = panel[j] /\ flow'[j] = flow[j]
    BY <1>1, <1>3 DEF SyncInv, Sync!TypeOK
  <1>5. ASSUME NEW t \in Slots
        PROVE  /\ flow'[mounted][t] \in Sync!Workflows
               /\ \/ flow'[mounted][t] = Sync!NoFlow
                  \/ /\ flow'[mounted][t].astray = TRUE
                     /\ flow'[mounted][t].step = flow[mounted][t].step
                     /\ flow'[mounted][t].content = flow[mounted][t].content
    <2>1. flow[mounted][t] \in Sync!Workflows BY <1>1 DEF SyncInv, Sync!TypeOK
    <2>2. flow'[mounted][t] = IF flow[mounted][t] = Sync!NoFlow THEN Sync!NoFlow
                              ELSE [flow[mounted][t] EXCEPT !.astray = TRUE]
      BY <1>1 DEF SyncInv, Sync!TypeOK
    <2>3. Sync!NoFlow \in Sync!Workflows BY WorkflowRecords
    <2>4. /\ [flow[mounted][t] EXCEPT !.astray = TRUE] \in Sync!Workflows
          /\ [flow[mounted][t] EXCEPT !.astray = TRUE].astray = TRUE
          /\ [flow[mounted][t] EXCEPT !.astray = TRUE].step = flow[mounted][t].step
          /\ [flow[mounted][t] EXCEPT !.astray = TRUE].content = flow[mounted][t].content
      BY <2>1 DEF Sync!Workflows
    <2> HIDE DEF Sync!NoFlow
    <2> QED BY <2>2, <2>3, <2>4
  <1>6. flow' \in [SyncPanels -> [Slots -> Sync!Workflows]]
    <2>1. flow'[mounted] \in [Slots -> Sync!Workflows]
      <3> HIDE DEF Sync!NoFlow
      <3>1. flow'[mounted] = [s \in Slots |->
                       IF flow[mounted][s] = Sync!NoFlow THEN Sync!NoFlow
                       ELSE [flow[mounted][s] EXCEPT !.astray = TRUE]]
        BY <1>1 DEF SyncInv, Sync!TypeOK
      <3>2. flow'[mounted] = [s \in Slots |-> flow'[mounted][s]] BY <3>1
      <3> QED BY <1>5, <3>2
    <2>2. flow' = [j \in SyncPanels |-> flow'[j]] BY <1>1 DEF SyncInv, Sync!TypeOK
    <2>3. \A j \in SyncPanels : flow'[j] \in [Slots -> Sync!Workflows]
      BY <1>4, <2>1 DEF SyncInv, Sync!TypeOK
    <2> QED BY <2>2, <2>3
  <1>7. Sync!TypeOK' BY <1>1, <1>4, <1>6, StepsCounted DEF SyncInv, Sync!TypeOK, Sync!gitVars
  <1>8. Moves BY <1>1, StillMoves DEF Sync!gitVars
  <1>9. \A t \in Slots : \/ flow'[mounted][t] = Sync!NoFlow
                         \/ /\ flow'[mounted][t].astray = TRUE
                            /\ flow'[mounted][t].step = flow[mounted][t].step
                            /\ flow'[mounted][t].content = flow[mounted][t].content
    BY <1>5
  <1>10. mounted' >= mounted BY <1>1
  <1> HIDE DEF Sync!NoFlow
  <1> QED BY <1>1, <1>3, <1>4, <1>7, <1>8, <1>9, <1>10, GlancesKeeps

LEMMA ReopenKeeps ==
    ASSUME Sync!SyncConstants, SyncInv, Sync!Reopen
    PROVE  SyncInv'
  <1> DEFINE i == mounted + 1
             q == [panel[i] EXCEPT !.file = stored]
  <1>1. mounted \in Nat /\ i \in SyncPanels /\ mounted' = i /\ panel[i] \in Sync!PanelStates /\ Sync!Input
        /\ panel' = [panel EXCEPT ![i] = Sync!Glances(q)]
        /\ UNCHANGED <<local, file, Sync!gitVars, stored, flow, lost, made, errors>>
    BY DEF Sync!SyncConstants, SyncInv, Sync!TypeOK, Sync!Reopen
  <1>2. q \in Sync!PanelStates BY <1>1 DEF Sync!PanelStates, SyncInv, Sync!TypeOK
  <1> HIDE DEF q
  <1>3. /\ Sync!Glances(q) \in Sync!PanelStates /\ Sync!Glances(q).look.by = Sync!Display
        /\ Sync!Glances(q).look.file = Sync!Glances(q).file /\ Sync!Glances(q).look.seen = None
    BY <1>2, PanelRecords
  <1>4. mounted' >= mounted /\ i > mounted BY <1>1
  <1> HIDE DEF i
  <1>5. /\ panel' \in [SyncPanels -> Sync!PanelStates] /\ panel'[i] = Sync!Glances(q)
        /\ \A j \in SyncPanels : j # i => panel'[j] = panel[j]
    BY <1>1, <1>3 DEF SyncInv, Sync!TypeOK
  <1>6. Sync!TypeOK' BY <1>1, <1>5, StepsCounted DEF SyncInv, Sync!TypeOK, Sync!gitVars
  <1>7. Moves BY <1>1, <1>4, StillMoves DEF Sync!gitVars
  <1>8. \A t \in Slots : flow'[i][t] = Sync!NoFlow BY <1>1, <1>4 DEF SyncInv, Unopened, Sync!NoFlow
  <1> HIDE DEF Sync!NoFlow
  <1> QED BY <1>1, <1>3, <1>4, <1>5, <1>6, <1>7, <1>8, GlancesKeeps

LEMMA SeenIsInfo ==
    ASSUME SyncInv, NEW f, NEW counted \in BOOLEAN
    PROVE  /\ Sync!Seen(f, counted) \in Sync!Info /\ (Sync!Seen(f, counted).ready <=> f = "git")
           /\ Sync!Seen(f, counted).behind <=> f = "git" /\ counted /\ upstream /\ Sync!Behind
  BY DEF Sync!Seen, Sync!Info, SyncInv, Sync!TypeOK

\* The inspection of a panel ends: nothing else changes, but a workflow whose inspection
\* failed is astray from now on.
LEMMA InspectionSees ==
    ASSUME Sync!SyncConstants, SyncInv, NEW i \in SyncPanels, Sync!InspectRuns(i)
    PROVE  \E sight \in Sync!Info :
              /\ panel' = [panel EXCEPT ![i].look.seen = sight]
              /\ sight.ready <=> panel[i].look.file = "git"
              /\ \/ /\ flow' = flow
                    /\ \/ panel[i].look.by = Sync!Display
                       \/ sight.behind <=> panel[i].look.file = "git" /\ upstream /\ Sync!Behind
                 \/ /\ panel[i].look.by # Sync!Display
                    /\ flow' = [flow EXCEPT ![i][panel[i].look.by].astray = TRUE]
  <1> DEFINE look == panel[i].look
  <1>1. ASSUME NEW counted \in BOOLEAN
        PROVE  /\ Sync!Seen(look.file, counted) \in Sync!Info
               /\ Sync!Seen(look.file, counted).ready <=> look.file = "git"
               /\ counted => (Sync!Seen(look.file, counted).behind <=>
                                 look.file = "git" /\ upstream /\ Sync!Behind)
    BY SeenIsInfo
  <1>2. ASSUME panel' = [panel EXCEPT ![i].look.seen = Sync!Seen(look.file, TRUE)], flow' = flow
        PROVE  \E sight \in Sync!Info :
                  /\ panel' = [panel EXCEPT ![i].look.seen = sight]
                  /\ sight.ready <=> look.file = "git"
                  /\ sight.behind <=> look.file = "git" /\ upstream /\ Sync!Behind
    <2> HIDE DEF look
    <2> QED BY <1>1, <1>2
  <1>3. ASSUME panel' = [panel EXCEPT ![i].look.seen = Sync!Seen(look.file, FALSE)]
        PROVE  \E sight \in Sync!Info :
                  /\ panel' = [panel EXCEPT ![i].look.seen = sight]
                  /\ sight.ready <=> look.file = "git"
    <2> HIDE DEF look
    <2> QED BY <1>1, <1>3
  <1>4. \/ panel' = [panel EXCEPT ![i].look.seen = Sync!Seen(look.file, TRUE)] /\ flow' = flow
        \/ /\ panel' = [panel EXCEPT ![i].look.seen = Sync!Seen(look.file, FALSE)]
           /\ \/ look.by = Sync!Display /\ flow' = flow
              \/ look.by # Sync!Display /\ flow' = [flow EXCEPT ![i][look.by].astray = TRUE]
    BY DEF Sync!InspectRuns
  <1> QED BY <1>2, <1>3, <1>4

LEMMA InspectRunsKeeps ==
    ASSUME Sync!SyncConstants, SyncInv, NEW i \in SyncPanels, Sync!InspectRuns(i)
    PROVE  SyncInv'
  <1> DEFINE look == panel[i].look
  <1>1. PICK sight \in Sync!Info :
           /\ panel' = [panel EXCEPT ![i].look.seen = sight]
           /\ sight.ready <=> look.file = "git"
           /\ \/ /\ flow' = flow
                 /\ \/ look.by = Sync!Display
                    \/ sight.behind <=> look.file = "git" /\ upstream /\ Sync!Behind
              \/ look.by # Sync!Display /\ flow' = [flow EXCEPT ![i][look.by].astray = TRUE]
    BY InspectionSees
  <1>2. /\ look.by # None /\ look.seen = None
        /\ UNCHANGED <<local, file, Sync!gitVars, stored, mounted, lost, made, inputs>>
        /\ errors' \in 0..MaxFaults /\ mounted \in Nat
    <2>1. Sync!Fault \/ errors' = errors BY DEF Sync!InspectRuns
    <2>2. errors' \in 0..MaxFaults /\ mounted \in Nat
      BY <2>1, StepsCounted DEF Sync!SyncConstants, SyncInv, Sync!TypeOK
    <2> QED BY <2>2 DEF Sync!InspectRuns
  <1>3. look.by # Sync!Display => look.by \in Slots /\ Awaits(flow[i][look.by])
    <2>1. look.by \in Slots \cup {Sync!Display, None} BY Known DEF Sync!PanelStates
    <2> QED BY <1>2, <2>1, Known
  <1>4. /\ panel' \in [SyncPanels -> Sync!PanelStates] /\ panel'[i].file = panel[i].file
        /\ panel'[i].look.by = look.by /\ panel'[i].look.file = look.file
        /\ panel'[i].look.seen = sight /\ panel'[i].info = panel[i].info
        /\ \A j \in SyncPanels : j # i => panel'[j] = panel[j]
    <2>1. panel' = [panel EXCEPT ![i].look.seen = sight] /\ panel \in [SyncPanels -> Sync!PanelStates]
      BY <1>1 DEF SyncInv, Sync!TypeOK
    <2> QED BY <1>1, <2>1 DEF Sync!PanelStates
  <1>5. /\ flow' \in [SyncPanels -> [Slots -> Sync!Workflows]]
        /\ \A j \in SyncPanels : \A t \in Slots :
              \/ flow'[j][t] = flow[j][t]
              \/ /\ j = i /\ t = look.by /\ look.by # Sync!Display /\ flow'[j][t].astray = TRUE
                 /\ flow'[j][t].kind = flow[j][t].kind /\ flow'[j][t].step = flow[j][t].step
                 /\ flow'[j][t].action = flow[j][t].action
    <2>1. flow \in [SyncPanels -> [Slots -> Sync!Workflows]] BY DEF SyncInv, Sync!TypeOK
    <2>2. CASE look.by # Sync!Display /\ flow' = [flow EXCEPT ![i][look.by].astray = TRUE]
      <3> DEFINE s == look.by
                 gl == [flow[i][s] EXCEPT !.astray = TRUE]
      <3>1. s \in Slots /\ flow[i][s] \in Sync!Workflows BY <1>3, <2>1, <2>2
      <3>2. /\ gl \in Sync!Workflows /\ gl.astray = TRUE /\ gl.kind = flow[i][s].kind
            /\ gl.step = flow[i][s].step /\ gl.action = flow[i][s].action
        BY <3>1 DEF Sync!Workflows
      <3>3. flow' = [flow EXCEPT ![i] = [flow[i] EXCEPT ![s] = gl]] BY <2>2
      <3> HIDE DEF gl, s
      <3>4. [flow[i] EXCEPT ![s] = gl] \in [Slots -> Sync!Workflows] BY <2>1, <3>1, <3>2
      <3>5. flow'[i][s] = gl /\ flow' \in [SyncPanels -> [Slots -> Sync!Workflows]]
            /\ (\A j \in SyncPanels : j # i => flow'[j] = flow[j])
            /\ (\A t \in Slots : t # s => flow'[i][t] = flow[i][t])
        BY <2>1, <3>1, <3>3, <3>4
      <3> QED BY <2>2, <3>2, <3>5 DEF s
    <2> QED BY <1>1, <2>1, <2>2
  <1>6. Sync!TypeOK' BY <1>2, <1>4, <1>5 DEF SyncInv, Sync!TypeOK, Sync!gitVars
  <1>7. Moves BY <1>2, StillMoves DEF Sync!gitVars
  <1>8. ASSUME NEW j \in SyncPanels, NEW t \in Slots
        PROVE  /\ flow'[j][t].step \in {"encrypt", "write", "import"}
                     => flow'[j][t].content \in Sync!Versions
               /\ j > mounted' => flow'[j][t] = Sync!NoFlow
    <2>1. /\ flow[j][t].step \in {"encrypt", "write", "import"} => flow[j][t].content \in Sync!Versions
          /\ j > mounted => flow[j][t] = Sync!NoFlow
      BY DEF SyncInv, Carries, Unopened, Sync!NoFlow
    <2> HIDE DEF Sync!NoFlow
    <2>2. CASE flow'[j][t] = flow[j][t] BY <1>2, <2>1, <2>2
    <2>3. CASE flow'[j][t] # flow[j][t]
      <3>1. j = i /\ flow'[j][t].step = "look" /\ flow[j][t].step = "look"
        BY <1>3, <1>5, <2>3 DEF Awaits
      <3>2. i <= mounted /\ j \in Nat BY <3>1, Opened DEF Sync!SyncConstants
      <3>3. ~(j > mounted') BY <1>2, <3>1, <3>2
      <3> QED BY <3>1, <3>3
    <2> QED BY <2>2, <2>3
  <1>9. ASSUME NEW j \in SyncPanels
        PROVE  LookOk(panel[j])' /\ (panel'[j].look.by \in Slots => Awaits(flow[j][panel[j].look.by])')
    <2>1. LookOk(panel[j])' BY <1>1, <1>2, <1>4, Known DEF LookOk
    <2>2. panel'[j].look.by = panel[j].look.by BY <1>4
    <2>3. ASSUME NEW t \in Slots, Awaits(flow[j][t]) PROVE Awaits(flow[j][t])'
      BY <1>5, <2>3 DEF Awaits
    <2> QED BY <2>1, <2>2, <2>3, Known DEF Awaits
  <1>10. ASSUME NEW j \in SyncPanels, NEW t \in Slots
         PROVE  SendOk(flow[j][t], panel[j])' /\ ReceiveOk(t, flow[j][t], panel[j])'
    <2>1. CASE flow'[j][t] # flow[j][t]
      <3>1. flow'[j][t].astray = TRUE BY <1>5, <2>1
      <3> QED BY <3>1 DEF SendOk, ReceiveOk
    <2>2. CASE flow'[j][t] = flow[j][t] /\ (j # i \/ look.by # t) BY <1>4, <1>7, <2>2, FlowStays
    <2>3. CASE flow'[j][t] = flow[j][t] /\ j = i /\ look.by = t
      <3>1. SendOk(flow[j][t], panel[j]) /\ ReceiveOk(t, flow[j][t], panel[j])
            /\ Awaits(flow[i][t]) /\ LookOk(panel[i])
        BY <2>3, Known
      <3>2. SendOk(flow[j][t], panel[j])' BY <2>3, <3>1 DEF SendOk, Awaits
      <3>3. ~Sync!Behind => Contained(flow[j][t]) \/ flow[j][t].tip \notin ToSet(tracked)
        <4>1. tracked \in Seq(Sync!Versions) /\ head \in Seq(Sync!Versions)
          BY DEF SyncInv, Sync!TypeOK
        <4> QED BY <4>1, PrefixIsThere DEF Sync!Behind, Contained
      <3>4. \/ flow[j][t].astray = TRUE
            \/ panel[i].file = "git" => sight.behind \/ ~upstream \/ ~Sync!Behind
        <4>1. look.by # Sync!Display /\ look.file = panel[i].file
          BY <1>2, <2>3, <3>1, WhoLooks DEF LookOk
        <4>2. flow' = [flow EXCEPT ![i][look.by].astray = TRUE] => flow[j][t].astray = TRUE
          <5>1. flow[i][t] \in Sync!Workflows /\ flow \in [SyncPanels -> [Slots -> Sync!Workflows]]
            BY DEF SyncInv, Sync!TypeOK
          <5> QED BY <2>3, <5>1 DEF Sync!Workflows
        <4> QED BY <1>1, <4>1, <4>2
      <3>5. Contained(flow[j][t])' <=> Contained(flow[j][t])
        BY <1>2, <2>3 DEF Contained, Sync!gitVars
      <3>6. Fetched(flow[j][t])' <=> Fetched(flow[j][t]) BY <1>2, <2>3 DEF Fetched, Sync!gitVars
      <3>7. ~upstream => Contained(flow[j][t]) BY DEF Contained
      <3>8. Fetched(flow[j][t]) => flow[j][t].tip \in ToSet(tracked)
        BY <2>3, <3>1 DEF Fetched, Awaits
      <3> HIDE DEF look
      <3>9. flow[j][t].step = "look" BY <2>3, <3>1 DEF Awaits
      <3>10. ReceiveOk(t, flow[j][t], panel[j])'
        BY <1>4, <2>3, <3>1, <3>3, <3>4, <3>5, <3>6, <3>7, <3>8, <3>9 DEF ReceiveOk
      <3> QED BY <3>2, <3>10
    <2> QED BY <2>1, <2>2, <2>3
  <1>11. mounted' >= mounted BY <1>2
  <1> HIDE DEF Sync!NoFlow
  <1> QED BY <1>6, <1>7, <1>8, <1>9, <1>10, <1>11, PanelsStep

\* The data change here or at the remote, and nothing else does.
LEMMA DataKeeps ==
    ASSUME Sync!SyncConstants, SyncInv, Sync!TypeOK', Moves,
           UNCHANGED <<panel, flow, mounted>>
    PROVE  SyncInv'
  <1>1. \A j \in SyncPanels : LookOk(panel[j])'
           /\ (panel'[j].look.by \in Slots => Awaits(flow[j][panel[j].look.by])')
    BY Known DEF LookOk, Awaits
  <1>2. \A j \in SyncPanels : \A t \in Slots :
           SendOk(flow[j][t], panel[j])' /\ ReceiveOk(t, flow[j][t], panel[j])'
    BY FlowStays
  <1>3. Carries' /\ Unopened' BY DEF SyncInv, Carries, Unopened, Sync!NoFlow
  <1> QED BY <1>1, <1>2, <1>3 DEF SyncInv, Looks, FlowsOk, Moves

LEMMA WorldKeeps ==
    ASSUME Sync!SyncConstants, SyncInv, Sync!LocalEdit \/ Sync!OtherPush
    PROVE  SyncInv'
  <1>1. made' \in Sync!Versions
        /\ UNCHANGED <<stored, panel, flow, mounted, lost, inputs, errors, file, head, tracked, upstream>>
    BY DEF Sync!SyncConstants, SyncInv, Sync!TypeOK, Sync!LocalEdit, Sync!OtherPush, Sync!Make, Sync!Versions, Sync!gitVars
  <1>2. CASE Sync!LocalEdit
    <2>1. local' = made' /\ remote' = remote BY <1>2 DEF Sync!LocalEdit, Sync!gitVars
    <2> QED BY <1>1, <2>1, StillMoves, DataKeeps DEF SyncInv, Sync!TypeOK
  <1>3. CASE Sync!OtherPush
    <2>1. remote \in Seq(Sync!Versions) /\ remote' = Append(remote, made') /\ local' = local
      BY <1>3 DEF Sync!OtherPush, SyncInv, Sync!TypeOK
    <2>2. /\ ToSet(remote) \subseteq ToSet(remote')
          /\ remote' \in Seq(Sync!Versions) /\ remote' # <<>>
      BY <1>1, <2>1, AppendIsThere
    <2>3. Moves BY <1>1, <2>2, StillMoves
    <2>4. Sync!TypeOK' BY <1>1, <2>1, <2>2 DEF SyncInv, Sync!TypeOK
    <2> QED BY <1>1, <2>3, <2>4, DataKeeps
  <1> QED BY <1>2, <1>3
-----------------------------------------------------------------------------
(* The steps that move versions: the file is written, and Git runs.         *)

\* What the file has is committed unless the clone has changes.
LEMMA CleanIsCommitted ==
    ASSUME SyncInv
    PROVE  /\ file["git"] \in Sync!Versions
           /\ ~Sync!Dirty => file["git"] \in ToSet(head)
  <1>1. head \in Seq(Sync!Versions) /\ head # <<>> /\ "git" \in Sync!Files /\ file["git"] # None
        /\ file \in [Sync!Files -> Sync!Versions \cup {None}]
    BY DEF SyncInv, Sync!TypeOK, Sync!Files
  <1>2. Sync!Last(head) \in ToSet(head) BY <1>1, LastIsThere
  <1> QED BY <1>1, <1>2 DEF Sync!Dirty

LEMMA WritesKeeps ==
    ASSUME Sync!SyncConstants, SyncInv, NEW i \in SyncPanels, NEW s \in Slots, Sync!Writes(i, s)
    PROVE  SyncInv'
  <1> DEFINE fl == flow[i][s]
             p == Sync!Free(panel[i])
             gl == Sync!Gits(fl, "push")
  <1>1. /\ fl.step = "write" /\ ~Awaits(fl) /\ fl.step # "idle"
        /\ UNCHANGED <<local, Sync!gitVars, stored, mounted, made, inputs>>
    BY DEF Sync!Writes, Awaits
  <1>2. /\ fl \in Sync!Workflows /\ panel[i] \in Sync!PanelStates /\ SendOk(fl, panel[i])
        /\ fl.content \in Sync!Versions
    BY <1>1, Known DEF SyncInv, Carries
  <1>3. p \in Sync!PanelStates /\ p.file = panel[i].file /\ p.look = panel[i].look
        /\ p.info = panel[i].info
    BY <1>2, PanelRecords
  <1>4. /\ Sync!Glances(p) \in Sync!PanelStates /\ Sync!Glances(p).file = panel[i].file
        /\ Sync!Glances(p).look.by = Sync!Display /\ Sync!Glances(p).look.file = panel[i].file
        /\ Sync!Glances(p).look.seen = None
    BY <1>3, PanelRecords
  <1>5. LookOk(p) /\ p.look.by # s /\ i <= mounted BY <1>1, <1>3, SameLook, Opened
  <1>6. CASE Sync!Fault /\ Sync!Ends(i, s, p) /\ UNCHANGED <<file, lost>>
    <2>1. local' \in Sync!Versions /\ errors' \in 0..MaxFaults
      BY <1>1, <1>6, StepsCounted DEF SyncInv
    <2>2. /\ Sync!Free(p) \in Sync!PanelStates /\ Sync!Free(p).file = panel[i].file
          /\ Sync!Free(p).look = panel[i].look /\ Sync!Free(p).info = panel[i].info
      BY <1>3, PanelRecords
    <2>3. Sync!Become(i, s, Sync!Free(p), Sync!NoFlow) BY <1>6 DEF Sync!Ends
    <2> HIDE DEF p, fl, Sync!Become, Sync!NoFlow
    <2>4. fl = flow[i][s] BY DEF fl
    <2> QED BY <1>1, <1>6, <2>1, <2>2, <2>3, <2>4, EndsStep
  <1>7. ASSUME file' = [file EXCEPT ![fl.file] = fl.content],
               lost' = Sync!Overwritten(fl.file, fl.content), errors' = errors,
               NEW q \in Sync!PanelStates, NEW g \in Sync!Workflows, Sync!Become(i, s, q, g),
               q.file = panel[i].file, LookOk(q), q.look.by # s,
               q.look = panel[i].look \/ q.look.by = Sync!Display,
               \/ g = Sync!NoFlow
               \/ g = gl /\ panel[i].file = "git"
        PROVE  SyncInv'
    <2>1. /\ panel' \in [SyncPanels -> Sync!PanelStates] /\ flow' \in [SyncPanels -> [Slots -> Sync!Workflows]]
          /\ panel'[i] = q /\ flow'[i][s] = g
          /\ \A j \in SyncPanels : j # i => panel'[j] = panel[j] /\ flow'[j] = flow[j]
          /\ \A t \in Slots : t # s => flow'[i][t] = flow[i][t]
      BY <1>7 DEF SyncInv, Sync!TypeOK, Sync!Become
    <2>2. fl.file \in Sync!Files /\ "git" \in Sync!Files /\ None \notin Sync!Versions
      BY <1>2 DEF Sync!SyncConstants, Sync!Workflows, Sync!Files, Sync!Versions
    <2>3. /\ file' \in [Sync!Files -> Sync!Versions \cup {None}]
          /\ file'["git"] = IF fl.file = "git" THEN fl.content ELSE file["git"]
      BY <1>2, <1>7, <2>2 DEF SyncInv, Sync!TypeOK
    <2>4. /\ lost' \subseteq Sync!Versions /\ lost \subseteq lost'
          /\ file["git"] \in ToSet(head) \cup {file'["git"]} \cup lost'
      <3>1. lost \subseteq Sync!Versions /\ file["git"] \in Sync!Versions
            /\ (~Sync!Dirty => file["git"] \in ToSet(head))
        BY CleanIsCommitted DEF SyncInv, Sync!TypeOK
      <3>2. lost' = IF fl.file = "git" /\ Sync!Dirty /\ file[fl.file] # fl.content
                    THEN lost \cup {file[fl.file]} ELSE lost
        BY <1>7 DEF Sync!Overwritten
      <3> QED BY <2>3, <3>1, <3>2
    <2>5. Sync!TypeOK'
      BY <1>1, <1>2, <1>7, <2>1, <2>2, <2>3, <2>4 DEF SyncInv, Sync!TypeOK, Sync!gitVars
    <2>6. Moves BY <1>1, <1>7, <2>4 DEF SyncInv, Moves, Sync!gitVars
    <2>7. SendOk(flow[i][s], panel[i])' /\ ReceiveOk(s, flow[i][s], panel[i])'
          /\ flow'[i][s].step \notin {"encrypt", "write", "import"}
      <3>1. CASE g = Sync!NoFlow
        BY <2>1, <3>1, WorkflowRecords DEF Sync!SyncConstants, SendOk, ReceiveOk
      <3>2. CASE g = gl /\ panel[i].file = "git"
        <4>1. /\ g.step = "credential" /\ g.action = "push" /\ g.kind = fl.kind
              /\ g.astray = fl.astray /\ g.content = fl.content
          BY <1>2, <1>3, <3>2, StageRecords
        <4>2. fl.kind = "send" /\ ~fl.astray => file'["git"] = fl.content
          BY <1>1, <1>2, <2>3, <3>2 DEF SendOk
        <4>3. SendOk(flow[i][s], panel[i])' BY <2>1, <4>1, <4>2 DEF SendOk
        <4>4. ReceiveOk(s, flow[i][s], panel[i])' BY <2>1, <4>1 DEF ReceiveOk
        <4> QED BY <2>1, <4>1, <4>3, <4>4
      <3> QED BY <1>7, <3>1, <3>2
    <2>8. LookOk(panel[i])' /\ panel'[i].look.by # s BY <1>7, <2>1 DEF LookOk
    <2> HIDE DEF Sync!NoFlow, Moves
    <2>9. mounted' = mounted /\ panel'[i].file = panel[i].file
          /\ (panel'[i].look = panel[i].look \/ panel'[i].look.by \in {s, Sync!Display, None})
      BY <1>1, <1>7, <2>1
    <2> QED BY <1>5, <2>1, <2>5, <2>6, <2>7, <2>8, <2>9, StepAt
  <1>8. Sync!NoFlow \in Sync!Workflows /\ gl \in Sync!Workflows /\ Sync!Display # s
    BY <1>2, <1>3, WorkflowRecords, StageRecords, WhoLooks
  <1>9. LookOk(Sync!Glances(p)) BY <1>4, NewLook, WhoLooks
  <1>10. CASE /\ file' = [file EXCEPT ![fl.file] = fl.content]
              /\ lost' = Sync!Overwritten(fl.file, fl.content) /\ errors' = errors
              /\ IF fl.kind = "send" /\ Sync!Ready(p) THEN Sync!GoesGit(i, s, p, fl, "push")
                 ELSE Sync!Become(i, s, Sync!Glances(p), Sync!NoFlow)
    <2>1. CASE fl.kind = "send" /\ Sync!Ready(p)
      <3>1. Sync!Become(i, s, Sync!Busy(p), gl) /\ panel[i].file = "git"
        <4>1. Sync!Ready(panel[i]) BY <1>3, <2>1 DEF Sync!Ready, Sync!MayTry
        <4> QED BY <1>10, <2>1, <4>1, ReadyIsGit DEF Sync!GoesGit, Sync!Ready
      <3>2. /\ Sync!Busy(p) \in Sync!PanelStates /\ Sync!Busy(p).file = panel[i].file
            /\ Sync!Busy(p).look = panel[i].look /\ Sync!Busy(p).info = panel[i].info
        BY <1>3, PanelRecords
      <3>3. LookOk(Sync!Busy(p)) /\ Sync!Busy(p).look.by # s BY <1>1, <3>2, SameLook
      <3> HIDE DEF p, gl, Sync!Become, Sync!Overwritten
      <3> QED BY <1>7, <1>8, <1>10, <3>1, <3>2, <3>3
    <2>2. CASE ~(fl.kind = "send" /\ Sync!Ready(p))
      <3>1. Sync!Become(i, s, Sync!Glances(p), Sync!NoFlow) BY <1>10, <2>2
      <3> HIDE DEF p, gl, Sync!Become, Sync!Overwritten, Sync!NoFlow
      <3> QED BY <1>4, <1>7, <1>8, <1>9, <1>10, <3>1
    <2> QED BY <2>1, <2>2
  <1> QED BY <1>6, <1>10 DEF Sync!Writes

\* What an operation of Git does to the clone and the remote.
GitMoves ==
    /\ \A h \in {head', tracked', remote'} : h \in Seq(Sync!Versions) /\ h # <<>>
    /\ file' \in [Sync!Files -> Sync!Versions \cup {None}] /\ file'["git"] # None
    /\ ToSet(head) \subseteq ToSet(head') /\ ToSet(remote) \subseteq ToSet(remote')
    /\ ToSet(tracked) \subseteq ToSet(tracked') /\ ToSet(tracked') \subseteq ToSet(remote')
    /\ lost' = lost
    /\ file["git"] \in ToSet(head') \cup {file'["git"]}
    /\ upstream' \in BOOLEAN /\ (upstream' => upstream \/ ToSet(remote) \subseteq ToSet(head'))

LEMMA GitTypes ==
    ASSUME SyncInv
    PROVE  /\ head \in Seq(Sync!Versions) /\ tracked \in Seq(Sync!Versions) /\ remote \in Seq(Sync!Versions)
           /\ head # <<>> /\ tracked # <<>> /\ remote # <<>>
           /\ file \in [Sync!Files -> Sync!Versions \cup {None}] /\ file["git"] # None
           /\ "git" \in Sync!Files /\ upstream \in BOOLEAN
           /\ ToSet(tracked) \subseteq ToSet(remote)
           /\ Sync!Last(remote) \in Sync!Versions /\ Sync!Last(remote) \in ToSet(remote)
  <1>1. \A h \in {head, tracked, remote} : h \in Seq(Sync!Versions) /\ h # <<>>
    BY DEF SyncInv, Sync!TypeOK
  <1>2. Sync!Last(remote) \in Sync!Versions /\ Sync!Last(remote) \in ToSet(remote)
    BY <1>1, LastIsThere
  <1> QED BY <1>1, <1>2 DEF SyncInv, Sync!TypeOK, Sync!Files

LEMMA FetchMoves ==
    ASSUME SyncInv, NEW i, NEW s, Sync!Fetch(i, s)
    PROVE  GitMoves /\ Sync!Answers(i, s, TRUE) /\ Sync!Last(remote) \in ToSet(tracked')
  <1>1. tracked' = remote /\ head' = head /\ remote' = remote /\ upstream' = upstream
        /\ file' = file /\ lost' = lost
    BY DEF Sync!Fetch
  <1>2. GitMoves BY <1>1, GitTypes DEF GitMoves
  <1> QED BY <1>1, <1>2, GitTypes DEF Sync!Fetch

LEMMA PullMoves ==
    ASSUME Sync!SyncConstants, SyncInv, NEW i, NEW s, Sync!Pull(i, s)
    PROVE  /\ GitMoves
           /\ \E ok \in BOOLEAN : Sync!Answers(i, s, ok) /\ (ok => ToSet(tracked) \subseteq ToSet(head'))
  <1> DEFINE forwards == Sync!IsPrefix(head, remote) /\ (head = remote \/ ~Sync!Dirty)
  <1>1. /\ tracked' = remote /\ remote' = remote /\ upstream' = upstream /\ lost' = lost
        /\ head' = IF forwards THEN remote ELSE head
        /\ file' = IF forwards /\ head # remote THEN [file EXCEPT !["git"] = Sync!Last(remote)] ELSE file
        /\ Sync!Answers(i, s, forwards \/ Sync!IsPrefix(remote, head))
    BY DEF Sync!Pull
  <1>2. /\ Sync!IsPrefix(head, remote) => ToSet(head) \subseteq ToSet(remote)
        /\ Sync!IsPrefix(remote, head) => ToSet(remote) \subseteq ToSet(head)
    BY GitTypes, PrefixIsThere
  <1>3. /\ ToSet(head) \subseteq ToSet(head')
        /\ file["git"] \in ToSet(head') \cup {file'["git"]}
        /\ forwards \/ Sync!IsPrefix(remote, head) => ToSet(tracked) \subseteq ToSet(head')
    BY <1>1, <1>2, GitTypes, CleanIsCommitted
  <1>4. file' \in [Sync!Files -> Sync!Versions \cup {None}] /\ file'["git"] # None
    <2>1. None \notin Sync!Versions BY DEF Sync!SyncConstants, Sync!Versions
    <2>2. CASE file' = [file EXCEPT !["git"] = Sync!Last(remote)] BY <2>1, <2>2, GitTypes
    <2>3. CASE file' = file BY <2>3, GitTypes
    <2> QED BY <1>1, <2>2, <2>3
  <1>5. GitMoves BY <1>1, <1>3, <1>4, GitTypes DEF GitMoves
  <1> QED BY <1>1, <1>3, <1>5

LEMMA PushMoves ==
    ASSUME SyncInv, NEW i, NEW s, NEW accepted \in BOOLEAN, NEW ok \in BOOLEAN,
           Sync!Push(i, s, accepted, ok)
    PROVE  /\ GitMoves /\ file["git"] \in ToSet(head')
           /\ \E told \in BOOLEAN :
                 /\ Sync!Answers(i, s, told)
                 /\ told => ok /\ ToSet(head') \subseteq ToSet(remote')
  <1> DEFINE mine == IF Sync!Dirty THEN Append(head, file["git"]) ELSE head
             up == accepted /\ Sync!IsPrefix(remote, mine)
  <1>1. /\ head' = mine /\ remote' = (IF up THEN mine ELSE remote)
        /\ tracked' = (IF up THEN mine ELSE tracked) /\ upstream' = (upstream \/ up)
        /\ Sync!Answers(i, s, ok /\ up) /\ file' = file /\ lost' = lost
    BY DEF Sync!Push
  <1>2. /\ mine \in Seq(Sync!Versions) /\ mine # <<>> /\ ToSet(head) \subseteq ToSet(mine)
        /\ file["git"] \in ToSet(mine)
    BY GitTypes, CleanIsCommitted, AppendIsThere
  <1> HIDE DEF mine
  <1>3. up => ToSet(remote) \subseteq ToSet(mine) BY <1>2, GitTypes, PrefixIsThere
  <1>4. GitMoves BY <1>1, <1>2, <1>3, GitTypes DEF GitMoves
  <1> QED BY <1>1, <1>2, <1>4

LEMMA FailureMoves ==
    ASSUME SyncInv, NEW i, NEW s, Sync!Answers(i, s, FALSE), tracked' \in {tracked, remote},
           UNCHANGED <<file, head, upstream, remote, lost>>
    PROVE  GitMoves
  BY GitTypes DEF GitMoves

\* Whatever a workflow asked of Git, its answer is true of the versions.
LEMMA AnswerStep ==
    ASSUME Sync!SyncConstants, SyncInv, NEW i \in SyncPanels, NEW s \in Slots, NEW ok \in BOOLEAN,
           flow[i][s].step = "git", Sync!Answers(i, s, ok), GitMoves,
           errors' \in 0..MaxFaults,
           ok /\ flow[i][s].action = "fetch" => Sync!Last(remote) \in ToSet(tracked'),
           ok /\ flow[i][s].action = "pull" => ToSet(tracked) \subseteq ToSet(head'),
           ok /\ flow[i][s].action = "push" =>
                ToSet(head) \cup {file["git"]} \subseteq ToSet(remote'),
           UNCHANGED <<local, stored, panel, mounted, made, inputs>>
    PROVE  SyncInv'
  <1> DEFINE fl == flow[i][s]
             gl == flow'[i][s]
  <1>1. fl \in Sync!Workflows /\ fl.step = "git" /\ SendOk(fl, panel[i]) /\ ReceiveOk(s, fl, panel[i])
    BY Known
  <1>2. /\ flow' \in [SyncPanels -> [Slots -> Sync!Workflows]]
        /\ gl.step = "answered" /\ gl.ok = ok /\ gl.kind = fl.kind /\ gl.action = fl.action
        /\ gl.astray = fl.astray /\ gl.content = fl.content
        /\ gl.tip = IF fl.action = "fetch" /\ ok THEN Sync!Last(remote) ELSE fl.tip
        /\ \A j \in SyncPanels : j # i => flow'[j] = flow[j]
        /\ \A t \in Slots : t # s => flow'[i][t] = flow[i][t]
    <2> DEFINE tip == IF fl.action = "fetch" /\ ok THEN Sync!Last(remote) ELSE fl.tip
               new == [fl EXCEPT !.step = "answered", !.ok = ok, !.tip = tip]
    <2>1. flow \in [SyncPanels -> [Slots -> Sync!Workflows]] BY DEF SyncInv, Sync!TypeOK
    <2>2. tip \in Sync!Versions BY <1>1, GitTypes DEF Sync!Workflows
    <2>3. flow' = [flow EXCEPT ![i][s] = new] BY <2>1 DEF Sync!Answers, Sync!Workflows
    <2> HIDE DEF tip
    <2>4. /\ new \in Sync!Workflows /\ new.step = "answered" /\ new.ok = ok /\ new.kind = fl.kind
          /\ new.action = fl.action /\ new.astray = fl.astray /\ new.content = fl.content
          /\ new.tip = tip
      BY <1>1, <2>2 DEF Sync!Workflows
    <2> HIDE DEF new, fl
    <2>5. gl = new /\ flow' \in [SyncPanels -> [Slots -> Sync!Workflows]]
          /\ (\A j \in SyncPanels : j # i => flow'[j] = flow[j])
          /\ (\A t \in Slots : t # s => flow'[i][t] = flow[i][t])
      BY <2>1, <2>3, <2>4
    <2> QED BY <2>4, <2>5 DEF tip
  <1> HIDE DEF fl, gl
  <1>3. Sync!TypeOK' BY <1>2 DEF SyncInv, Sync!TypeOK, GitMoves
  <1>4. Moves BY DEF Moves, GitMoves
  <1>5. SendOk(flow[i][s], panel[i])' BY <1>1, <1>2, <1>4 DEF SendOk, Moves, GitMoves, fl, gl
  <1>6. ReceiveOk(s, flow[i][s], panel[i])'
    BY <1>1, <1>2 DEF ReceiveOk, Fetched, Contained, GitMoves, fl, gl
  <1>7. LookOk(panel[i])' /\ panel'[i].look.by # s /\ i <= mounted
    <2>1. LookOk(panel[i]) /\ panel[i].look.by # s BY <1>1, SameLook DEF Awaits, fl
    <2>2. i <= mounted BY Opened
    <2> QED BY <2>1, <2>2 DEF LookOk
  <1> HIDE DEF Moves
  <1>8. panel' = panel /\ mounted' = mounted /\ flow'[i][s].step = "answered" BY <1>2 DEF gl
  <1> QED BY <1>2, <1>3, <1>4, <1>5, <1>6, <1>7, <1>8, StepAt

LEMMA GitRunsKeeps ==
    ASSUME Sync!SyncConstants, SyncInv, NEW i \in SyncPanels, NEW s \in Slots, Sync!GitRuns(i, s)
    PROVE  SyncInv'
  <1> DEFINE fl == flow[i][s]
             git == fl.file = "git"
  <1>1. fl.step = "git" /\ UNCHANGED <<local, stored, panel, mounted, made, inputs>>
    BY DEF Sync!GitRuns
  <1>2. /\ Sync!Fault => errors' \in 0..MaxFaults
        /\ errors' = errors => errors' \in 0..MaxFaults
    BY StepsCounted DEF SyncInv
  <1>3. CASE fl.action = "fetch" /\ Sync!Fetch(i, s) /\ errors' = errors
    BY <1>1, <1>2, <1>3, FetchMoves, AnswerStep
  <1>4. CASE fl.action = "pull" /\ Sync!Pull(i, s) /\ errors' = errors
    <2>1. PICK ok \in BOOLEAN : Sync!Answers(i, s, ok) /\ (ok => ToSet(tracked) \subseteq ToSet(head'))
      BY <1>4, PullMoves
    <2> QED BY <1>1, <1>2, <1>4, <2>1, PullMoves, AnswerStep
  <1>5. ASSUME NEW up \in BOOLEAN, NEW ok \in BOOLEAN, fl.action = "push", Sync!Push(i, s, up, ok),
               Sync!Fault \/ errors' = errors
        PROVE  SyncInv'
    <2>1. PICK told \in BOOLEAN :
             Sync!Answers(i, s, told) /\ (told => ToSet(head') \subseteq ToSet(remote'))
      BY <1>5, PushMoves
    <2>2. GitMoves /\ file["git"] \in ToSet(head') BY <1>5, PushMoves
    <2>3. told => ToSet(head) \cup {file["git"]} \subseteq ToSet(remote') BY <2>1, <2>2 DEF GitMoves
    <2> QED BY <1>1, <1>2, <1>5, <2>1, <2>2, <2>3, AnswerStep
  <1>6. CASE /\ Sync!Fault \/ errors' = errors
             /\ Sync!Answers(i, s, FALSE) /\ tracked' \in {tracked, remote}
             /\ UNCHANGED <<file, head, upstream, remote, lost>>
    BY <1>1, <1>2, <1>6, FailureMoves, AnswerStep
  <1>7. \/ fl.action = "fetch" /\ Sync!Fetch(i, s) /\ errors' = errors
        \/ fl.action = "pull" /\ Sync!Pull(i, s) /\ errors' = errors
        \/ fl.action = "push" /\ Sync!Push(i, s, TRUE, TRUE) /\ errors' = errors
        \/ fl.action = "push" /\ Sync!Fault /\ (\E up \in BOOLEAN : Sync!Push(i, s, up, FALSE))
        \/ /\ Sync!Fault \/ errors' = errors
           /\ Sync!Answers(i, s, FALSE) /\ tracked' \in {tracked, remote}
           /\ UNCHANGED <<file, head, upstream, remote, lost>>
    BY DEF Sync!GitRuns
  <1> QED BY <1>3, <1>4, <1>5, <1>6, <1>7

-----------------------------------------------------------------------------
(* The promise.                                                             *)

LEMMA SyncBegins ==
    ASSUME Sync!SyncConstants, Sync!Init
    PROVE  SyncInv
  <1>1. 0 \in Sync!Versions /\ None \notin Sync!Versions /\ "git" \in Sync!Files
    BY DEF Sync!SyncConstants, Sync!Versions, Sync!Files
  <1>2. Sync!TypeOK
    <2>1. /\ local \in Sync!Versions /\ lost \subseteq Sync!Versions /\ stored \in Sync!Files
          /\ mounted \in SyncPanels /\ upstream \in BOOLEAN /\ made \in Sync!Versions
          /\ inputs \in 0..MaxInputs /\ errors \in 0..MaxFaults
      BY <1>1 DEF Sync!SyncConstants, Sync!Init
    <2>2. file \in [Sync!Files -> Sync!Versions \cup {None}] /\ file["git"] # None
      BY <1>1 DEF Sync!Init
    <2>3. \A h \in {head, tracked, remote} : h \in Seq(Sync!Versions) /\ h # <<>>
      <3>1. <<0>> \in Seq(Sync!Versions) /\ <<0>> # <<>> BY <1>1
      <3> QED BY <3>1 DEF Sync!Init
    <2>4. flow \in [SyncPanels -> [Slots -> Sync!Workflows]]
      <3>1. Sync!NoFlow \in Sync!Workflows BY WorkflowRecords
      <3> HIDE DEF Sync!NoFlow
      <3> QED BY <3>1 DEF Sync!Init
    <2>5. panel \in [SyncPanels -> Sync!PanelStates]
      <3>1. /\ Sync!Glance(stored) \in [by : Slots \cup {Sync!Display, None}, file : Sync!Files, seen : Sync!Info \cup {None}]
            /\ Sync!NoLook \in [by : Slots \cup {Sync!Display, None}, file : Sync!Files, seen : Sync!Info \cup {None}]
        BY <2>1 DEF Sync!Glance, Sync!NoLook, Sync!Files
      <3> HIDE DEF Sync!Glance, Sync!NoLook
      <3> QED BY <2>1, <3>1 DEF Sync!Init, Sync!PanelStates
    <2> QED BY <2>1, <2>2, <2>3, <2>4, <2>5 DEF Sync!TypeOK
  <1>3. ASSUME NEW i \in SyncPanels, NEW s \in Slots
        PROVE  flow[i][s] = Sync!NoFlow
    BY DEF Sync!Init, Sync!NoFlow
  <1>4. ASSUME NEW i \in SyncPanels
        PROVE  LookOk(panel[i]) /\ panel[i].look.by \notin Slots
    <2>1. /\ panel[i].file = stored /\ panel[i].info = None
          /\ panel[i].look = IF i = 1 THEN Sync!Glance(stored) ELSE Sync!NoLook
      BY DEF Sync!Init
    <2>2. /\ Sync!Glance(stored).by = Sync!Display /\ Sync!Glance(stored).file = stored
          /\ Sync!Glance(stored).seen = None /\ Sync!NoLook.by = None
      BY DEF Sync!Glance, Sync!NoLook
    <2> HIDE DEF Sync!Glance, Sync!NoLook
    <2> QED BY <2>1, <2>2, WhoLooks DEF LookOk
  <1> HIDE DEF Sync!NoFlow
  <1>5. Carries /\ Unopened /\ Looks /\ FlowsOk
    BY <1>3, <1>4, WorkflowRecords, IdleOk DEF Carries, Unopened, Looks, FlowsOk
  <1> QED BY <1>2, <1>5 DEF SyncInv, Sync!Init

LEMMA SyncSteps ==
    ASSUME Sync!SyncConstants, SyncInv, [Sync!Next]_(Sync!vars)
    PROVE  SyncInv'
  <1>1. CASE Sync!LocalEdit \/ Sync!OtherPush BY <1>1, WorldKeeps
  <1>2. CASE Sync!CheckStatus BY <1>2, CheckStatusKeeps
  <1>3. CASE Sync!Reopen BY <1>3, ReopenKeeps
  <1>4. CASE \E f \in Sync!Files : Sync!EditSettings(f) BY <1>4, EditSettingsKeeps
  <1>5. CASE \E s \in Slots, kind \in Sync!Kinds : Sync!Confirm(s, kind) BY <1>5, ConfirmKeeps
  <1>6. CASE \E i \in SyncPanels : Sync!InspectRuns(i) \/ Sync!InspectAnswered(i)
    BY <1>6, InspectRunsKeeps, InspectAnsweredKeeps
  <1>7. CASE \E i \in SyncPanels, s \in Slots :
                \/ Sync!ReadsRegistries(i, s) \/ Sync!Encrypts(i, s) \/ Sync!Writes(i, s)
                \/ Sync!Credential(i, s) \/ Sync!GitRuns(i, s) \/ Sync!GitAnswered(i, s)
                \/ Sync!Superseded(i, s) \/ Sync!LoadsFile(i, s) \/ Sync!Imports(i, s)
    BY <1>7, ReadsRegistriesKeeps, EncryptsKeeps, WritesKeeps, CredentialKeeps, GitRunsKeeps,
      GitAnsweredKeeps, SupersededKeeps, LoadsFileKeeps, ImportsKeeps
  <1>8. CASE UNCHANGED Sync!vars
    <2>1. Sync!TypeOK' BY <1>8 DEF SyncInv, Sync!TypeOK, Sync!vars, Sync!gitVars
    <2>2. Moves BY <1>8 DEF SyncInv, Moves, Sync!vars, Sync!gitVars
    <2> QED BY <1>8, <2>1, <2>2, DataKeeps DEF Sync!vars
  <1> QED BY <1>1, <1>2, <1>3, <1>4, <1>5, <1>6, <1>7, <1>8 DEF Sync!Next

\* The file, the clone, the remote, the panels and their workflows have their types.
THEOREM SyncTypeCorrect == ASSUME Sync!SyncConstants PROVE Sync!Spec => []Sync!TypeOK
  <1>1. SyncInv => Sync!TypeOK BY DEF SyncInv
  <1> QED BY <1>1, SyncBegins, SyncSteps, PTL DEF Sync!Spec

\* Whatever other workflows, panels and computers do between its calls: a send that says
\* so has published what it read, and a receive that says so is not older than what it
\* fetched.
THEOREM SyncStaysExact == ASSUME Sync!SyncConstants PROVE Sync!Spec => SyncIsExact
  <1>1. ASSUME SyncInv, [Sync!Next]_(Sync!vars)
        PROVE  [\A i \in DOMAIN flow : \A s \in DOMAIN flow[i] :
                  LET fl == flow[i][s] IN
                  fl.kind = "send" /\ fl.step = "answered" /\ fl.ok /\ flow'[i][s].step = "idle"
                      => fl.astray \/ fl.content \in lost \/ fl.content \in ToSet(remote)]_flow
    <2>1. \A i \in DOMAIN flow : \A s \in DOMAIN flow[i] : i \in SyncPanels /\ s \in Slots
      BY <1>1 DEF SyncInv, Sync!TypeOK
    <2> QED BY <1>1, <2>1, Known DEF SendOk
  <1>2. ASSUME SyncInv, [Sync!Next]_(Sync!vars)
        PROVE  [\A i \in DOMAIN flow : \A s \in DOMAIN flow[i] :
                  LET fl == flow[i][s] IN
                  fl.kind = "receive" /\ fl.step = "import" /\ fl.action \in {"fetch", "pull"}
                      => fl.astray \/ ~upstream \/ fl.tip \in ToSet(head)]_local
    <2>1. \A i \in DOMAIN flow : \A s \in DOMAIN flow[i] : i \in SyncPanels /\ s \in Slots
      BY <1>2 DEF SyncInv, Sync!TypeOK
    <2> QED BY <1>2, <2>1, Known DEF ReceiveOk, Contained
  <1> QED
    BY <1>1, <1>2, SyncBegins, SyncSteps, PTL DEF Sync!Spec, SyncIsExact, SentIsPublished,
      ReceivedIsCurrent
=============================================================================
