----------------------- MODULE ProjectRegistriesProofs -----------------------
(***************************************************************************)
(* Proofs about ProjectRegistries: no save drops a committed edit and no    *)
(* answer takes an edit off a board, for any number of windows, views,      *)
(* edits, queued writes, answers and events, and whatever fails.            *)
(***************************************************************************)
EXTENDS ProjectRegistries, TLAPS

-----------------------------------------------------------------------------
(* Boards: what is known of edits.                                          *)

\* Nobody has seen x in the row, in an answer or on a board.
Unseen(x) ==
    /\ x \notin Content(row)
    /\ \A u \in Windows :
          /\ x \notin board[u].registry
          /\ \A v \in 1..MaxVisits : x \notin accepted[u][v]
          /\ \A i \in DOMAIN writes[u] : x \notin Content(writes[u][i].seen)
          /\ \A i \in DOMAIN answers[u] :
                answers[u][i].result = "ok" => x \notin answers[u][i].registry
\* Nothing that window u works on contains x.
Strange(x, u) ==
    /\ \A i \in DOMAIN writes[u] :
          writes[u][i].kind # "promotion" => x \notin writes[u][i].next
    /\ board[u].draft # Unset => x \notin board[u].draft.registry
    /\ task[u] # Unset => x \notin task[u].base
Clear(x) == Unseen(x) /\ \A u \in Windows : Strange(x, u)
\* What another view of window w works on is not in the draft.
Aside(x, w, v) == v # board[w].view /\ board[w].draft # Unset => x \notin board[w].draft.registry
\* Only view v of window w works on x.
Private(x, w, v) == Unseen(x) /\ Aside(x, w, v) /\ \A u \in Windows \ {w} : Strange(x, u)

\* x was the row before y was: what y lacks of it has left the row.
Before(x, y) == x \cap Content(row) \subseteq y /\ (x = Content(row) => y = Content(row))
\* What may be saved by view v of window w where base was.
Fits(w, v, base, next) ==
    Content(row) = base => base \subseteq next /\ \A x \in next \ base : Private(x, w, v)

Owns(w, i) == writes[w][i].kind = "write" /\ writes[w][i].view = board[w].view

OpOk(o, i, visits) ==
    /\ o.phase # "queued" => i = 1
    /\ o.phase = "confirming" => o.kind = "import"
    /\ o.kind = "promotion" => /\ o.view = 0 /\ o.next = Legacy /\ Legacy # {} /\ o.guard = Unset
                               /\ o.phase = "checked" => o.seen = Unset
    /\ o.kind = "import" => o.by # 0 /\ o.view = 0 /\ o.next = {o.by} /\ o.guard = Unset
    /\ o.kind = "write" => o.by # 0 /\ o.view \in 1..visits
    /\ o.kind # "promotion" => o.by \in o.next
    /\ o.guard # Unset => o.next = o.guard \cup {o.by}
OpsOk(w) == \A i \in DOMAIN writes[w] : OpOk(writes[w][i], i, board[w].visits)
\* At most one answer is of an operation, of the one at work.
DoneOk(w) ==
    \A i \in DOMAIN answers[w] : answers[w][i].done =>
        /\ writes[w] # <<>> /\ Op(w).phase = "answered"
        /\ answers[w][i].result = "ok" /\ Op(w).kind # "promotion"
              => answers[w][i].registry = Op(w).next
        /\ answers[w][i].reader = Op(w).reader
        /\ \A j \in DOMAIN answers[w] : answers[w][j].done => i = j
ViewOk(w) ==
    /\ board[w].view \in {0, board[w].visits}
    /\ \A v \in 1..MaxVisits : v > board[w].visits => accepted[w][v] = {}
    /\ task[w] # Unset => task[w].view <= board[w].visits
    /\ "reload" \in board[w].reads => Shown(w) /\ board[w].reloading

\* A reload waits for the writes of its view, and none joins them.
Reloads(w) == Shown(w) /\ board[w].reloading /\ \A k \in DOMAIN writes[w] : ~Owns(w, k)
ReloadOk(w) ==
    /\ \A i \in DOMAIN answers[w] : answers[w][i].reader = "reload" =>
          /\ Reloads(w)
          /\ \A j \in DOMAIN answers[w] : answers[w][j].reader = "reload" => i = j
          /\ ~answers[w][i].done => \A j \in DOMAIN writes[w] : writes[w][j].reader # "reload"
    /\ \A i \in DOMAIN writes[w] : writes[w][i].reader = "reload" =>
          /\ Reloads(w) /\ writes[w][i].kind = "promotion"
          /\ \A j \in DOMAIN writes[w] : writes[w][j].reader = "reload" => i = j

QueueTypes == writes \in [Windows -> Seq(Operation)] /\ answers \in [Windows -> Seq(Answers)]
OrderInv ==
    /\ TypeOK
    /\ \A w \in Windows : OpsOk(w) /\ DoneOk(w) /\ ViewOk(w) /\ ReloadOk(w)

-----------------------------------------------------------------------------
(* Boards: what a step does to the queues of its window.                    *)

\* A step of window w leaves the others alone.
OneWindow(w) ==
    \A u \in Windows \ {w} :
        /\ board'[u] = board[u] /\ accepted'[u] = accepted[u] /\ task'[u] = task[u]
        /\ writes'[u] = writes[u] /\ answers'[u] = answers[u]

SameOp(o, p) ==
    /\ p.kind = o.kind /\ p.by = o.by /\ p.view = o.view /\ p.next = o.next /\ p.guard = o.guard
    /\ p.reader \in {o.reader, Unset}
\* p is q without its first n operations, but for readers and for what the first one is at.
Drops(q, p, n) ==
    /\ \A i \in DOMAIN p :
          /\ i + n \in DOMAIN q /\ SameOp(q[i + n], p[i])
          /\ i + n > 1 => p[i].phase = q[i + n].phase /\ p[i].seen = q[i + n].seen
    /\ \A i \in DOMAIN q : i > n => i - n \in DOMAIN p
\* The first operation is at what it was at.
Rests(q, p) == q # <<>> => p[1].phase = q[1].phase /\ p[1].seen = q[1].seen
\* c is a without its first n answers, but for readers.
Passes(a, c, n) ==
    /\ \A i \in DOMAIN c :
          /\ i + n \in DOMAIN a
          /\ c[i].done = a[i + n].done /\ c[i].result = a[i + n].result
          /\ c[i].registry = a[i + n].registry /\ c[i].reader \in {a[i + n].reader, Unset}
    /\ \A i \in DOMAIN a : i > n => i - n \in DOMAIN c
\* t is s with x at its end.
Adds(s, t, x) ==
    /\ DOMAIN t = DOMAIN s \cup {Len(s) + 1} /\ t[Len(s) + 1] = x
    /\ \A i \in DOMAIN s : t[i] = s[i] /\ i < Len(s) + 1

LEMMA SeqDomain == ASSUME NEW S, NEW s \in Seq(S)
                   PROVE  /\ DOMAIN s = 1..Len(s) /\ Len(s) \in Nat /\ \A i \in DOMAIN s : s[i] \in S
                          /\ s # <<>> => 1 \in DOMAIN s
  OBVIOUS

LEMMA Appended ==
    ASSUME NEW S, NEW s \in Seq(S), NEW x \in S
    PROVE  Append(s, x) \in Seq(S) /\ Adds(s, Append(s, x), x)
  <1>1. /\ Append(s, x) \in Seq(S) /\ Len(Append(s, x)) = Len(s) + 1 /\ Append(s, x)[Len(s) + 1] = x
        /\ \A i \in 1..Len(s) : Append(s, x)[i] = s[i]
    OBVIOUS
  <1>2. DOMAIN Append(s, x) = 1..(Len(s) + 1) /\ DOMAIN s = 1..Len(s) /\ Len(s) \in Nat OBVIOUS
  <1>3. 1..(Len(s) + 1) = 1..Len(s) \cup {Len(s) + 1} /\ \A i \in 1..Len(s) : i < Len(s) + 1 BY <1>2
  <1> QED BY <1>1, <1>2, <1>3 DEF Adds

LEMMA Popped ==
    ASSUME NEW S, NEW s \in Seq(S), s # <<>>
    PROVE  /\ Tail(s) \in Seq(S) /\ Head(s) = s[1] /\ s[1] \in S /\ 1 \in DOMAIN s
           /\ \A i \in DOMAIN Tail(s) : i \in Nat \ {0} /\ i + 1 \in DOMAIN s /\ Tail(s)[i] = s[i + 1]
           /\ \A i \in DOMAIN s : i > 1 => i - 1 \in DOMAIN Tail(s)
  <1>1. /\ Tail(s) \in Seq(S) /\ Head(s) = s[1] /\ s[1] \in S /\ Len(s) \in Nat \ {0}
        /\ Len(Tail(s)) = Len(s) - 1 /\ \A i \in 1..(Len(s) - 1) : Tail(s)[i] = s[i + 1]
    OBVIOUS
  <1>2. DOMAIN Tail(s) = 1..(Len(s) - 1) /\ DOMAIN s = 1..Len(s) BY <1>1
  <1> QED BY <1>1, <1>2

LEMMA UnreadOps ==
    ASSUME NEW q \in Seq(Operation), NEW R
    PROVE  /\ Unread(q, R) \in Seq(Operation) /\ DOMAIN Unread(q, R) = DOMAIN q
           /\ Drops(q, Unread(q, R), 0) /\ Rests(q, Unread(q, R))
           /\ \A i \in DOMAIN q : /\ SameOp(q[i], Unread(q, R)[i])
                                  /\ Unread(q, R)[i].phase = q[i].phase
                                  /\ Unread(q, R)[i].seen = q[i].seen
                                  /\ Unread(q, R)[i].reader =
                                        IF q[i].reader \in R THEN Unset ELSE q[i].reader
  <1> DEFINE u == Unread(q, R)
  <1>1. DOMAIN q = 1..Len(q) /\ Len(q) \in Nat /\ \A i \in DOMAIN q : q[i] \in Operation OBVIOUS
  <1>2. DOMAIN u = DOMAIN q BY DEF Unread
  <1>3. ASSUME NEW i \in DOMAIN q
        PROVE  /\ u[i] \in Operation /\ SameOp(q[i], u[i]) /\ u[i].phase = q[i].phase
               /\ u[i].seen = q[i].seen
               /\ u[i].reader = IF q[i].reader \in R THEN Unset ELSE q[i].reader
    <2>1. u[i] = IF q[i].reader \in R THEN [q[i] EXCEPT !.reader = Unset] ELSE q[i] BY DEF Unread
    <2> HIDE DEF u
    <2> QED BY <1>1, <2>1 DEF Operation, SameOp
  <1>4. u \in Seq(Operation)
    <2>1. u = [i \in 1..Len(q) |-> u[i]] BY <1>1 DEF Unread
    <2> HIDE DEF u
    <2> QED BY <1>1, <1>2, <1>3, <2>1
  <1> HIDE DEF u
  <1>5. Drops(q, u, 0) BY <1>1, <1>2, <1>3 DEF Drops
  <1>6. Rests(q, u) BY <1>1, <1>3 DEF Rests
  <1> QED BY <1>2, <1>3, <1>4, <1>5, <1>6 DEF u

LEMMA UnreadAnswers ==
    ASSUME NEW a \in Seq(Answers), NEW R
    PROVE  /\ Unread(a, R) \in Seq(Answers) /\ DOMAIN Unread(a, R) = DOMAIN a
           /\ Passes(a, Unread(a, R), 0)
           /\ \A i \in DOMAIN a : /\ Unread(a, R)[i].done = a[i].done
                                  /\ Unread(a, R)[i].result = a[i].result
                                  /\ Unread(a, R)[i].registry = a[i].registry
                                  /\ Unread(a, R)[i].reader =
                                        IF a[i].reader \in R THEN Unset ELSE a[i].reader
  <1> DEFINE u == Unread(a, R)
  <1>1. DOMAIN a = 1..Len(a) /\ Len(a) \in Nat /\ \A i \in DOMAIN a : a[i] \in Answers OBVIOUS
  <1>2. DOMAIN u = DOMAIN a BY DEF Unread
  <1>3. ASSUME NEW i \in DOMAIN a
        PROVE  /\ u[i] \in Answers /\ u[i].done = a[i].done /\ u[i].result = a[i].result
               /\ u[i].registry = a[i].registry
               /\ u[i].reader = IF a[i].reader \in R THEN Unset ELSE a[i].reader
    <2>1. u[i] = IF a[i].reader \in R THEN [a[i] EXCEPT !.reader = Unset] ELSE a[i] BY DEF Unread
    <2> HIDE DEF u
    <2> QED BY <1>1, <2>1 DEF Answers
  <1>4. u \in Seq(Answers)
    <2>1. u = [i \in 1..Len(a) |-> u[i]] BY <1>1 DEF Unread
    <2> HIDE DEF u
    <2> QED BY <1>1, <1>2, <1>3, <2>1
  <1> HIDE DEF u
  <1>5. Passes(a, u, 0) BY <1>1, <1>2, <1>3 DEF Passes
  <1> QED BY <1>2, <1>3, <1>4, <1>5 DEF u

-----------------------------------------------------------------------------
(* Boards: what an answer does to a board.                                  *)

LEMMA Receives ==
    ASSUME NEW b \in Board, NEW r \in Readers \cup {Unset}, NEW ok \in BOOLEAN, NEW g \in Registry,
           RegistryConstants
    PROVE  LET c == Receive(b, r, ok, g) IN
           /\ c \in Board /\ c.view = b.view /\ c.visits = b.visits
           /\ c.registry = IF r # Unset /\ ok THEN g ELSE b.registry
           /\ c.draft = IF r = "reload" /\ ok THEN Unset ELSE b.draft
           /\ c.reloading = (b.reloading /\ r # "reload")
  <1>1. b.registry \in Registry /\ b.draft \in {Unset} \cup Drafts /\ Unset \notin Readers
    BY DEF Board, RegistryConstants
  <1>2. CASE r = Unset
    <2>2. Unset # "reload" /\ Unset # "initial" /\ Unset # "subscription" BY <1>1 DEF Readers
    <2>1. Receive(b, r, ok, g) = b BY <1>2, <2>2 DEF Receive
    <2> QED BY <1>2, <2>1, <2>2 DEF Board
  <1>3. CASE r = "initial" BY <1>1, <1>3 DEF Receive, Readers, Board
  <1>4. CASE r = "subscription" BY <1>1, <1>4 DEF Receive, Readers, Board, Publish
  <1>5. CASE r = "reload" BY <1>1, <1>5 DEF Receive, Readers, Board
  <1> QED BY <1>2, <1>3, <1>4, <1>5 DEF Readers

LEMMA Dispatches ==
    ASSUME NEW b \in Board, NEW g \in Registry
    PROVE  LET c == Dispatch(b, g) IN
           /\ c \in Board /\ c.view = b.view /\ c.visits = b.visits
           /\ c.registry = IF b.view = 0 THEN b.registry ELSE g
           /\ c.draft = b.draft /\ c.reloading = b.reloading
  BY DEF Board, Dispatch, Publish

\* The draft of the view that saved, and of the write that ended.
Mine(b, op) == b.view = op.view /\ b.draft # Unset /\ b.draft.by = op.by

LEMMA FeedsBack ==
    ASSUME RegistryConstants, NEW b \in Board, NEW op \in Operation,
           NEW result \in {"ok", "unread", "unwritten", "conflict"}
    PROVE  LET c == Feedback(b, op, result) IN
           /\ c \in Board /\ c.view = b.view /\ c.visits = b.visits
           /\ c.registry = b.registry /\ c.reloading = b.reloading
           /\ ~Mine(b, op) => c.draft = b.draft
           /\ Mine(b, op) /\ result = "ok" => c.draft = Unset
           /\ Mine(b, op) /\ result # "ok" =>
                 c.draft.by = 0 /\ c.draft.registry = b.draft.registry
  <1> DEFINE d == IF ~Mine(b, op) THEN b.draft
                  ELSE IF result = "ok" THEN Unset ELSE [b.draft EXCEPT !.by = 0]
  <1>1. b.draft \in {Unset} \cup Drafts BY DEF Board
  <1>2. d \in {Unset} \cup Drafts BY <1>1 DEF Mine, Drafts, RegistryConstants
  <1>3. Feedback(b, op, result) =
           [b EXCEPT !.conflicted = @ \/ (result = "conflict" /\ b.view = op.view),
                     !.ready = @ /\ ~(Mine(b, op) /\ result = "unread"), !.draft = d]
    BY DEF Feedback, Mine
  <1>4. Mine(b, op) /\ result # "ok" => d.by = 0 /\ d.registry = b.draft.registry
    BY <1>1 DEF Mine, Drafts
  <1>5. (b.conflicted \/ (result = "conflict" /\ b.view = op.view)) \in BOOLEAN
        /\ (b.ready /\ ~(Mine(b, op) /\ result = "unread")) \in BOOLEAN
    BY DEF Board
  <1> HIDE DEF d
  <1>6. Feedback(b, op, result) \in Board BY <1>2, <1>3, <1>5 DEF Board
  <1>7. Feedback(b, op, result).draft = d BY <1>3 DEF Board
  <1>8. LET c == Feedback(b, op, result) IN
        /\ c.view = b.view /\ c.visits = b.visits
        /\ c.registry = b.registry /\ c.reloading = b.reloading
    BY <1>3 DEF Board
  <1> QED BY <1>4, <1>6, <1>7, <1>8 DEF d, Mine

-----------------------------------------------------------------------------
(* Boards: the order of operations and answers.                             *)

\* A reload in flight holds up the writes of its view.
NoReloads(w) ==
    /\ \A i \in DOMAIN answers[w] : answers[w][i].reader # "reload"
    /\ \A i \in DOMAIN writes[w] : writes[w][i].reader # "reload"

LEMMA ReloadsWait == ASSUME NEW w \in Windows, ReloadOk(w) PROVE Reloads(w) \/ NoReloads(w)
  BY DEF ReloadOk, NoReloads

LEMMA OpsDrop ==
    ASSUME NEW w \in Windows, OrderInv, QueueTypes', NEW n \in {0, 1}, Drops(writes[w], writes'[w], n),
           n = 0 => Rests(writes[w], writes'[w]),
           board'[w].visits >= board[w].visits, board'[w].visits \in Nat
    PROVE  OpsOk(w)'
  <1> SUFFICES ASSUME NEW i \in DOMAIN writes'[w]
               PROVE  OpOk(writes'[w][i], i, board'[w].visits)
    BY DEF OpsOk
  <1>1. DOMAIN writes[w] = 1..Len(writes[w]) /\ Len(writes[w]) \in Nat
        /\ writes[w] \in Seq(Operation) /\ OpsOk(w) /\ board[w].visits \in Nat
    BY DEF OrderInv, TypeOK, Board
  <1>2. DOMAIN writes'[w] = 1..Len(writes'[w]) /\ Len(writes'[w]) \in Nat BY DEF QueueTypes
  <1>3. i \in Nat \ {0} /\ i + n \in DOMAIN writes[w] /\ SameOp(writes[w][i + n], writes'[w][i])
        /\ OpOk(writes[w][i + n], i + n, board[w].visits)
    BY <1>1, <1>2 DEF Drops, OpsOk
  <1>4. writes'[w][i].phase = writes[w][i + n].phase /\ writes'[w][i].seen = writes[w][i + n].seen
    BY <1>3 DEF Drops, Rests
  <1>5. i + n = 1 => i = 1 BY <1>3
  <1>6. 1..board[w].visits \subseteq 1..board'[w].visits BY <1>1
  <1> QED BY <1>3, <1>4, <1>5, <1>6 DEF OpOk, SameOp

LEMMA OpsAdd ==
    ASSUME NEW w \in Windows, OrderInv, QueueTypes', NEW o, Adds(writes[w], writes'[w], o),
           board'[w].visits = board[w].visits, OpOk(o, 0, board[w].visits), o.phase = "queued"
    PROVE  OpsOk(w)'
  <1>1. \A i \in DOMAIN writes[w] : OpOk(writes[w][i], i, board[w].visits)
    BY DEF OrderInv, OpsOk, TypeOK
  <1>2. OpOk(o, Len(writes[w]) + 1, board[w].visits) BY DEF OpOk
  <1> QED BY <1>1, <1>2 DEF OpsOk, Adds

LEMMA ReloadKeeps ==
    ASSUME RegistryConstants, NEW w \in Windows, OrderInv, QueueTypes',
           NEW n \in {0, 1}, NEW m \in {0, 1},
           Drops(writes[w], writes'[w], n), Passes(answers[w], answers'[w], m),
           Reloads(w) /\ ~NoReloads(w)' => Reloads(w)'
    PROVE  ReloadOk(w)'
  <1>1. ReloadOk(w) /\ writes[w] \in Seq(Operation) /\ answers[w] \in Seq(Answers)
        /\ writes'[w] \in Seq(Operation) /\ answers'[w] \in Seq(Answers)
    BY DEF OrderInv, QueueTypes, TypeOK
  <1>2. Unset # "reload" BY DEF RegistryConstants, Readers
  <1>3. ASSUME NEW i \in DOMAIN answers'[w]
        PROVE  /\ i \in Int /\ i + m \in DOMAIN answers[w] /\ answers'[w][i].done = answers[w][i + m].done
               /\ answers'[w][i].reader = "reload" => answers[w][i + m].reader = "reload"
    BY <1>1, <1>2 DEF Passes
  <1>4. ASSUME NEW i \in DOMAIN writes'[w]
        PROVE  /\ i \in Int /\ i + n \in DOMAIN writes[w] /\ writes'[w][i].kind = writes[w][i + n].kind
               /\ writes'[w][i].reader = "reload" => writes[w][i + n].reader = "reload"
    BY <1>1, <1>2 DEF Drops, SameOp
  <1>5. NoReloads(w) => NoReloads(w)' BY <1>3, <1>4 DEF NoReloads
  <1>6. NoReloads(w)' \/ Reloads(w)' BY <1>1, <1>5, ReloadsWait
  <1>7. CASE NoReloads(w)' BY <1>7 DEF NoReloads, ReloadOk
  <1>8. CASE Reloads(w)'
    <2>1. ASSUME NEW i \in DOMAIN answers'[w], answers'[w][i].reader = "reload"
          PROVE  /\ \A j \in DOMAIN answers'[w] : answers'[w][j].reader = "reload" => i = j
                 /\ ~answers'[w][i].done => \A j \in DOMAIN writes'[w] : writes'[w][j].reader # "reload"
      <3>1. \A j \in DOMAIN answers'[w] : answers'[w][j].reader = "reload" => i + m = j + m
        BY <1>1, <1>3, <2>1 DEF ReloadOk
      <3>2. \A j \in DOMAIN answers'[w] : answers'[w][j].reader = "reload" => i = j
        BY <1>3, <2>1, <3>1
      <3> QED BY <1>1, <1>3, <1>4, <2>1, <3>2 DEF ReloadOk
    <2>2. ASSUME NEW i \in DOMAIN writes'[w], writes'[w][i].reader = "reload"
          PROVE  /\ writes'[w][i].kind = "promotion"
                 /\ \A j \in DOMAIN writes'[w] : writes'[w][j].reader = "reload" => i = j
      <3>1. \A j \in DOMAIN writes'[w] : writes'[w][j].reader = "reload" => i + n = j + n
        BY <1>1, <1>4, <2>2 DEF ReloadOk
      <3>2. \A j \in DOMAIN writes'[w] : writes'[w][j].reader = "reload" => i = j
        BY <1>4, <2>2, <3>1
      <3> QED BY <1>1, <1>4, <2>2, <3>2 DEF ReloadOk
    <2> QED BY <1>8, <2>1, <2>2 DEF ReloadOk
  <1> QED BY <1>6, <1>7, <1>8

-----------------------------------------------------------------------------
(* Boards: how the queues of a window change.                               *)

\* The answers of reads no longer count.
LEMMA Silenced ==
    ASSUME RegistryConstants, OrderInv, NEW w \in Windows, NEW R,
           writes' = [writes EXCEPT ![w] = Unread(@, R)],
           answers' = [answers EXCEPT ![w] = Unread(@, R)],
           board'[w].visits >= board[w].visits, board'[w].visits \in Nat,
           Reloads(w) /\ ~NoReloads(w)' => Reloads(w)'
    PROVE  /\ QueueTypes' /\ Drops(writes[w], writes'[w], 0) /\ Rests(writes[w], writes'[w])
           /\ Passes(answers[w], answers'[w], 0)
           /\ \A u \in Windows \ {w} : writes'[u] = writes[u] /\ answers'[u] = answers[u]
           /\ OpsOk(w)' /\ DoneOk(w)' /\ ReloadOk(w)'
  <1>1. /\ writes \in [Windows -> Seq(Operation)] /\ answers \in [Windows -> Seq(Answers)]
        /\ DoneOk(w)
    BY DEF OrderInv, TypeOK
  <1>2. writes[w] \in Seq(Operation) /\ answers[w] \in Seq(Answers) BY <1>1
  <1>3. writes'[w] = Unread(writes[w], R) /\ answers'[w] = Unread(answers[w], R) BY <1>1
  <1>4. Unread(writes[w], R) \in Seq(Operation) /\ Unread(answers[w], R) \in Seq(Answers)
    BY <1>2, UnreadOps, UnreadAnswers
  <1>5. QueueTypes' /\ \A u \in Windows \ {w} : writes'[u] = writes[u] /\ answers'[u] = answers[u]
    BY <1>1, <1>4 DEF QueueTypes
  <1>6. Drops(writes[w], writes'[w], 0) /\ Rests(writes[w], writes'[w])
        /\ Passes(answers[w], answers'[w], 0)
    BY <1>2, <1>3, UnreadOps, UnreadAnswers
  <1>7. OpsOk(w)' BY <1>5, <1>6, OpsDrop
  <1>8. ReloadOk(w)' BY <1>5, <1>6, ReloadKeeps
  <1>9. DoneOk(w)'
    <2>1. \A i \in DOMAIN answers[w] :
             /\ answers'[w][i].done = answers[w][i].done /\ answers'[w][i].result = answers[w][i].result
             /\ answers'[w][i].registry = answers[w][i].registry
             /\ answers'[w][i].reader = IF answers[w][i].reader \in R THEN Unset ELSE answers[w][i].reader
      BY <1>2, <1>3, UnreadAnswers
    <2>2. DOMAIN answers'[w] = DOMAIN answers[w] /\ DOMAIN writes'[w] = DOMAIN writes[w]
      BY <1>2, <1>3, UnreadAnswers, UnreadOps
    <2>3. writes[w] # <<>> =>
             /\ 1 \in DOMAIN writes[w]
             /\ writes'[w][1].phase = writes[w][1].phase /\ writes'[w][1].kind = writes[w][1].kind
             /\ writes'[w][1].next = writes[w][1].next
             /\ writes'[w][1].reader = IF writes[w][1].reader \in R THEN Unset ELSE writes[w][1].reader
      BY <1>2, <1>3, UnreadOps, SeqDomain DEF SameOp
    <2>4. 1 \in DOMAIN writes'[w] => writes'[w] # <<>> OBVIOUS
    <2> SUFFICES ASSUME NEW i \in DOMAIN answers'[w], answers'[w][i].done
                 PROVE  /\ writes'[w] # <<>> /\ Op(w)'.phase = "answered"
                        /\ answers'[w][i].result = "ok" /\ Op(w)'.kind # "promotion"
                              => answers'[w][i].registry = Op(w)'.next
                        /\ answers'[w][i].reader = Op(w)'.reader
                        /\ \A j \in DOMAIN answers'[w] : answers'[w][j].done => i = j
      BY DEF DoneOk
    <2>5. /\ writes[w] # <<>> /\ Op(w).phase = "answered"
          /\ answers[w][i].result = "ok" /\ Op(w).kind # "promotion" => answers[w][i].registry = Op(w).next
          /\ answers[w][i].reader = Op(w).reader
          /\ \A j \in DOMAIN answers[w] : answers[w][j].done => i = j
      BY <1>1, <2>1, <2>2 DEF DoneOk
    <2> QED BY <2>1, <2>2, <2>3, <2>4, <2>5 DEF Op
  <1> QED BY <1>5, <1>6, <1>7, <1>8, <1>9

LEMMA RestOfOps ==
    ASSUME NEW q \in Seq(Operation), q # <<>>, NEW R
    PROVE  Unread(Tail(q), R) \in Seq(Operation) /\ Drops(q, Unread(Tail(q), R), 1)
  <1> DEFINE t == Tail(q)
  <1>1. /\ t \in Seq(Operation)
        /\ \A i \in DOMAIN t : i \in Nat \ {0} /\ i + 1 \in DOMAIN q /\ t[i] = q[i + 1]
        /\ \A i \in DOMAIN q : i > 1 => i - 1 \in DOMAIN t
    BY Popped
  <1> HIDE DEF t
  <1> DEFINE u == Unread(t, R)
  <1>2. u \in Seq(Operation) /\ DOMAIN u = DOMAIN t
        /\ \A i \in DOMAIN t : /\ SameOp(t[i], u[i]) /\ u[i].phase = t[i].phase
                                     /\ u[i].seen = t[i].seen
    BY <1>1, UnreadOps
  <1> HIDE DEF u
  <1>3. Drops(q, u, 1) BY <1>1, <1>2 DEF Drops
  <1> QED BY <1>2, <1>3 DEF u, t

LEMMA RestOfAnswers ==
    ASSUME NEW a \in Seq(Answers), a # <<>>, NEW R
    PROVE  /\ Unread(Tail(a), R) \in Seq(Answers) /\ Passes(a, Unread(Tail(a), R), 1)
           /\ \A i \in DOMAIN Unread(Tail(a), R) :
                 Unread(Tail(a), R)[i].reader = IF a[i + 1].reader \in R THEN Unset ELSE a[i + 1].reader
  <1> DEFINE t == Tail(a)
  <1>1. /\ t \in Seq(Answers)
        /\ \A i \in DOMAIN t : i \in Nat \ {0} /\ i + 1 \in DOMAIN a /\ t[i] = a[i + 1]
        /\ \A i \in DOMAIN a : i > 1 => i - 1 \in DOMAIN t
    BY Popped
  <1> HIDE DEF t
  <1> DEFINE u == Unread(t, R)
  <1>2. u \in Seq(Answers) /\ DOMAIN u = DOMAIN t
        /\ \A i \in DOMAIN t :
              /\ u[i].done = t[i].done /\ u[i].result = t[i].result
              /\ u[i].registry = t[i].registry
              /\ u[i].reader = IF t[i].reader \in R THEN Unset ELSE t[i].reader
    BY <1>1, UnreadAnswers
  <1> HIDE DEF u
  <1>3. Passes(a, u, 1) BY <1>1, <1>2 DEF Passes
  <1>4. \A i \in DOMAIN u : u[i].reader = IF a[i + 1].reader \in R THEN Unset ELSE a[i + 1].reader
    BY <1>1, <1>2
  <1> QED BY <1>2, <1>3, <1>4 DEF u, t

\* The answer of a read is taken.
LEMMA ReadTaken ==
    ASSUME RegistryConstants, OrderInv, NEW w \in Windows, NEW R,
           answers[w] # <<>>, ~answers[w][1].done,
           writes' = [writes EXCEPT ![w] = Unread(@, R)],
           answers' = [answers EXCEPT ![w] = Unread(Tail(@), R)],
           board'[w].visits = board[w].visits,
           Reloads(w) /\ ~NoReloads(w)' => Reloads(w)'
    PROVE  /\ QueueTypes' /\ Drops(writes[w], writes'[w], 0) /\ Rests(writes[w], writes'[w])
           /\ Passes(answers[w], answers'[w], 1)
           /\ \A u \in Windows \ {w} : writes'[u] = writes[u] /\ answers'[u] = answers[u]
           /\ OpsOk(w)' /\ DoneOk(w)' /\ ReloadOk(w)'
  <1>1. /\ writes \in [Windows -> Seq(Operation)] /\ answers \in [Windows -> Seq(Answers)]
        /\ DoneOk(w) /\ board[w].visits \in Nat
    BY DEF OrderInv, TypeOK, Board
  <1>2. writes[w] \in Seq(Operation) /\ answers[w] \in Seq(Answers) BY <1>1
  <1>3. writes'[w] = Unread(writes[w], R) /\ answers'[w] = Unread(Tail(answers[w]), R) BY <1>1
  <1>4. Unread(writes[w], R) \in Seq(Operation) /\ Unread(Tail(answers[w]), R) \in Seq(Answers)
    BY <1>2, UnreadOps, RestOfAnswers
  <1>5. QueueTypes' /\ \A u \in Windows \ {w} : writes'[u] = writes[u] /\ answers'[u] = answers[u]
    BY <1>1, <1>4 DEF QueueTypes
  <1>6. Drops(writes[w], writes'[w], 0) /\ Rests(writes[w], writes'[w])
        /\ Passes(answers[w], answers'[w], 1)
    BY <1>2, <1>3, UnreadOps, RestOfAnswers
  <1>7. OpsOk(w)' BY <1>1, <1>5, <1>6, OpsDrop
  <1>8. ReloadOk(w)' BY <1>5, <1>6, ReloadKeeps
  <1>9. DoneOk(w)'
    <2>1. \A i \in DOMAIN answers'[w] :
             /\ i \in Nat /\ i + 1 \in DOMAIN answers[w] /\ answers'[w][i].done = answers[w][i + 1].done
             /\ answers'[w][i].result = answers[w][i + 1].result
             /\ answers'[w][i].registry = answers[w][i + 1].registry
             /\ answers'[w][i].reader = IF answers[w][i + 1].reader \in R THEN Unset
                                        ELSE answers[w][i + 1].reader
      <3>1. \A i \in DOMAIN answers'[w] :
               answers'[w][i].reader = IF answers[w][i + 1].reader \in R THEN Unset
                                       ELSE answers[w][i + 1].reader
        BY <1>2, <1>3, RestOfAnswers
      <3>2. \A i \in DOMAIN answers'[w] : i \in Nat BY <1>3, <1>4
      <3> QED BY <1>6, <3>1, <3>2 DEF Passes
    <2>2. DOMAIN writes'[w] = DOMAIN writes[w] BY <1>2, <1>3, UnreadOps
    <2>3. writes[w] # <<>> =>
             /\ 1 \in DOMAIN writes[w]
             /\ writes'[w][1].phase = writes[w][1].phase /\ writes'[w][1].kind = writes[w][1].kind
             /\ writes'[w][1].next = writes[w][1].next
             /\ writes'[w][1].reader = IF writes[w][1].reader \in R THEN Unset ELSE writes[w][1].reader
      BY <1>2, <1>3, UnreadOps, SeqDomain DEF SameOp
    <2>4. 1 \in DOMAIN writes'[w] => writes'[w] # <<>> OBVIOUS
    <2> SUFFICES ASSUME NEW i \in DOMAIN answers'[w], answers'[w][i].done
                 PROVE  /\ writes'[w] # <<>> /\ Op(w)'.phase = "answered"
                        /\ answers'[w][i].result = "ok" /\ Op(w)'.kind # "promotion"
                              => answers'[w][i].registry = Op(w)'.next
                        /\ answers'[w][i].reader = Op(w)'.reader
                        /\ \A j \in DOMAIN answers'[w] : answers'[w][j].done => i = j
      BY DEF DoneOk
    <2>5. /\ writes[w] # <<>> /\ Op(w).phase = "answered"
          /\ answers[w][i + 1].result = "ok" /\ Op(w).kind # "promotion"
                => answers[w][i + 1].registry = Op(w).next
          /\ answers[w][i + 1].reader = Op(w).reader
          /\ \A j \in DOMAIN answers[w] : answers[w][j].done => i + 1 = j
      BY <1>1, <2>1 DEF DoneOk
    <2>6. \A j \in DOMAIN answers'[w] : answers'[w][j].done => i = j BY <2>1, <2>5
    <2> QED BY <2>1, <2>2, <2>3, <2>4, <2>5, <2>6 DEF Op
  <1> QED BY <1>5, <1>6, <1>7, <1>8, <1>9

\* The answer of the operation at work is taken, and the next one begins.
LEMMA OperationTaken ==
    ASSUME RegistryConstants, OrderInv, NEW w \in Windows, NEW R,
           answers[w] # <<>>, answers[w][1].done,
           writes' = [writes EXCEPT ![w] = Unread(Tail(@), R)],
           answers' = [answers EXCEPT ![w] = Unread(Tail(@), R)],
           board'[w].visits = board[w].visits,
           Reloads(w) /\ ~NoReloads(w)' => Reloads(w)'
    PROVE  /\ QueueTypes' /\ Drops(writes[w], writes'[w], 1) /\ Passes(answers[w], answers'[w], 1)
           /\ \A u \in Windows \ {w} : writes'[u] = writes[u] /\ answers'[u] = answers[u]
           /\ OpsOk(w)' /\ DoneOk(w)' /\ ReloadOk(w)'
  <1>1. /\ writes \in [Windows -> Seq(Operation)] /\ answers \in [Windows -> Seq(Answers)]
        /\ DoneOk(w) /\ board[w].visits \in Nat
    BY DEF OrderInv, TypeOK, Board
  <1>2. writes[w] \in Seq(Operation) /\ answers[w] \in Seq(Answers) BY <1>1
  <1>3. writes'[w] = Unread(Tail(writes[w]), R) /\ answers'[w] = Unread(Tail(answers[w]), R) BY <1>1
  <1>10. 1 \in DOMAIN answers[w] /\ writes[w] # <<>> BY <1>1, <1>2, SeqDomain DEF DoneOk
  <1>4. Unread(Tail(writes[w]), R) \in Seq(Operation) /\ Unread(Tail(answers[w]), R) \in Seq(Answers)
    BY <1>2, <1>10, RestOfOps, RestOfAnswers
  <1>5. QueueTypes' /\ \A u \in Windows \ {w} : writes'[u] = writes[u] /\ answers'[u] = answers[u]
    BY <1>1, <1>4 DEF QueueTypes
  <1>6. Drops(writes[w], writes'[w], 1) /\ Passes(answers[w], answers'[w], 1)
    BY <1>2, <1>3, <1>10, RestOfOps, RestOfAnswers
  <1>7. OpsOk(w)' BY <1>1, <1>5, <1>6, OpsDrop
  <1>8. ReloadOk(w)' BY <1>5, <1>6, ReloadKeeps
  <1>9. DoneOk(w)'
    <2>1. \A i \in DOMAIN answers'[w] :
             i \in Nat \ {0} /\ i + 1 \in DOMAIN answers[w] /\ answers'[w][i].done = answers[w][i + 1].done
      BY <1>3, <1>4, <1>6, SeqDomain DEF Passes
    <2>2. \A j \in DOMAIN answers[w] : answers[w][j].done => 1 = j BY <1>1, <1>10 DEF DoneOk
    <2>3. \A i \in DOMAIN answers'[w] : ~answers'[w][i].done BY <2>1, <2>2
    <2> QED BY <2>3 DEF DoneOk
  <1> QED BY <1>5, <1>6, <1>7, <1>8, <1>9

Phases == {"queued", "checked", "confirming", "answered"}

Phasing(q, p, s) == [q EXCEPT ![1] = [@ EXCEPT !.phase = p, !.seen = s]]

LEMMA HeadPhased ==
    ASSUME RegistryConstants, NEW q \in Seq(Operation), q # <<>>,
           NEW p \in Phases, NEW s \in {Unset} \cup Registry
    PROVE  LET t == Phasing(q, p, s) IN
           /\ t \in Seq(Operation) /\ t # <<>> /\ DOMAIN t = DOMAIN q /\ Drops(q, t, 0)
           /\ t[1].phase = p /\ t[1].seen = s /\ t[1].reader = q[1].reader
           /\ SameOp(q[1], t[1])
           /\ \A i \in DOMAIN q : i # 1 => t[i] = q[i]
  <1> DEFINE t == Phasing(q, p, s)
  <1> DEFINE o == [q[1] EXCEPT !.phase = p, !.seen = s]
  <1>1. 1 \in DOMAIN q /\ q[1] \in Operation /\ DOMAIN q = 1..Len(q) /\ Len(q) \in Nat BY SeqDomain
  <1>2. o \in Operation /\ SameOp(q[1], o) /\ o.phase = p /\ o.seen = s /\ o.reader = q[1].reader
    BY <1>1 DEF Operation, SameOp, Phases
  <1> HIDE DEF o
  <1>3. t = [q EXCEPT ![1] = o] BY DEF o, Phasing
  <1> HIDE DEF t
  <1>4. t \in Seq(Operation) /\ DOMAIN t = DOMAIN q /\ t[1] = o
        /\ \A i \in DOMAIN q : i # 1 => t[i] = q[i]
    BY <1>1, <1>2, <1>3
  <1>5. t # <<>> BY <1>1, <1>4
  <1>6. \A i \in DOMAIN q : q[i] \in Operation /\ i \in Nat \ {0} BY <1>1
  <1>7. Drops(q, t, 0)
    <2>1. \A i \in DOMAIN t : /\ i + 0 = i /\ i \in DOMAIN q /\ SameOp(q[i], t[i])
                              /\ i > 1 => t[i] = q[i]
      BY <1>1, <1>2, <1>4, <1>6 DEF SameOp
    <2>2. \A i \in DOMAIN q : i - 0 = i BY <1>6
    <2> QED BY <1>4, <2>1, <2>2 DEF Drops
  <1> QED BY <1>2, <1>4, <1>5, <1>7 DEF t

LEMMA StayedAnswers == ASSUME NEW a \in Seq(Answers) PROVE Passes(a, a, 0)
  <1>1. \A i \in DOMAIN a : i + 0 = i /\ i - 0 = i BY SeqDomain
  <1> QED BY <1>1 DEF Passes

\* The operation at work goes on.
LEMMA Phased ==
    ASSUME RegistryConstants, OrderInv, NEW w \in Windows, writes[w] # <<>>, Op(w).phase # "answered",
           NEW p \in Phases \ {"answered"}, NEW s \in {Unset} \cup Registry,
           Phase(w, p, s), answers' = answers, board' = board,
           p = "confirming" => Op(w).kind = "import",
           Op(w).kind = "promotion" => s = Unset
    PROVE  /\ QueueTypes' /\ Drops(writes[w], writes'[w], 0)
           /\ 1 \in DOMAIN writes'[w] /\ writes'[w][1].phase = p /\ writes'[w][1].seen = s
           /\ \A u \in Windows \ {w} : writes'[u] = writes[u]
           /\ OpsOk(w)' /\ DoneOk(w)' /\ ReloadOk(w)'
  <1>1. /\ writes \in [Windows -> Seq(Operation)] /\ answers \in [Windows -> Seq(Answers)]
        /\ DoneOk(w) /\ OpsOk(w) /\ board[w].visits \in Nat
    BY DEF OrderInv, TypeOK, Board
  <1>2. writes[w] \in Seq(Operation) /\ answers[w] \in Seq(Answers) BY <1>1
  <1>3. writes'[w] = Phasing(writes[w], p, s) /\ writes' = [writes EXCEPT ![w] = writes'[w]]
        /\ p \in Phases
    BY <1>1 DEF Phase, Phasing
  <1>4. /\ writes'[w] \in Seq(Operation) /\ writes'[w] # <<>> /\ DOMAIN writes'[w] = DOMAIN writes[w]
        /\ Drops(writes[w], writes'[w], 0)
        /\ writes'[w][1].phase = p /\ writes'[w][1].seen = s /\ SameOp(writes[w][1], writes'[w][1])
        /\ \A i \in DOMAIN writes[w] : i # 1 => writes'[w][i] = writes[w][i]
    BY <1>2, <1>3, HeadPhased
  <1>5. QueueTypes' /\ \A u \in Windows \ {w} : writes'[u] = writes[u]
    BY <1>1, <1>3, <1>4 DEF QueueTypes
  <1>6. OpsOk(w)'
    <2>1. ASSUME NEW i \in DOMAIN writes[w] PROVE OpOk(writes'[w][i], i, board[w].visits)
      <3>1. OpOk(writes[w][i], i, board[w].visits) BY <1>1 DEF OpsOk
      <3>2. CASE i = 1 BY <1>4, <3>1, <3>2 DEF OpOk, SameOp, Op
      <3> QED BY <1>4, <3>1, <3>2
    <2> QED BY <1>4, <2>1 DEF OpsOk
  <1>7. ReloadOk(w)'
    <2>1. Passes(answers[w], answers'[w], 0) BY <1>2, StayedAnswers
    <2>2. Reloads(w) => Reloads(w)' BY <1>4 DEF Reloads, Owns, Drops, SameOp, Shown
    <2> QED BY <1>4, <1>5, <2>1, <2>2, ReloadKeeps
  <1>8. DoneOk(w)' BY <1>1 DEF DoneOk
  <1> QED BY <1>2, <1>4, <1>5, <1>6, <1>7, <1>8, SeqDomain

\* The operation at work has its answer on the way.
LEMMA Settled ==
    ASSUME RegistryConstants, OrderInv, NEW w \in Windows, writes[w] # <<>>, Op(w).phase # "answered",
           NEW result \in {"ok", "unread", "unwritten", "conflict"}, NEW g \in Registry,
           result = "ok" /\ Op(w).kind # "promotion" => g = Op(w).next,
           Settle(w, result, g), board' = board
    PROVE  /\ QueueTypes' /\ Drops(writes[w], writes'[w], 0)
           /\ 1 \in DOMAIN writes'[w] /\ writes'[w][1].phase = "answered" /\ writes'[w][1].seen = Unset
           /\ Adds(answers[w], answers'[w],
                   [reader |-> Op(w).reader, done |-> TRUE, result |-> result, registry |-> g])
           /\ \A u \in Windows \ {w} : writes'[u] = writes[u] /\ answers'[u] = answers[u]
           /\ OpsOk(w)' /\ DoneOk(w)' /\ ReloadOk(w)'
  <1> DEFINE x == [reader |-> Op(w).reader, done |-> TRUE, result |-> result, registry |-> g]
  <1>1. /\ writes \in [Windows -> Seq(Operation)] /\ answers \in [Windows -> Seq(Answers)]
        /\ DoneOk(w) /\ OpsOk(w) /\ ReloadOk(w) /\ board[w].visits \in Nat
    BY DEF OrderInv, TypeOK, Board
  <1>2. /\ writes[w] \in Seq(Operation) /\ answers[w] \in Seq(Answers)
        /\ 1 \in DOMAIN writes[w] /\ Op(w) \in Operation
    BY <1>1, SeqDomain DEF Op
  <1>3. x \in Answers /\ x.reader = Op(w).reader /\ x.done /\ x.result = result /\ x.registry = g
    BY <1>2 DEF Answers, Operation
  <1>4. writes'[w] = Phasing(writes[w], "answered", Unset)
        /\ writes' = [writes EXCEPT ![w] = writes'[w]]
    BY <1>1 DEF Settle, Phase, Phasing
  <1>5. answers' = [answers EXCEPT ![w] = Append(@, x)] BY DEF Settle
  <1> HIDE DEF x
  <1>6. /\ writes'[w] \in Seq(Operation) /\ writes'[w] # <<>> /\ DOMAIN writes'[w] = DOMAIN writes[w]
        /\ Drops(writes[w], writes'[w], 0) /\ writes'[w][1].reader = writes[w][1].reader
        /\ writes'[w][1].phase = "answered" /\ writes'[w][1].seen = Unset
        /\ SameOp(writes[w][1], writes'[w][1])
        /\ \A i \in DOMAIN writes[w] : i # 1 => writes'[w][i] = writes[w][i]
    <2>1. "answered" \in Phases BY DEF Phases
    <2> QED BY <1>2, <1>4, <2>1, HeadPhased
  <1>7. answers'[w] = Append(answers[w], x) BY <1>1, <1>5
  <1>8. answers'[w] \in Seq(Answers) /\ Adds(answers[w], answers'[w], x)
    BY <1>2, <1>3, <1>7, Appended
  <1>9. QueueTypes' /\ \A u \in Windows \ {w} : writes'[u] = writes[u] /\ answers'[u] = answers[u]
    BY <1>1, <1>4, <1>5, <1>6, <1>8 DEF QueueTypes
  <1>10. OpsOk(w)'
    <2>1. ASSUME NEW i \in DOMAIN writes[w] PROVE OpOk(writes'[w][i], i, board[w].visits)
      <3>1. OpOk(writes[w][i], i, board[w].visits) BY <1>1 DEF OpsOk
      <3>2. CASE i = 1 BY <1>6, <3>1, <3>2 DEF OpOk, SameOp, Op
      <3> QED BY <1>6, <3>1, <3>2
    <2> QED BY <1>6, <2>1 DEF OpsOk
  <1>11. \A i \in DOMAIN answers[w] : ~answers[w][i].done BY <1>1 DEF DoneOk
  <1>12. DoneOk(w)'
    <2>1. \A i \in DOMAIN answers'[w] : answers'[w][i].done => i = Len(answers[w]) + 1 /\ answers'[w][i] = x
      BY <1>8, <1>11 DEF Adds
    <2>2. Op(w)'.kind = Op(w).kind /\ Op(w)'.next = Op(w).next /\ Op(w)'.reader = Op(w).reader
          /\ Op(w)'.phase = "answered"
      BY <1>6 DEF Op, SameOp
    <2> QED BY <1>3, <1>6, <2>1, <2>2 DEF DoneOk
  <1>13. ReloadOk(w)'
    <2>1. \A i \in DOMAIN writes'[w] : writes'[w][i].reader = writes[w][i].reader
                                       /\ writes'[w][i].kind = writes[w][i].kind
      BY <1>6 DEF SameOp
    <2>2. Reloads(w) => Reloads(w)' BY <1>6 DEF Reloads, Owns, Drops, SameOp, Shown
    <2>3. x.reader = "reload" => \A i \in DOMAIN answers[w] : answers[w][i].reader # "reload"
      BY <1>1, <1>2, <1>3, <1>11 DEF ReloadOk, Op
    <2>4. x.reader = "reload" => Reloads(w) BY <1>1, <1>2, <1>3 DEF ReloadOk, Op
    <2>5. \A i \in DOMAIN answers'[w] : i \in DOMAIN answers[w] \/ i = Len(answers[w]) + 1
      BY <1>8 DEF Adds
    <2>6. ASSUME NEW i \in DOMAIN answers'[w], answers'[w][i].reader = "reload"
          PROVE  /\ Reloads(w)'
                 /\ \A j \in DOMAIN answers'[w] : answers'[w][j].reader = "reload" => i = j
                 /\ ~answers'[w][i].done => \A j \in DOMAIN writes'[w] : writes'[w][j].reader # "reload"
      <3>1. CASE i \in DOMAIN answers[w]
        <4>1. answers'[w][i] = answers[w][i] /\ x.reader # "reload"
          BY <1>8, <2>3, <2>6, <3>1 DEF Adds
        <4>2. answers[w][i].reader = "reload" /\ Reloads(w) BY <1>1, <2>6, <3>1, <4>1 DEF ReloadOk
        <4>3. ASSUME NEW j \in DOMAIN answers'[w], answers'[w][j].reader = "reload" PROVE i = j
          <5>1. j \in DOMAIN answers[w] /\ answers'[w][j] = answers[w][j]
            BY <1>8, <2>5, <4>1, <4>3 DEF Adds
          <5> QED BY <1>1, <3>1, <4>2, <4>3, <5>1 DEF ReloadOk
        <4>4. ~answers'[w][i].done => \A j \in DOMAIN writes'[w] : writes'[w][j].reader # "reload"
          BY <1>1, <1>6, <2>1, <3>1, <4>1, <4>2 DEF ReloadOk
        <4> QED BY <2>2, <4>2, <4>3, <4>4
      <3>2. CASE i = Len(answers[w]) + 1
        <4>1. answers'[w][i] = x BY <1>8, <3>2 DEF Adds
        <4>2. \A j \in DOMAIN answers[w] : answers'[w][j] = answers[w][j] BY <1>8 DEF Adds
        <4>3. ~(\E j \in DOMAIN answers[w] : answers'[w][j].reader = "reload")
          BY <2>3, <2>6, <4>1, <4>2
        <4> QED BY <1>3, <2>2, <2>4, <2>5, <2>6, <3>2, <4>1, <4>3
      <3> QED BY <2>5, <3>1, <3>2
    <2>7. ASSUME NEW i \in DOMAIN writes'[w], writes'[w][i].reader = "reload"
          PROVE  /\ Reloads(w)' /\ writes'[w][i].kind = "promotion"
                 /\ \A j \in DOMAIN writes'[w] : writes'[w][j].reader = "reload" => i = j
      <3>1. i \in DOMAIN writes[w] /\ writes[w][i].reader = "reload" BY <1>6, <2>1, <2>7
      <3>2. Reloads(w) /\ writes[w][i].kind = "promotion"
            /\ \A j \in DOMAIN writes[w] : writes[w][j].reader = "reload" => i = j
        BY <1>1, <3>1 DEF ReloadOk
      <3> QED BY <1>6, <2>1, <2>2, <2>7, <3>2
    <2> QED BY <2>6, <2>7 DEF ReloadOk
  <1> QED BY <1>2, <1>6, <1>8, <1>9, <1>10, <1>12, <1>13, SeqDomain DEF x

-----------------------------------------------------------------------------
(* Boards: what joins the queues.                                            *)

LEMMA Enqueued ==
    ASSUME RegistryConstants, OrderInv, NEW w \in Windows, NEW o \in Operation,
           writes' = [writes EXCEPT ![w] = Append(@, o)], answers' = answers,
           o.phase = "queued", OpOk(o, 0, board[w].visits), board'[w].visits = board[w].visits,
           \/ NoReloads(w) /\ o.reader # "reload"
           \/ /\ board'[w] = board[w] /\ ~(o.kind = "write" /\ o.view = board[w].view)
              /\ o.reader = "reload" => NoReloads(w) /\ Reloads(w) /\ o.kind = "promotion"
    PROVE  /\ QueueTypes' /\ Adds(writes[w], writes'[w], o)
           /\ \A u \in Windows \ {w} : writes'[u] = writes[u]
           /\ OpsOk(w)' /\ DoneOk(w)' /\ ReloadOk(w)'
  <1>1. /\ writes \in [Windows -> Seq(Operation)] /\ answers \in [Windows -> Seq(Answers)]
        /\ DoneOk(w) /\ ReloadOk(w)
    BY DEF OrderInv, TypeOK
  <1>2. writes[w] \in Seq(Operation) /\ writes'[w] = Append(writes[w], o) /\ answers'[w] = answers[w]
    BY <1>1
  <1>3. writes'[w] \in Seq(Operation) /\ Adds(writes[w], writes'[w], o) BY <1>2, Appended
  <1>4. QueueTypes' /\ \A u \in Windows \ {w} : writes'[u] = writes[u] BY <1>1, <1>3 DEF QueueTypes
  <1>5. OpsOk(w)' BY <1>3, <1>4, OpsAdd
  <1>6. writes[w] # <<>> => writes'[w] # <<>> /\ Op(w)' = Op(w)
    <2>1. writes[w] # <<>> => 1 \in DOMAIN writes[w] BY <1>2, SeqDomain
    <2>2. 1 \in DOMAIN writes'[w] => writes'[w] # <<>> OBVIOUS
    <2> QED BY <1>3, <2>1, <2>2 DEF Op, Adds
  <1>7. DoneOk(w)' BY <1>1, <1>2, <1>6 DEF DoneOk
  <1>8. \A i \in DOMAIN writes'[w] :
           \/ i \in DOMAIN writes[w] /\ writes'[w][i] = writes[w][i]
           \/ i = Len(writes[w]) + 1 /\ writes'[w][i] = o
    BY <1>3 DEF Adds
  <1>9. ASSUME NoReloads(w) /\ o.reader # "reload" PROVE ReloadOk(w)'
    <2>1. \A i \in DOMAIN answers'[w] : answers'[w][i].reader # "reload" BY <1>2, <1>9 DEF NoReloads
    <2>2. \A i \in DOMAIN writes'[w] : writes'[w][i].reader # "reload" BY <1>8, <1>9 DEF NoReloads
    <2> QED BY <2>1, <2>2 DEF ReloadOk
  <1>10. ASSUME board'[w] = board[w], ~(o.kind = "write" /\ o.view = board[w].view),
               o.reader = "reload" => NoReloads(w) /\ Reloads(w) /\ o.kind = "promotion"
         PROVE  ReloadOk(w)'
    <2>1. Reloads(w) => Reloads(w)' BY <1>8, <1>10 DEF Reloads, Owns, Shown
    <2>2. CASE o.reader # "reload"
      <3>1. \A i \in DOMAIN writes'[w] : writes'[w][i].reader = "reload" =>
               i \in DOMAIN writes[w] /\ writes'[w][i] = writes[w][i]
        BY <1>8, <2>2
      <3>2. ASSUME NEW i \in DOMAIN answers'[w], answers'[w][i].reader = "reload"
            PROVE  /\ Reloads(w)'
                   /\ \A j \in DOMAIN answers'[w] : answers'[w][j].reader = "reload" => i = j
                   /\ ~answers'[w][i].done => \A j \in DOMAIN writes'[w] : writes'[w][j].reader # "reload"
        BY <1>1, <1>2, <2>1, <3>1, <3>2 DEF ReloadOk
      <3>3. ASSUME NEW i \in DOMAIN writes'[w], writes'[w][i].reader = "reload"
            PROVE  /\ Reloads(w)' /\ writes'[w][i].kind = "promotion"
                   /\ \A j \in DOMAIN writes'[w] : writes'[w][j].reader = "reload" => i = j
        <4>1. i \in DOMAIN writes[w] /\ writes'[w][i] = writes[w][i] BY <3>1, <3>3
        <4>2. Reloads(w) /\ writes[w][i].kind = "promotion"
              /\ \A j \in DOMAIN writes[w] : writes[w][j].reader = "reload" => i = j
          BY <1>1, <3>3, <4>1 DEF ReloadOk
        <4>3. \A j \in DOMAIN writes'[w] : writes'[w][j].reader = "reload" => i = j BY <3>1, <4>2
        <4> QED BY <2>1, <4>1, <4>2, <4>3
      <3> QED BY <3>2, <3>3 DEF ReloadOk
    <2>3. CASE o.reader = "reload"
      <3>1. /\ \A i \in DOMAIN answers'[w] : answers'[w][i].reader # "reload"
            /\ \A i \in DOMAIN writes'[w] : writes'[w][i].reader = "reload" =>
                  i = Len(writes[w]) + 1 /\ writes'[w][i] = o
        BY <1>2, <1>8, <1>10, <2>3 DEF NoReloads
      <3>2. Reloads(w)' /\ o.kind = "promotion" BY <1>10, <2>1, <2>3
      <3>3. \A i \in DOMAIN writes'[w] : writes'[w][i].reader = "reload" =>
               /\ Reloads(w)' /\ writes'[w][i].kind = "promotion"
               /\ \A j \in DOMAIN writes'[w] : writes'[w][j].reader = "reload" => i = j
        BY <3>1, <3>2
      <3> QED BY <3>1, <3>3 DEF ReloadOk
    <2> QED BY <2>2, <2>3
  <1> QED BY <1>3, <1>4, <1>5, <1>7, <1>9, <1>10

\* The answer of a read is on its way.
LEMMA Answered ==
    ASSUME RegistryConstants, OrderInv, NEW w \in Windows, NEW x \in Answers, ~x.done,
           answers' = [answers EXCEPT ![w] = Append(@, x)], writes' = writes, board' = board,
           x.reader = "reload" => NoReloads(w) /\ Reloads(w)
    PROVE  /\ QueueTypes' /\ Adds(answers[w], answers'[w], x)
           /\ \A u \in Windows \ {w} : answers'[u] = answers[u]
           /\ OpsOk(w)' /\ DoneOk(w)' /\ ReloadOk(w)'
  <1>1. /\ writes \in [Windows -> Seq(Operation)] /\ answers \in [Windows -> Seq(Answers)]
        /\ OpsOk(w) /\ DoneOk(w) /\ ReloadOk(w)
    BY DEF OrderInv, TypeOK
  <1>2. answers[w] \in Seq(Answers) /\ answers'[w] = Append(answers[w], x) BY <1>1
  <1>3. answers'[w] \in Seq(Answers) /\ Adds(answers[w], answers'[w], x) BY <1>2, Appended
  <1>4. QueueTypes' /\ \A u \in Windows \ {w} : answers'[u] = answers[u]
    BY <1>1, <1>3 DEF QueueTypes
  <1>5. OpsOk(w)' BY <1>1 DEF OpsOk
  <1>6. \A i \in DOMAIN answers'[w] :
           \/ i \in DOMAIN answers[w] /\ answers'[w][i] = answers[w][i]
           \/ i = Len(answers[w]) + 1 /\ answers'[w][i] = x
    BY <1>3 DEF Adds
  <1>7. Op(w)' = Op(w) BY DEF Op
  <1>8. DoneOk(w)' BY <1>1, <1>6, <1>7 DEF DoneOk
  <1>9. Reloads(w) <=> Reloads(w)' BY DEF Reloads, Owns, Shown
  <1>10. ASSUME x.reader # "reload" PROVE ReloadOk(w)'
    <2>1. \A i \in DOMAIN answers'[w] : answers'[w][i].reader = "reload" =>
             i \in DOMAIN answers[w] /\ answers'[w][i] = answers[w][i]
      BY <1>6, <1>10
    <2>2. ASSUME NEW i \in DOMAIN answers'[w], answers'[w][i].reader = "reload"
          PROVE  /\ Reloads(w)'
                 /\ \A j \in DOMAIN answers'[w] : answers'[w][j].reader = "reload" => i = j
                 /\ ~answers'[w][i].done => \A j \in DOMAIN writes'[w] : writes'[w][j].reader # "reload"
      <3>1. i \in DOMAIN answers[w] /\ answers'[w][i] = answers[w][i] BY <2>1, <2>2
      <3>2. /\ Reloads(w)
            /\ \A j \in DOMAIN answers[w] : answers[w][j].reader = "reload" => i = j
            /\ ~answers[w][i].done => \A j \in DOMAIN writes[w] : writes[w][j].reader # "reload"
        BY <1>1, <2>2, <3>1 DEF ReloadOk
      <3>3. \A j \in DOMAIN answers'[w] : answers'[w][j].reader = "reload" => i = j BY <2>1, <3>2
      <3> QED BY <1>9, <3>1, <3>2, <3>3
    <2>3. \A i \in DOMAIN writes'[w] : writes'[w][i].reader = "reload" =>
             /\ Reloads(w)' /\ writes'[w][i].kind = "promotion"
             /\ \A j \in DOMAIN writes'[w] : writes'[w][j].reader = "reload" => i = j
      BY <1>1, <1>9 DEF ReloadOk
    <2> QED BY <2>2, <2>3 DEF ReloadOk
  <1>11. ASSUME x.reader = "reload" PROVE ReloadOk(w)'
    <2>1. /\ \A i \in DOMAIN answers'[w] : answers'[w][i].reader = "reload" =>
                i = Len(answers[w]) + 1 /\ answers'[w][i] = x
          /\ \A i \in DOMAIN writes'[w] : writes'[w][i].reader # "reload"
      BY <1>6, <1>11 DEF NoReloads
    <2>2. \A i \in DOMAIN answers'[w] : answers'[w][i].reader = "reload" =>
             /\ Reloads(w)'
             /\ \A j \in DOMAIN answers'[w] : answers'[w][j].reader = "reload" => i = j
             /\ ~answers'[w][i].done => \A j \in DOMAIN writes'[w] : writes'[w][j].reader # "reload"
      BY <1>9, <1>11, <2>1
    <2> QED BY <2>1, <2>2 DEF ReloadOk
  <1> QED BY <1>3, <1>4, <1>5, <1>8, <1>10, <1>11

LEMMA MayReload ==
    ASSUME OrderInv, NEW w \in Windows, NEW r \in Readers, MayRead(w, r), r = "reload"
    PROVE  NoReloads(w) /\ Reloads(w)
  <1>1. ViewOk(w) BY DEF OrderInv
  <1> QED BY <1>1 DEF MayRead, NoReloads, Reloads, Owns, ViewOk

-----------------------------------------------------------------------------
(* Boards: every step keeps the order of operations and answers.            *)

LEMMA Ordered ==
    ASSUME OrderInv, NEW w \in Windows, OneWindow(w), TypeOK',
           OpsOk(w)', DoneOk(w)', ViewOk(w)', ReloadOk(w)'
    PROVE  OrderInv'
  <1> SUFFICES ASSUME NEW u \in Windows PROVE (OpsOk(u) /\ DoneOk(u) /\ ViewOk(u) /\ ReloadOk(u))'
    BY DEF OrderInv
  <1>1. CASE u = w BY <1>1
  <1>2. CASE u # w
    <2>1. OpsOk(u) /\ DoneOk(u) /\ ViewOk(u) /\ ReloadOk(u) BY DEF OrderInv
    <2>2. /\ board'[u] = board[u] /\ accepted'[u] = accepted[u] /\ task'[u] = task[u]
          /\ writes'[u] = writes[u] /\ answers'[u] = answers[u]
      BY <1>2 DEF OneWindow
    <2>3. OpsOk(u)' /\ DoneOk(u)' /\ ViewOk(u)' BY <2>1, <2>2 DEF OpsOk, DoneOk, ViewOk, Op, Shown
    <2>4. Reloads(u)' = Reloads(u) BY <2>2 DEF Reloads, Owns, Shown
    <2>5. ReloadOk(u)' BY <2>1, <2>2, <2>4 DEF ReloadOk
    <2> QED BY <2>3, <2>5
  <1> QED BY <1>1, <1>2

\* The queues of the window keep what they hold, but for readers.
Stays(w) ==
    /\ OneWindow(w) /\ accepted' = accepted /\ task' = task
    /\ Drops(writes[w], writes'[w], 0) /\ Rests(writes[w], writes'[w])
    /\ Passes(answers[w], answers'[w], 0)
\* The board shows what it showed.
Shows(w) ==
    /\ board'[w].view = board[w].view /\ board'[w].registry = board[w].registry
    /\ board'[w].draft = board[w].draft

LEMMA StayedOps ==
    ASSUME NEW q \in Seq(Operation) PROVE Drops(q, q, 0) /\ Rests(q, q)
  <1>1. \A i \in DOMAIN q : i + 0 = i /\ i - 0 = i BY SeqDomain
  <1> QED BY <1>1 DEF Drops, Rests, SameOp

LEMMA BoardSet ==
    ASSUME TypeOK, NEW w \in Windows, NEW b \in Board, board' = [board EXCEPT ![w] = b]
    PROVE  /\ board' \in [Windows -> Board] /\ board'[w] = b
           /\ \A u \in Windows \ {w} : board'[u] = board[u]
  BY DEF TypeOK

LEMMA Reads ==
    ASSUME RegistryConstants, OrderInv, NEW w \in Windows, Shown(w), Reread(w), UNCHANGED <<accepted, task>>
    PROVE  /\ QueueTypes' /\ board' \in [Windows -> Board]
           /\ OpsOk(w)' /\ DoneOk(w)' /\ ViewOk(w)' /\ ReloadOk(w)' /\ Stays(w) /\ Shows(w)
  <1> DEFINE b == [board[w] EXCEPT !.reads = @ \cup {"subscription"}]
  <1>1. board[w] \in Board /\ ViewOk(w) /\ TypeOK BY DEF OrderInv, TypeOK
  <1>2. /\ b \in Board /\ b.view = board[w].view /\ b.visits = board[w].visits
        /\ b.registry = board[w].registry /\ b.draft = board[w].draft
        /\ b.reloading = board[w].reloading
        /\ "reload" \in b.reads => "reload" \in board[w].reads
    BY <1>1 DEF Board, Readers
  <1>3. board' = [board EXCEPT ![w] = b] BY DEF Reread
  <1> HIDE DEF b
  <1>4. board' \in [Windows -> Board] /\ board'[w] = b /\ \A u \in Windows \ {w} : board'[u] = board[u]
    BY <1>1, <1>2, <1>3, BoardSet
  <1>5. Reloads(w) /\ ~NoReloads(w)' => Reloads(w)'
    <2>1. DOMAIN writes'[w] = DOMAIN writes[w] /\ \A i \in DOMAIN writes[w] : SameOp(writes[w][i], writes'[w][i])
      <3>1. writes[w] \in Seq(Operation) /\ writes'[w] = Unread(writes[w], {"subscription"})
        BY <1>1 DEF TypeOK, Reread
      <3> QED BY <3>1, UnreadOps
    <2>2. board'[w].view = board[w].view /\ board'[w].reloading = board[w].reloading BY <1>2, <1>4
    <2>3. \A i \in DOMAIN writes'[w] : Owns(w, i)' => Owns(w, i) BY <2>1, <2>2 DEF Owns, SameOp
    <2> QED BY <2>1, <2>2, <2>3 DEF Reloads, Shown
  <1>6. /\ QueueTypes' /\ Drops(writes[w], writes'[w], 0) /\ Rests(writes[w], writes'[w])
        /\ Passes(answers[w], answers'[w], 0)
        /\ \A u \in Windows \ {w} : writes'[u] = writes[u] /\ answers'[u] = answers[u]
        /\ OpsOk(w)' /\ DoneOk(w)' /\ ReloadOk(w)'
    <2>1. board'[w].visits >= board[w].visits /\ board'[w].visits \in Nat
      BY <1>1, <1>2, <1>4 DEF Board
    <2> QED BY <1>5, <2>1, Silenced DEF Reread
  <1>7. ViewOk(w)'
    <2>1. /\ board'[w].view = board[w].view /\ board'[w].visits = board[w].visits
          /\ board'[w].reloading = board[w].reloading
          /\ "reload" \in board'[w].reads => "reload" \in board[w].reads
      BY <1>2, <1>4
    <2>2. accepted'[w] = accepted[w] /\ task'[w] = task[w] OBVIOUS
    <2> QED BY <1>1, <2>1, <2>2 DEF ViewOk, Shown
  <1> QED BY <1>2, <1>4, <1>6, <1>7 DEF Stays, Shows, OneWindow

LEMMA HearCommitOrdered ==
    ASSUME RegistryConstants, OrderInv, NEW w \in Windows, HearCommit(w)
    PROVE  OrderInv' /\ Stays(w) /\ Shows(w)
  <1>1. TypeOK /\ writes[w] \in Seq(Operation) /\ answers[w] \in Seq(Answers)
    BY DEF OrderInv, TypeOK
  <1>2. events[w] - 1 \in Nat /\ events' = [events EXCEPT ![w] = events[w] - 1]
    BY <1>1 DEF HearCommit, TypeOK
  <1>3. events' \in [Windows -> Nat] BY <1>1, <1>2 DEF TypeOK
  <1>4. CASE Shown(w)
    <2>1. /\ QueueTypes' /\ board' \in [Windows -> Board]
          /\ OpsOk(w)' /\ DoneOk(w)' /\ ViewOk(w)' /\ ReloadOk(w)' /\ Stays(w) /\ Shows(w)
      BY <1>4, Reads DEF HearCommit
    <2>2. TypeOK' BY <1>1, <1>3, <2>1 DEF TypeOK, QueueTypes, HearCommit
    <2> QED BY <2>1, <2>2, Ordered DEF Stays
  <1>5. CASE ~Shown(w)
    <2>1. UNCHANGED <<row, migrated, board, accepted, writes, answers, task, overtaken, edits, failures>>
      BY <1>5 DEF HearCommit
    <2>2. TypeOK' BY <1>1, <1>3, <2>1 DEF TypeOK
    <2>3. Stays(w) /\ Shows(w) BY <1>1, <2>1, StayedOps, StayedAnswers DEF Stays, Shows, OneWindow
    <2>4. OpsOk(w)' /\ DoneOk(w)' /\ ViewOk(w)' /\ ReloadOk(w)'
      <3>1. OpsOk(w) /\ DoneOk(w) /\ ViewOk(w) /\ ReloadOk(w) BY DEF OrderInv
      <3> QED BY <2>1, <3>1 DEF OpsOk, DoneOk, ViewOk, ReloadOk, Op, Shown, Reloads, Owns
    <2> QED BY <2>2, <2>3, <2>4, Ordered DEF Stays
  <1> QED BY <1>4, <1>5

LEMMA InputCounts ==
    ASSUME TypeOK, RegistryConstants, Input
    PROVE  edits' = edits + 1 /\ edits' \in 1..MaxInputs /\ edits' > edits
  BY DEF Input, TypeOK, RegistryConstants

LEMMA FailureCounts ==
    ASSUME TypeOK, RegistryConstants, Failure PROVE failures' \in 0..MaxFailures
  BY DEF Failure, TypeOK, RegistryConstants

LEMMA FocusOrdered ==
    ASSUME RegistryConstants, OrderInv, NEW w \in Windows, Focus(w)
    PROVE  OrderInv' /\ Stays(w) /\ Shows(w)
  <1>1. /\ QueueTypes' /\ board' \in [Windows -> Board]
        /\ OpsOk(w)' /\ DoneOk(w)' /\ ViewOk(w)' /\ ReloadOk(w)' /\ Stays(w) /\ Shows(w)
    BY Reads DEF Focus
  <1>2. TypeOK /\ edits' \in 0..MaxInputs BY InputCounts DEF OrderInv, Focus
  <1>3. TypeOK' BY <1>1, <1>2 DEF TypeOK, QueueTypes, Focus
  <1> QED BY <1>1, <1>3, Ordered DEF Stays

\* An operation or an answer joins, and nothing else moves.
AddsOp(w, o) == OneWindow(w) /\ Adds(writes[w], writes'[w], o) /\ answers' = answers
AddsAnswer(w, x) == OneWindow(w) /\ Adds(answers[w], answers'[w], x)

LEMMA ContentTyped == ASSUME TypeOK PROVE Content(row) \in Registry /\ {} \in Registry
  BY DEF TypeOK, Content, Registry

LEMMA AnswerOrdered ==
    ASSUME RegistryConstants, OrderInv, NEW w \in Windows, NEW r \in Readers, MayRead(w, r),
           NEW ok \in BOOLEAN, NEW g \in Registry, Answer(w, r, ok, g),
           UNCHANGED <<row, board, accepted, writes, events, task, overtaken, edits>>,
           migrated' \in BOOLEAN, failures' \in 0..MaxFailures
    PROVE  OrderInv' /\ AddsAnswer(w, [reader |-> r, done |-> FALSE,
                                       result |-> IF ok THEN "ok" ELSE "unread", registry |-> g])
  <1> DEFINE x == [reader |-> r, done |-> FALSE, result |-> IF ok THEN "ok" ELSE "unread", registry |-> g]
  <1>1. x \in Answers /\ ~x.done /\ x.reader = r BY DEF Answers
  <1>2. answers' = [answers EXCEPT ![w] = Append(@, x)] BY DEF Answer
  <1> HIDE DEF x
  <1>3. x.reader = "reload" => NoReloads(w) /\ Reloads(w) BY <1>1, MayReload
  <1>4. /\ QueueTypes' /\ Adds(answers[w], answers'[w], x)
        /\ \A u \in Windows \ {w} : answers'[u] = answers[u]
        /\ OpsOk(w)' /\ DoneOk(w)' /\ ReloadOk(w)'
    BY <1>1, <1>2, <1>3, Answered
  <1>5. TypeOK' BY <1>4 DEF OrderInv, TypeOK, QueueTypes
  <1>6. OneWindow(w) BY <1>4 DEF OneWindow
  <1>7. ViewOk(w)' BY DEF OrderInv, ViewOk, Shown
  <1> QED BY <1>4, <1>5, <1>6, <1>7, Ordered DEF AddsAnswer, x

LEMMA ReadFailsOrdered ==
    ASSUME RegistryConstants, OrderInv, NEW w \in Windows, NEW r \in Readers, ReadFails(w, r)
    PROVE  /\ OrderInv'
           /\ \E x : AddsAnswer(w, x) /\ x.result # "ok"
  <1>1. TypeOK BY DEF OrderInv
  <1>2. {} \in Registry /\ failures' \in 0..MaxFailures
    BY <1>1, ContentTyped, FailureCounts DEF ReadFails
  <1>3. migrated' \in BOOLEAN BY <1>1 DEF ReadFails, TypeOK
  <1>4. OrderInv' /\ AddsAnswer(w, [reader |-> r, done |-> FALSE,
                                    result |-> IF FALSE THEN "ok" ELSE "unread", registry |-> {}])
    BY <1>2, <1>3, AnswerOrdered DEF ReadFails
  <1>5. [reader |-> r, done |-> FALSE, result |-> IF FALSE THEN "ok" ELSE "unread",
         registry |-> {}].result # "ok"
    OBVIOUS
  <1> QED BY <1>4, <1>5

\* A first read finds neither row nor marker, and promotes what it finds in local storage.
Promotes(w, o) ==
    /\ AddsOp(w, o) /\ o.kind = "promotion" /\ o.phase = "queued" /\ o.next = Legacy
    /\ o.seen = Unset /\ o.guard = Unset /\ row = Unset

LEMMA ReadOrdered ==
    ASSUME RegistryConstants, OrderInv, NEW w \in Windows, NEW r \in Readers, Read(w, r)
    PROVE  /\ OrderInv'
           /\ \/ \E o : Promotes(w, o)
              \/ \E x : AddsAnswer(w, x) /\ writes' = writes /\ x.result = "ok" /\ x.registry = Content(row)
  <1>1. TypeOK BY DEF OrderInv
  <1>2. CASE row = Unset /\ ~migrated /\ Legacy # {}
    <2> DEFINE o == [kind |-> "promotion", by |-> 0, view |-> 0, next |-> Legacy, guard |-> Unset,
                     reader |-> r, seen |-> Unset, phase |-> "queued"]
    <2>1. o \in Operation BY DEF Operation, Registry, RegistryConstants
    <2>2. /\ o.kind = "promotion" /\ o.phase = "queued" /\ o.next = Legacy /\ o.view = 0
          /\ o.seen = Unset /\ o.guard = Unset /\ o.reader = r
      OBVIOUS
    <2>3. writes' = [writes EXCEPT ![w] = Append(@, o)] BY <1>2 DEF Read
    <2> HIDE DEF o
    <2>4. UNCHANGED <<row, migrated, board, accepted, answers, events, task, overtaken, edits, failures>>
      BY <1>2 DEF Read
    <2>5. OpOk(o, 0, board[w].visits) BY <1>2, <2>2 DEF OpOk
    <2>6. o.reader = "reload" => NoReloads(w) /\ Reloads(w) BY <2>2, MayReload DEF Read
    <2>7. /\ QueueTypes' /\ Adds(writes[w], writes'[w], o)
          /\ \A u \in Windows \ {w} : writes'[u] = writes[u]
          /\ OpsOk(w)' /\ DoneOk(w)' /\ ReloadOk(w)'
      BY <2>1, <2>2, <2>3, <2>4, <2>5, <2>6, Enqueued
    <2>8. TypeOK' /\ OneWindow(w) /\ ViewOk(w)'
      BY <2>4, <2>7 DEF OrderInv, TypeOK, QueueTypes, OneWindow, ViewOk, Shown
    <2>9. OrderInv' BY <2>7, <2>8, Ordered
    <2> QED BY <1>2, <2>2, <2>4, <2>7, <2>8, <2>9 DEF Promotes, AddsOp
  <1>3. CASE ~(row = Unset /\ ~migrated /\ Legacy # {})
    <2>1. /\ Answer(w, r, TRUE, Content(row)) /\ MayRead(w, r)
          /\ UNCHANGED <<row, board, accepted, writes, events, task, overtaken, edits, failures>>
          /\ migrated' = (migrated \/ row # Unset)
      BY <1>3 DEF Read
    <2>2. migrated' \in BOOLEAN /\ failures' \in 0..MaxFailures /\ Content(row) \in Registry
      BY <1>1, <2>1, ContentTyped DEF TypeOK
    <2>3. OrderInv' /\ AddsAnswer(w, [reader |-> r, done |-> FALSE,
                                      result |-> IF TRUE THEN "ok" ELSE "unread", registry |-> Content(row)])
      BY <2>1, <2>2, AnswerOrdered
    <2> DEFINE x == [reader |-> r, done |-> FALSE, result |-> IF TRUE THEN "ok" ELSE "unread",
                     registry |-> Content(row)]
    <2>4. x.result = "ok" /\ x.registry = Content(row) OBVIOUS
    <2> HIDE DEF x
    <2>5. AddsAnswer(w, x) /\ writes' = writes BY <2>1, <2>3 DEF x
    <2> QED BY <2>3, <2>4, <2>5
  <1> QED BY <1>2, <1>3

\* The operation at work is at another phase, or settled.
Works(w) ==
    /\ OneWindow(w) /\ board' = board /\ accepted' = accepted /\ task' = task
    /\ Drops(writes[w], writes'[w], 0) /\ 1 \in DOMAIN writes'[w] /\ Op(w).phase # "answered"
Goes(w, p, s) ==
    Works(w) /\ writes'[w][1].phase = p /\ writes'[w][1].seen = s /\ answers' = answers
Settles(w, x) ==
    /\ Works(w) /\ writes'[w][1].phase = "answered" /\ writes'[w][1].seen = Unset
    /\ Adds(answers[w], answers'[w], x)
    /\ x.result = "ok" => x.registry = Content(row')

LEMMA SettledOrdered ==
    ASSUME RegistryConstants, OrderInv, NEW w \in Windows, writes[w] # <<>>, Op(w).phase # "answered",
           NEW result \in {"ok", "unread", "unwritten", "conflict"}, NEW g \in Registry,
           result = "ok" /\ Op(w).kind # "promotion" => g = Op(w).next,
           result = "ok" => g = Content(row'),
           Settle(w, result, g), UNCHANGED <<migrated, board, accepted, task, overtaken, edits>>,
           row' \in {Unset} \cup Registry, events' \in [Windows -> Nat], failures' \in 0..MaxFailures
    PROVE  OrderInv' /\ \E x : Settles(w, x) /\ x.result = result
  <1> DEFINE x == [reader |-> Op(w).reader, done |-> TRUE, result |-> result, registry |-> g]
  <1>1. /\ QueueTypes' /\ Drops(writes[w], writes'[w], 0)
        /\ 1 \in DOMAIN writes'[w] /\ writes'[w][1].phase = "answered" /\ writes'[w][1].seen = Unset
        /\ Adds(answers[w], answers'[w], x)
        /\ \A u \in Windows \ {w} : writes'[u] = writes[u] /\ answers'[u] = answers[u]
        /\ OpsOk(w)' /\ DoneOk(w)' /\ ReloadOk(w)'
    BY Settled
  <1>2. x.result = result /\ x.registry = g OBVIOUS
  <1> HIDE DEF x
  <1>3. TypeOK' /\ OneWindow(w) BY <1>1 DEF OrderInv, TypeOK, QueueTypes, OneWindow
  <1>4. ViewOk(w)' BY DEF OrderInv, ViewOk, Shown
  <1>5. OrderInv' BY <1>1, <1>3, <1>4, Ordered
  <1>6. Settles(w, x) BY <1>1, <1>2, <1>3 DEF Settles, Works
  <1> QED BY <1>2, <1>5, <1>6

LEMMA PhasedOrdered ==
    ASSUME RegistryConstants, OrderInv, NEW w \in Windows, writes[w] # <<>>, Op(w).phase # "answered",
           NEW p \in Phases \ {"answered"}, NEW s \in {Unset} \cup Registry, Phase(w, p, s),
           UNCHANGED <<migrated, board, accepted, answers, task, overtaken, edits>>,
           p = "confirming" => Op(w).kind = "import",
           Op(w).kind = "promotion" => s = Unset,
           row' \in {Unset} \cup Registry, events' \in [Windows -> Nat], failures' \in 0..MaxFailures
    PROVE  OrderInv' /\ Goes(w, p, s)
  <1>1. /\ QueueTypes' /\ Drops(writes[w], writes'[w], 0)
        /\ 1 \in DOMAIN writes'[w] /\ writes'[w][1].phase = p /\ writes'[w][1].seen = s
        /\ \A u \in Windows \ {w} : writes'[u] = writes[u]
        /\ OpsOk(w)' /\ DoneOk(w)' /\ ReloadOk(w)'
    BY Phased
  <1>2. TypeOK' /\ OneWindow(w) BY <1>1 DEF OrderInv, TypeOK, QueueTypes, OneWindow
  <1>3. ViewOk(w)' BY DEF OrderInv, ViewOk, Shown
  <1>4. OrderInv' BY <1>1, <1>2, <1>3, Ordered
  <1> QED BY <1>1, <1>2, <1>4 DEF Goes, Works

LEMMA AtWork ==
    ASSUME RegistryConstants, OrderInv, NEW w \in Windows, NEW p, Operating(w, p), p # "answered"
    PROVE  /\ writes[w] # <<>> /\ Op(w).phase # "answered" /\ Op(w) \in Operation
           /\ Op(w).next \in Registry /\ Op(w).phase = p /\ Op(w) = writes[w][1]
           /\ 1 \in DOMAIN writes[w] /\ OpOk(Op(w), 1, board[w].visits)
           /\ row \in {Unset} \cup Registry /\ {} \in Registry
           /\ events \in [Windows -> Nat] /\ failures \in 0..MaxFailures
  <1>1. writes[w] # <<>> /\ Op(w).phase = p BY DEF Operating
  <1>2. TypeOK /\ writes[w] \in Seq(Operation) /\ OpsOk(w) BY DEF OrderInv, TypeOK
  <1>3. 1 \in DOMAIN writes[w] /\ Op(w) \in Operation /\ Op(w) = writes[w][1]
    BY <1>1, <1>2, SeqDomain DEF Op
  <1>4. OpOk(Op(w), 1, board[w].visits) BY <1>2, <1>3 DEF OpsOk
  <1> QED BY <1>1, <1>2, <1>3, <1>4, ContentTyped DEF TypeOK, Operation

LEMMA CheckOrdered ==
    ASSUME RegistryConstants, OrderInv, NEW w \in Windows, Check(w)
    PROVE  /\ OrderInv'
           /\ \/ \E x : Settles(w, x)
              \/ Goes(w, "checked", row) /\ (Op(w).kind = "write" => Content(row) = Expected(w))
  <1>1. /\ writes[w] # <<>> /\ Op(w).phase # "answered" /\ Op(w) \in Operation
        /\ row \in {Unset} \cup Registry /\ {} \in Registry
        /\ events \in [Windows -> Nat] /\ failures \in 0..MaxFailures
    BY AtWork DEF Check
  <1>2. UNCHANGED <<row, migrated, board, accepted, events, task, overtaken, edits, failures>>
    BY DEF Check
  <1>3. CASE Op(w).kind = "write" /\ Content(row) # Expected(w)
    <2>1. Settle(w, "conflict", {}) BY <1>3 DEF Check
    <2> QED BY <1>1, <1>2, <2>1, SettledOrdered
  <1>4. CASE Op(w).kind = "promotion" /\ row # Unset
    <2>1. Settle(w, "ok", row) BY <1>4 DEF Check
    <2>2. row \in Registry /\ row = Content(row') BY <1>1, <1>2, <1>4 DEF Content
    <2> QED BY <1>1, <1>2, <1>4, <2>1, <2>2, SettledOrdered
  <1>5. CASE /\ ~(Op(w).kind = "write" /\ Content(row) # Expected(w))
             /\ ~(Op(w).kind = "promotion" /\ row # Unset)
    <2>1. Phase(w, "checked", row) /\ answers' = answers BY <1>5 DEF Check
    <2>2. "checked" \in Phases \ {"answered"} BY DEF Phases
    <2> QED BY <1>1, <1>2, <1>5, <2>1, <2>2, PhasedOrdered
  <1> QED BY <1>3, <1>4, <1>5

LEMMA FailedOrdered ==
    ASSUME RegistryConstants, OrderInv, NEW w \in Windows, CheckFails(w) \/ WriteFails(w)
    PROVE  OrderInv' /\ \E x : Settles(w, x)
  <1>1. /\ writes[w] # <<>> /\ Op(w).phase # "answered" /\ Op(w) \in Operation
        /\ row \in {Unset} \cup Registry /\ {} \in Registry
        /\ events \in [Windows -> Nat]
    BY AtWork DEF CheckFails, WriteFails
  <1>2. UNCHANGED <<row, migrated, board, accepted, events, task, overtaken, edits>>
    BY DEF CheckFails, WriteFails
  <1>3. failures' \in 0..MaxFailures BY FailureCounts DEF CheckFails, WriteFails, OrderInv
  <1>4. \E result \in {"unread", "unwritten"} : Settle(w, result, {}) BY DEF CheckFails, WriteFails
  <1> QED BY <1>1, <1>2, <1>3, <1>4, SettledOrdered

LEMMA ConfirmOrdered ==
    ASSUME RegistryConstants, OrderInv, NEW w \in Windows, Confirm(w)
    PROVE  OrderInv' /\ \E x : Settles(w, x)
  <1>1. /\ writes[w] # <<>> /\ Op(w).phase # "answered" /\ Op(w) \in Operation
        /\ row \in {Unset} \cup Registry /\ Op(w).next \in Registry
        /\ events \in [Windows -> Nat] /\ failures \in 0..MaxFailures
    BY AtWork DEF Confirm
  <1>2. UNCHANGED <<row, migrated, board, accepted, events, task, overtaken, edits, failures>>
    BY DEF Confirm
  <1> DEFINE result == IF row = Op(w).next THEN "ok" ELSE "unwritten"
  <1>3. Settle(w, result, Op(w).next) BY DEF Confirm
  <1>4. result \in {"ok", "unread", "unwritten", "conflict"} OBVIOUS
  <1>5. result = "ok" => Op(w).next = Content(row') BY <1>1, <1>2 DEF Content, RegistryConstants
  <1> HIDE DEF result
  <1> QED BY <1>1, <1>2, <1>3, <1>4, <1>5, SettledOrdered

LEMMA EventsSent ==
    ASSUME TypeOK, events' = [v \in Windows |-> events[v] + 1] PROVE events' \in [Windows -> Nat]
  BY DEF TypeOK

\* What a checked operation saw is in the row still, and what it saves replaces it.
Saved(w) ==
    /\ Operating(w, "checked") /\ row = Op(w).seen /\ row' = Op(w).next
    /\ (\E x : Settles(w, x)) \/ Goes(w, "confirming", Unset)

LEMMA WriteOrdered ==
    ASSUME RegistryConstants, OrderInv, NEW w \in Windows, Write(w)
    PROVE  OrderInv' /\ (Saved(w) \/ (row' = row /\ \E x : Settles(w, x)))
  <1>1. /\ writes[w] # <<>> /\ Op(w).phase # "answered" /\ Op(w) \in Operation
        /\ row \in {Unset} \cup Registry /\ {} \in Registry /\ Op(w).next \in Registry
        /\ events \in [Windows -> Nat] /\ failures \in 0..MaxFailures
    BY AtWork DEF Write
  <1>2. UNCHANGED <<migrated, board, accepted, task, overtaken, edits, failures>> BY DEF Write
  <1>3. CASE row = Op(w).seen
    <2>1. /\ row' = Op(w).next /\ Settle(w, "ok", Op(w).next)
          /\ events' = [v \in Windows |-> events[v] + 1]
      BY <1>3 DEF Write
    <2>2. Op(w).next = Content(row') BY <1>1, <2>1 DEF Content, RegistryConstants
    <2>3. events' \in [Windows -> Nat] BY <2>1, EventsSent DEF OrderInv
    <2>4. OrderInv' /\ \E x : Settles(w, x) BY <1>1, <1>2, <2>1, <2>2, <2>3, SettledOrdered
    <2> QED BY <1>3, <2>1, <2>4 DEF Saved, Write
  <1>4. CASE row # Op(w).seen
    <2>1. Settle(w, "conflict", {}) /\ row' = row /\ events' = events BY <1>4 DEF Write
    <2>2. OrderInv' /\ \E x : Settles(w, x) BY <1>1, <1>2, <2>1, SettledOrdered
    <2> QED BY <2>1, <2>2
  <1> QED BY <1>3, <1>4

LEMMA WriteUnansweredOrdered ==
    ASSUME RegistryConstants, OrderInv, NEW w \in Windows, WriteUnanswered(w)
    PROVE  OrderInv' /\ Saved(w)
  <1>1. /\ writes[w] # <<>> /\ Op(w).phase # "answered" /\ Op(w) \in Operation
        /\ row \in {Unset} \cup Registry /\ {} \in Registry /\ Op(w).next \in Registry
    BY AtWork DEF WriteUnanswered
  <1>2. /\ UNCHANGED <<migrated, board, accepted, task, overtaken, edits>>
        /\ row = Op(w).seen /\ row' = Op(w).next
        /\ events' = [v \in Windows |-> events[v] + 1]
    BY DEF WriteUnanswered
  <1>3. failures' \in 0..MaxFailures /\ events' \in [Windows -> Nat]
    BY <1>2, FailureCounts, EventsSent DEF WriteUnanswered, OrderInv
  <1>4. CASE Op(w).kind = "import"
    <2>1. Phase(w, "confirming", Unset) /\ answers' = answers BY <1>4 DEF WriteUnanswered
    <2>2. "confirming" \in Phases \ {"answered"} BY DEF Phases
    <2>3. OrderInv' /\ Goes(w, "confirming", Unset)
      BY <1>1, <1>2, <1>3, <1>4, <2>1, <2>2, PhasedOrdered
    <2> QED BY <1>2, <2>3 DEF Saved, WriteUnanswered
  <1>5. CASE Op(w).kind # "import"
    <2>1. Settle(w, "unwritten", {}) BY <1>5 DEF WriteUnanswered
    <2>2. OrderInv' /\ \E x : Settles(w, x) BY <1>1, <1>2, <1>3, <2>1, SettledOrdered
    <2> QED BY <1>2, <2>2 DEF Saved, WriteUnanswered
  <1> QED BY <1>4, <1>5

\* The draft of the write that ended goes, or keeps the error; that of a reload goes.
TakesDraft(w) ==
    LET a == answers[w][1]
        mine == a.done /\ Op(w).kind = "write" /\ Mine(board[w], Op(w))
    IN  \/ board'[w].draft = board[w].draft /\ ~mine /\ ~(a.reader = "reload" /\ a.result = "ok")
        \/ /\ board'[w].draft = Unset /\ a.result = "ok"
           /\ mine \/ (a.reader = "reload" /\ ~Saves(w, a))
        \/ /\ mine /\ a.result # "ok" /\ board'[w].draft # Unset
           /\ board'[w].draft.by = 0 /\ board'[w].draft.registry = board[w].draft.registry
\* The window takes its next answer.
Takes(w) ==
    LET a == answers[w][1] IN
    /\ OneWindow(w) /\ task' = task
    /\ 1 \in DOMAIN answers[w] /\ Passes(answers[w], answers'[w], 1)
    /\ IF a.done THEN Drops(writes[w], writes'[w], 1)
       ELSE Drops(writes[w], writes'[w], 0) /\ Rests(writes[w], writes'[w])
    /\ a.done => /\ 1 \in DOMAIN writes[w] /\ Op(w).phase = "answered"
                 /\ Saves(w, a) => a.registry = Op(w).next
    /\ a.reader = "reload" => Reloads(w)
    /\ board'[w].view = board[w].view
    /\ board'[w].registry =
          IF a.result = "ok" /\ (IF Saves(w, a) THEN Shown(w) ELSE a.reader # Unset)
          THEN a.registry ELSE board[w].registry
    /\ TakesDraft(w)
    /\ \A v \in 1..MaxVisits :
          accepted'[w][v] = IF Saves(w, a) THEN IF v = Op(w).view THEN a.registry ELSE accepted[w][v]
                            ELSE IF a.reader = "reload" /\ a.result = "ok" /\ v = board[w].view
                            THEN a.registry ELSE accepted[w][v]

LEMMA OwnsDrop ==
    ASSUME NEW w \in Windows, NEW n \in {0, 1}, Drops(writes[w], writes'[w], n),
           board'[w].view = board[w].view
    PROVE  \A k \in DOMAIN writes'[w] : Owns(w, k)' => k + n \in DOMAIN writes[w] /\ Owns(w, k + n)
  BY DEF Drops, SameOp, Owns

LEMMA AcceptsTyped ==
    ASSUME RegistryConstants, OrderInv, NEW w \in Windows, answers[w] # <<>>, NEW a, a = answers[w][1],
           Accepts(w, a)
    PROVE  /\ accepted' \in [Windows -> [1..MaxVisits -> Registry]]
           /\ \A u \in Windows \ {w} : accepted'[u] = accepted[u]
           /\ a \in Answers /\ 1 \in DOMAIN answers[w]
           /\ Saves(w, a) => a.registry = Op(w).next
           /\ a.done => /\ 1 \in DOMAIN writes[w] /\ Op(w).phase = "answered" /\ Op(w) \in Operation
                        /\ a.reader = Op(w).reader /\ OpOk(Op(w), 1, board[w].visits)
           /\ a.reader = "reload" => Reloads(w)
           /\ \A v \in 1..MaxVisits :
                 accepted'[w][v] = IF Saves(w, a) THEN IF v = Op(w).view THEN a.registry ELSE accepted[w][v]
                                   ELSE IF a.reader = "reload" /\ a.result = "ok" /\ v = board[w].view
                                   THEN a.registry ELSE accepted[w][v]
  <1>1. TypeOK /\ OpsOk(w) /\ DoneOk(w) /\ ReloadOk(w) /\ board[w] \in Board
        /\ writes[w] \in Seq(Operation) /\ answers[w] \in Seq(Answers)
        /\ accepted \in [Windows -> [1..MaxVisits -> Registry]] /\ MaxVisits \in Nat
    BY DEF OrderInv, TypeOK, RegistryConstants
  <1>2. a \in Answers /\ 1 \in DOMAIN answers[w] BY <1>1, SeqDomain
  <1>3. a.done => writes[w] # <<>> /\ Op(w).phase = "answered" /\ a.reader = Op(w).reader
    BY <1>1, <1>2 DEF DoneOk
  <1>4. a.done => 1 \in DOMAIN writes[w] /\ Op(w) \in Operation /\ OpOk(Op(w), 1, board[w].visits)
    BY <1>1, <1>3, SeqDomain DEF OpsOk, Op
  <1>5. Saves(w, a) => a.registry = Op(w).next BY <1>1, <1>2 DEF Saves, DoneOk
  <1>6. a.reader = "reload" => Reloads(w) BY <1>1, <1>2 DEF ReloadOk
  <1>7. CASE Saves(w, a) /\ Op(w).view # 0
    <2>1. Op(w).view \in 1..MaxVisits /\ Op(w).next \in Registry BY <1>4, <1>7 DEF Saves, Operation
    <2>2. accepted' = [accepted EXCEPT ![w][Op(w).view] = Op(w).next] BY <1>7 DEF Accepts
    <2> QED BY <1>1, <1>2, <1>3, <1>4, <1>5, <1>6, <1>7, <2>1, <2>2
  <1>8. CASE ~(Saves(w, a) /\ Op(w).view # 0) /\ a.reader = "reload" /\ a.result = "ok"
    <2>1. board[w].view \in 1..MaxVisits /\ a.registry \in Registry
      BY <1>1, <1>2, <1>6, <1>8 DEF Reloads, Shown, Board, Answers
    <2>2. ~Saves(w, a)
      <3>1. SUFFICES ASSUME Saves(w, a) PROVE FALSE OBVIOUS
      <3>2. Op(w).reader = "reload" /\ Op(w).kind # "promotion" /\ 1 \in DOMAIN writes[w]
        BY <1>3, <1>4, <1>8, <3>1 DEF Saves
      <3> QED BY <1>1, <3>2 DEF ReloadOk, Op
    <2>3. accepted' = [accepted EXCEPT ![w][board[w].view] = a.registry] BY <1>8 DEF Accepts
    <2> QED BY <1>1, <1>2, <1>3, <1>4, <1>5, <1>6, <1>8, <2>1, <2>2, <2>3
  <1>9. CASE ~(Saves(w, a) /\ Op(w).view # 0) /\ ~(a.reader = "reload" /\ a.result = "ok")
    <2>1. accepted' = accepted BY <1>9 DEF Accepts
    <2>2. Saves(w, a) => \A v \in 1..MaxVisits : v # Op(w).view BY <1>9
    <2> QED BY <1>1, <1>2, <1>3, <1>4, <1>5, <1>6, <1>9, <2>1, <2>2
  <1> QED BY <1>7, <1>8, <1>9

LEMMA ReadAnsweredOrdered ==
    ASSUME RegistryConstants, OrderInv, NEW w \in Windows, ReadAnswered(w)
    PROVE  OrderInv' /\ Takes(w)
  <1> DEFINE a == answers[w][1]
             R == Superseded(w, a)
             b == Receive(board[w], a.reader, a.result = "ok", a.registry)
  <1>1. TypeOK /\ writes[w] \in Seq(Operation) /\ answers[w] \in Seq(Answers) /\ answers[w] # <<>>
        /\ board[w] \in Board /\ ReloadOk(w) /\ ViewOk(w)
    BY DEF OrderInv, TypeOK, ReadAnswered
  <1>2. Head(answers[w]) = a BY <1>1, Popped
  <1>3. /\ ~a.done /\ board' = [board EXCEPT ![w] = b] /\ Accepts(w, a)
        /\ writes' = [writes EXCEPT ![w] = Unread(@, R)]
        /\ answers' = [answers EXCEPT ![w] = Unread(Tail(@), R)]
        /\ UNCHANGED <<row, migrated, events, task, overtaken, edits, failures>>
    BY <1>2 DEF ReadAnswered
  <1> HIDE DEF a
  <1>4. /\ accepted' \in [Windows -> [1..MaxVisits -> Registry]]
        /\ \A u \in Windows \ {w} : accepted'[u] = accepted[u]
        /\ a \in Answers /\ 1 \in DOMAIN answers[w]
        /\ a.reader = "reload" => Reloads(w)
        /\ \A v \in 1..MaxVisits :
              accepted'[w][v] = IF Saves(w, a) THEN IF v = Op(w).view THEN a.registry ELSE accepted[w][v]
                                ELSE IF a.reader = "reload" /\ a.result = "ok" /\ v = board[w].view
                                THEN a.registry ELSE accepted[w][v]
    BY <1>1, <1>3, AcceptsTyped DEF a
  <1>5. /\ b \in Board /\ b.view = board[w].view /\ b.visits = board[w].visits
        /\ b.registry = IF a.reader # Unset /\ a.result = "ok" THEN a.registry ELSE board[w].registry
        /\ b.draft = IF a.reader = "reload" /\ a.result = "ok" THEN Unset ELSE board[w].draft
        /\ b.reloading = (board[w].reloading /\ a.reader # "reload")
    <2>1. a.reader \in Readers \cup {Unset} /\ a.registry \in Registry /\ (a.result = "ok") \in BOOLEAN
      BY <1>4 DEF Answers
    <2> DEFINE ok == a.result = "ok"
    <2>2. ok \in BOOLEAN OBVIOUS
    <2> HIDE DEF ok
    <2>3. LET c == Receive(board[w], a.reader, ok, a.registry) IN
          /\ c \in Board /\ c.view = board[w].view /\ c.visits = board[w].visits
          /\ c.registry = IF a.reader # Unset /\ ok THEN a.registry ELSE board[w].registry
          /\ c.draft = IF a.reader = "reload" /\ ok THEN Unset ELSE board[w].draft
          /\ c.reloading = (board[w].reloading /\ a.reader # "reload")
      BY <1>1, <2>1, <2>2, Receives
    <2> QED BY <2>3 DEF ok
  <1>6. "reload" \in b.reads => "reload" \in board[w].reads /\ a.reader # "reload"
    BY <1>1, <1>4 DEF Receive, Publish, Board, Answers, Readers, RegistryConstants
  <1> HIDE DEF b, R
  <1>7. board' \in [Windows -> Board] /\ board'[w] = b /\ \A u \in Windows \ {w} : board'[u] = board[u]
    BY <1>1, <1>3, <1>5, BoardSet
  <1>8. ASSUME Reloads(w), ~NoReloads(w)' PROVE Reloads(w)'
    <2>1. writes'[w] = Unread(writes[w], R) /\ answers'[w] = Unread(Tail(answers[w]), R)
      BY <1>1, <1>3 DEF TypeOK
    <2>2. Drops(writes[w], writes'[w], 0) /\ Passes(answers[w], answers'[w], 1)
      BY <1>1, <2>1, UnreadOps, RestOfAnswers
    <2>3. a.reader # "reload"
      <3> SUFFICES ASSUME a.reader = "reload" PROVE NoReloads(w)' BY <1>8
      <3>1. /\ \A j \in DOMAIN answers[w] : answers[w][j].reader = "reload" => 1 = j
            /\ \A j \in DOMAIN writes[w] : writes[w][j].reader # "reload"
        BY <1>1, <1>3, <1>4 DEF ReloadOk, a
      <3>2. Unset # "reload" /\ \A i \in DOMAIN writes'[w] : i \in Int /\ i + 0 = i
        <4>1. writes'[w] \in Seq(Operation) BY <1>1, <2>1, UnreadOps
        <4> QED BY <4>1, SeqDomain DEF RegistryConstants, Readers
      <3>3. \A i \in DOMAIN writes'[w] : writes'[w][i].reader # "reload"
        BY <2>2, <3>1, <3>2 DEF Drops, SameOp
      <3>4. \A i \in DOMAIN answers'[w] : i + 1 # 1
        <4>1. answers'[w] \in Seq(Answers) BY <1>1, <2>1, RestOfAnswers
        <4> QED BY <4>1, SeqDomain
      <3>5. \A i \in DOMAIN answers'[w] : answers'[w][i].reader # "reload"
        BY <2>2, <3>1, <3>2, <3>4 DEF Passes
      <3> QED BY <3>3, <3>5 DEF NoReloads
    <2>4. board'[w].view = board[w].view /\ board'[w].reloading = board[w].reloading
      BY <1>1, <1>5, <1>7, <2>3 DEF Board
    <2>5. \A k \in DOMAIN writes'[w] : ~Owns(w, k)' BY <1>8, <2>2, <2>4, OwnsDrop DEF Reloads
    <2> QED BY <1>8, <2>4, <2>5 DEF Reloads, Shown
  <1>9. /\ QueueTypes' /\ Drops(writes[w], writes'[w], 0) /\ Rests(writes[w], writes'[w])
        /\ Passes(answers[w], answers'[w], 1)
        /\ \A u \in Windows \ {w} : writes'[u] = writes[u] /\ answers'[u] = answers[u]
        /\ OpsOk(w)' /\ DoneOk(w)' /\ ReloadOk(w)'
    BY <1>1, <1>3, <1>5, <1>7, <1>8, ReadTaken DEF a
  <1>10. TypeOK' /\ OneWindow(w)
    BY <1>3, <1>4, <1>7, <1>9 DEF OrderInv, TypeOK, QueueTypes, OneWindow
  <1>11. ~Saves(w, a) BY <1>3 DEF Saves
  <1>12. ViewOk(w)'
    <2>1. /\ board'[w].view = board[w].view /\ board'[w].visits = board[w].visits
          /\ "reload" \in board'[w].reads => "reload" \in board[w].reads
          /\ "reload" \in board'[w].reads => board'[w].reloading = board[w].reloading
      BY <1>1, <1>5, <1>6, <1>7 DEF Board
    <2>2. \A v \in 1..MaxVisits : v > board[w].visits => accepted'[w][v] = accepted[w][v]
      BY <1>1, <1>4, <1>11 DEF ViewOk, Board
    <2> QED BY <1>1, <1>3, <2>1, <2>2 DEF ViewOk, Shown
  <1>13. OrderInv' BY <1>9, <1>10, <1>12, Ordered
  <1>14. TakesDraft(w) BY <1>3, <1>5, <1>7, <1>11 DEF TakesDraft, a
  <1>15. Takes(w) BY <1>3, <1>4, <1>5, <1>7, <1>9, <1>10, <1>11, <1>14 DEF Takes, a
  <1> QED BY <1>13, <1>15

LEMMA OperationAnsweredOrdered ==
    ASSUME RegistryConstants, OrderInv, NEW w \in Windows, OperationAnswered(w)
    PROVE  OrderInv' /\ Takes(w)
  <1> DEFINE a == answers[w][1]
             o == Op(w)
             R == Superseded(w, a)
             d == IF Saves(w, a) THEN Dispatch(board[w], o.next) ELSE board[w]
             b == IF o.kind = "promotion" THEN Receive(d, a.reader, a.result = "ok", a.registry)
                  ELSE IF o.kind = "import" THEN d ELSE Feedback(d, o, a.result)
  <1>1. TypeOK /\ writes[w] \in Seq(Operation) /\ answers[w] \in Seq(Answers) /\ answers[w] # <<>>
        /\ board[w] \in Board /\ ReloadOk(w) /\ ViewOk(w) /\ OpsOk(w)
    BY DEF OrderInv, TypeOK, OperationAnswered
  <1>2. Head(answers[w]) = a BY <1>1, Popped
  <1>3. /\ a.done /\ board' = [board EXCEPT ![w] = b] /\ Accepts(w, a)
        /\ writes' = [writes EXCEPT ![w] = Unread(Tail(@), R)]
        /\ answers' = [answers EXCEPT ![w] = Unread(Tail(@), R)]
        /\ UNCHANGED <<row, events, task, overtaken, edits, failures>>
        /\ migrated' = (migrated \/ a.result = "ok")
    <2>1. board' = [board EXCEPT ![w] =
              IF Op(w).kind = "promotion" THEN Receive(d, a.reader, a.result = "ok", a.registry)
              ELSE IF Op(w).kind = "import" THEN d
              ELSE Feedback(d, Op(w), a.result)]
      BY <1>2 DEF OperationAnswered
    <2> QED BY <1>2, <2>1 DEF OperationAnswered
  <1> HIDE DEF a, b, R
  <1>4. /\ accepted' \in [Windows -> [1..MaxVisits -> Registry]]
        /\ \A u \in Windows \ {w} : accepted'[u] = accepted[u]
        /\ a \in Answers /\ 1 \in DOMAIN answers[w] /\ a.registry \in Registry
        /\ Saves(w, a) => a.registry = o.next
        /\ 1 \in DOMAIN writes[w] /\ o.phase = "answered" /\ o \in Operation
        /\ a.reader = o.reader /\ OpOk(o, 1, board[w].visits) /\ o.next \in Registry
        /\ a.reader = "reload" => Reloads(w) /\ o.kind = "promotion"
        /\ \A v \in 1..MaxVisits :
              accepted'[w][v] = IF Saves(w, a) THEN IF v = o.view THEN a.registry ELSE accepted[w][v]
                                ELSE IF a.reader = "reload" /\ a.result = "ok" /\ v = board[w].view
                                THEN a.registry ELSE accepted[w][v]
    <2>1. /\ accepted' \in [Windows -> [1..MaxVisits -> Registry]]
          /\ \A u \in Windows \ {w} : accepted'[u] = accepted[u]
          /\ a \in Answers /\ 1 \in DOMAIN answers[w]
          /\ Saves(w, a) => a.registry = o.next
          /\ 1 \in DOMAIN writes[w] /\ o.phase = "answered" /\ o \in Operation
          /\ a.reader = o.reader /\ OpOk(o, 1, board[w].visits)
          /\ a.reader = "reload" => Reloads(w)
          /\ \A v \in 1..MaxVisits :
                accepted'[w][v] = IF Saves(w, a) THEN IF v = o.view THEN a.registry ELSE accepted[w][v]
                                  ELSE IF a.reader = "reload" /\ a.result = "ok" /\ v = board[w].view
                                  THEN a.registry ELSE accepted[w][v]
      BY <1>1, <1>3, AcceptsTyped DEF a
    <2>2. a.reader = "reload" => o.kind = "promotion" BY <1>1, <2>1 DEF ReloadOk, Op
    <2> QED BY <2>1, <2>2 DEF Operation, Answers
  <1>5. /\ d \in Board /\ d.view = board[w].view /\ d.visits = board[w].visits
        /\ d.registry = IF Saves(w, a) /\ Shown(w) THEN a.registry ELSE board[w].registry
        /\ d.draft = board[w].draft /\ d.reloading = board[w].reloading
        /\ "reload" \in d.reads => "reload" \in board[w].reads
    <2>1. /\ Dispatch(board[w], o.next) \in Board
          /\ Dispatch(board[w], o.next).view = board[w].view
          /\ Dispatch(board[w], o.next).visits = board[w].visits
          /\ Dispatch(board[w], o.next).registry = IF board[w].view = 0 THEN board[w].registry ELSE o.next
          /\ Dispatch(board[w], o.next).draft = board[w].draft
          /\ Dispatch(board[w], o.next).reloading = board[w].reloading
      BY <1>1, <1>4, Dispatches
    <2>2. "reload" \in Dispatch(board[w], o.next).reads => "reload" \in board[w].reads
      BY <1>1 DEF Dispatch, Publish, Board
    <2> QED BY <1>1, <1>4, <2>1, <2>2 DEF Shown
  <1> DEFINE mine == o.kind = "write" /\ Mine(board[w], o)
  <1>6. Saves(w, a) <=> a.result = "ok" /\ o.kind # "promotion" BY <1>3 DEF Saves
  <1> HIDE DEF d, o
  <1>7. /\ b \in Board /\ b.view = board[w].view /\ b.visits = board[w].visits
        /\ b.registry = IF a.result = "ok" /\ (IF Saves(w, a) THEN Shown(w) ELSE a.reader # Unset)
                        THEN a.registry ELSE board[w].registry
        /\ b.reloading = (board[w].reloading /\ a.reader # "reload")
        /\ "reload" \in b.reads => "reload" \in board[w].reads /\ a.reader # "reload"
        /\ \/ b.draft = board[w].draft /\ ~mine /\ ~(a.reader = "reload" /\ a.result = "ok")
           \/ b.draft = Unset /\ a.result = "ok" /\ (mine \/ (a.reader = "reload" /\ ~Saves(w, a)))
           \/ mine /\ a.result # "ok" /\ b.draft # Unset
              /\ b.draft.by = 0 /\ b.draft.registry = board[w].draft.registry
    <2>1. CASE o.kind = "promotion"
      <3>1. b = Receive(d, a.reader, a.result = "ok", a.registry) BY <2>1 DEF b, o
      <3>2. a.reader \in Readers \cup {Unset} BY <1>4 DEF Answers
      <3> DEFINE ok == a.result = "ok"
      <3>3. ok \in BOOLEAN OBVIOUS
      <3> HIDE DEF ok
      <3>4. LET c == Receive(d, a.reader, ok, a.registry) IN
            /\ c \in Board /\ c.view = d.view /\ c.visits = d.visits
            /\ c.registry = IF a.reader # Unset /\ ok THEN a.registry ELSE d.registry
            /\ c.draft = IF a.reader = "reload" /\ ok THEN Unset ELSE d.draft
            /\ c.reloading = (d.reloading /\ a.reader # "reload")
        BY <1>4, <1>5, <3>2, <3>3, Receives
      <3>5. "reload" \in Receive(d, a.reader, ok, a.registry).reads =>
               "reload" \in d.reads /\ a.reader # "reload"
        BY <1>5, <3>2 DEF Receive, Publish, Board, Readers, RegistryConstants
      <3>6. ~mine /\ ~Saves(w, a) BY <1>6, <2>1
      <3> QED BY <1>5, <3>1, <3>4, <3>5, <3>6 DEF ok
    <2>2. CASE o.kind = "import"
      <3>1. b = d BY <2>2 DEF b, o
      <3> QED BY <1>4, <1>5, <1>6, <2>2, <3>1 DEF Board
    <2>3. CASE o.kind = "write"
      <3>1. b = Feedback(d, o, a.result) BY <2>3 DEF b, o
      <3>2. a.result \in {"ok", "unread", "unwritten", "conflict"} BY <1>4 DEF Answers
      <3>3. LET c == Feedback(d, o, a.result) IN
            /\ c \in Board /\ c.view = d.view /\ c.visits = d.visits
            /\ c.registry = d.registry /\ c.reloading = d.reloading
            /\ ~Mine(d, o) => c.draft = d.draft
            /\ Mine(d, o) /\ a.result = "ok" => c.draft = Unset
            /\ Mine(d, o) /\ a.result # "ok" => c.draft.by = 0 /\ c.draft.registry = d.draft.registry
        BY <1>4, <1>5, <3>2, FeedsBack
      <3>4. Mine(d, o) <=> mine BY <1>5, <2>3 DEF Mine
      <3>5. Mine(d, o) /\ a.result # "ok" => Feedback(d, o, a.result).draft # Unset
        <4>1. SUFFICES ASSUME Mine(d, o), a.result # "ok" PROVE Feedback(d, o, a.result).draft # Unset
          OBVIOUS
        <4>2. d.draft \in Drafts BY <1>5, <4>1 DEF Mine, Board
        <4>3. [d.draft EXCEPT !.by = 0] \in Drafts BY <4>2 DEF Drafts, RegistryConstants
        <4>4. Feedback(d, o, a.result).draft = [d.draft EXCEPT !.by = 0]
          BY <1>5, <4>1 DEF Feedback, Mine, Board
        <4> QED BY <4>3, <4>4 DEF RegistryConstants
      <3>6. Feedback(d, o, a.result).reads = d.reads BY <1>5 DEF Feedback, Board
      <3>7. a.reader # "reload" BY <1>4, <2>3
      <3> QED BY <1>4, <1>5, <1>6, <2>3, <3>1, <3>3, <3>4, <3>5, <3>6, <3>7 DEF Board
    <2> QED BY <1>4, <2>1, <2>2, <2>3 DEF Operation
  <1> HIDE DEF mine
  <1>8. board' \in [Windows -> Board] /\ board'[w] = b /\ \A u \in Windows \ {w} : board'[u] = board[u]
    BY <1>1, <1>3, <1>7, BoardSet
  <1>9. ASSUME Reloads(w), ~NoReloads(w)' PROVE Reloads(w)'
    <2>1. writes'[w] = Unread(Tail(writes[w]), R) /\ answers'[w] = Unread(Tail(answers[w]), R)
      BY <1>1, <1>3 DEF TypeOK
    <2>2. writes[w] # <<>> BY <1>1, <1>4
    <2>3. /\ Drops(writes[w], writes'[w], 1) /\ Passes(answers[w], answers'[w], 1)
          /\ writes'[w] \in Seq(Operation) /\ answers'[w] \in Seq(Answers)
      BY <1>1, <2>1, <2>2, RestOfOps, RestOfAnswers
    <2>4. a.reader # "reload"
      <3> SUFFICES ASSUME a.reader = "reload" PROVE NoReloads(w)' BY <1>9
      <3>1. /\ \A j \in DOMAIN answers[w] : answers[w][j].reader = "reload" => 1 = j
            /\ \A j \in DOMAIN writes[w] : writes[w][j].reader = "reload" => 1 = j
        BY <1>1, <1>4 DEF ReloadOk, a, o, Op
      <3>2. Unset # "reload" /\ (\A i \in DOMAIN writes'[w] : i + 1 # 1)
            /\ \A i \in DOMAIN answers'[w] : i + 1 # 1
        BY <2>3, SeqDomain DEF RegistryConstants, Readers
      <3>3. \A i \in DOMAIN writes'[w] : writes'[w][i].reader # "reload"
        BY <2>3, <3>1, <3>2 DEF Drops, SameOp
      <3>4. \A i \in DOMAIN answers'[w] : answers'[w][i].reader # "reload"
        BY <2>3, <3>1, <3>2 DEF Passes
      <3> QED BY <3>3, <3>4 DEF NoReloads
    <2>5. board'[w].view = board[w].view /\ board'[w].reloading = board[w].reloading
      BY <1>1, <1>7, <1>8, <2>4 DEF Board
    <2>6. \A k \in DOMAIN writes'[w] : ~Owns(w, k)' BY <1>9, <2>3, <2>5, OwnsDrop DEF Reloads
    <2> QED BY <1>9, <2>5, <2>6 DEF Reloads, Shown
  <1>10. /\ QueueTypes' /\ Drops(writes[w], writes'[w], 1) /\ Passes(answers[w], answers'[w], 1)
         /\ \A u \in Windows \ {w} : writes'[u] = writes[u] /\ answers'[u] = answers[u]
         /\ OpsOk(w)' /\ DoneOk(w)' /\ ReloadOk(w)'
    BY <1>1, <1>3, <1>7, <1>8, <1>9, OperationTaken DEF a
  <1>11. migrated' \in BOOLEAN BY <1>1, <1>3 DEF TypeOK
  <1>12. TypeOK' /\ OneWindow(w)
    BY <1>3, <1>4, <1>8, <1>10, <1>11 DEF OrderInv, TypeOK, QueueTypes, OneWindow
  <1>13. ViewOk(w)'
    <2>1. /\ board'[w].view = board[w].view /\ board'[w].visits = board[w].visits
          /\ "reload" \in board'[w].reads => "reload" \in board[w].reads
          /\ "reload" \in board'[w].reads => board'[w].reloading = board[w].reloading
      BY <1>1, <1>7, <1>8 DEF Board
    <2>2. ASSUME NEW v \in 1..MaxVisits, v > board[w].visits PROVE accepted'[w][v] = accepted[w][v]
      <3>1. Saves(w, a) => o.view \in 0..board[w].visits
        BY <1>1, <1>4, <1>6 DEF OpOk, Operation, Board
      <3>2. v # board[w].view /\ (Saves(w, a) => v # o.view) BY <1>1, <2>2, <3>1 DEF ViewOk, Board
      <3> QED BY <1>4, <3>2
    <2> QED BY <1>1, <1>3, <2>1, <2>2 DEF ViewOk, Shown
  <1>14. OrderInv' BY <1>10, <1>12, <1>13, Ordered
  <1>15. TakesDraft(w) BY <1>3, <1>7, <1>8 DEF TakesDraft, a, o, mine
  <1>16. Takes(w)
    <2>1. /\ task' = task /\ a.done /\ (a.done => /\ 1 \in DOMAIN writes[w] /\ Op(w).phase = "answered"
                                                  /\ Saves(w, a) => a.registry = Op(w).next)
          /\ a.reader = "reload" => Reloads(w)
      BY <1>3, <1>4 DEF o
    <2>2. board'[w].view = board[w].view /\ board'[w].registry =
          IF a.result = "ok" /\ (IF Saves(w, a) THEN Shown(w) ELSE a.reader # Unset)
          THEN a.registry ELSE board[w].registry
      BY <1>7, <1>8
    <2>3. \A v \in 1..MaxVisits :
              accepted'[w][v] = IF Saves(w, a) THEN IF v = Op(w).view THEN a.registry ELSE accepted[w][v]
                                ELSE IF a.reader = "reload" /\ a.result = "ok" /\ v = board[w].view
                                THEN a.registry ELSE accepted[w][v]
      BY <1>4 DEF o
    <2> QED BY <1>4, <1>10, <1>12, <1>15, <2>1, <2>2, <2>3 DEF Takes, a
  <1> QED BY <1>14, <1>16

\* The queues stay as they are.
LEMMA QueuesStay ==
    ASSUME RegistryConstants, OrderInv, NEW w \in Windows, writes' = writes, answers' = answers,
           board'[w].visits >= board[w].visits, board'[w].visits \in Nat,
           ~Reloads(w) \/ (board'[w].view = board[w].view /\ board'[w].reloading = board[w].reloading)
    PROVE  /\ QueueTypes' /\ OpsOk(w)' /\ DoneOk(w)' /\ ReloadOk(w)'
           /\ Drops(writes[w], writes'[w], 0) /\ Rests(writes[w], writes'[w])
           /\ Passes(answers[w], answers'[w], 0)
  <1>1. /\ TypeOK /\ writes[w] \in Seq(Operation) /\ answers[w] \in Seq(Answers)
        /\ OpsOk(w) /\ DoneOk(w) /\ ReloadOk(w) /\ board[w].visits \in Nat
    BY DEF OrderInv, TypeOK, Board
  <1>2. QueueTypes' BY <1>1 DEF TypeOK, QueueTypes
  <1>3. /\ Drops(writes[w], writes'[w], 0) /\ Rests(writes[w], writes'[w])
        /\ Passes(answers[w], answers'[w], 0)
    BY <1>1, StayedOps, StayedAnswers
  <1>4. OpsOk(w)' BY <1>2, <1>3, OpsDrop
  <1>5. DoneOk(w)' BY <1>1 DEF DoneOk, Op
  <1>6. Reloads(w) => Reloads(w)' \/ NoReloads(w)' BY DEF Reloads, Owns, Shown
  <1>7. ReloadOk(w)' BY <1>2, <1>3, <1>6, ReloadKeeps
  <1> QED BY <1>2, <1>3, <1>4, <1>5, <1>7

LEMMA EmptyTyped ==
    ASSUME RegistryConstants, NEW n \in 0..MaxVisits, NEW v \in 0..MaxVisits
    PROVE  LET b == EmptyBoard(n, v) IN
           /\ b \in Board /\ b.view = v /\ b.visits = n /\ b.registry = {} /\ b.draft = Unset
           /\ b.reloading = FALSE /\ "reload" \notin b.reads
  BY DEF EmptyBoard, Board, Readers, Registry, RegistryConstants

\* The board is empty, and forgets its draft.
Empties(w) == Stays(w) /\ board'[w].registry = {} /\ board'[w].draft = Unset

LEMMA EnterOrdered ==
    ASSUME RegistryConstants, OrderInv, NEW w \in Windows, Enter(w)
    PROVE  /\ OrderInv' /\ Empties(w)
           /\ board'[w].view > board[w].visits /\ board'[w].view \in 1..MaxVisits
  <1> DEFINE v == board[w].visits + 1
  <1>1. TypeOK /\ board[w] \in Board /\ ViewOk(w) /\ edits' \in 0..MaxInputs
    BY InputCounts DEF OrderInv, TypeOK, Enter
  <1>2. v \in 1..MaxVisits /\ v \in 0..MaxVisits /\ v > board[w].visits /\ board[w].visits \in Nat
    BY <1>1 DEF Enter, Board, RegistryConstants
  <1>3. /\ board' = [board EXCEPT ![w] = EmptyBoard(v, v)]
        /\ UNCHANGED <<row, migrated, accepted, writes, answers, events, task, overtaken, failures>>
    BY DEF Enter
  <1> DEFINE b == EmptyBoard(v, v)
  <1> HIDE DEF v
  <1>4. /\ b \in Board /\ b.view = v /\ b.visits = v /\ b.registry = {} /\ b.draft = Unset
        /\ b.reloading = FALSE /\ "reload" \notin b.reads
    BY <1>2, EmptyTyped
  <1> HIDE DEF b
  <1>5. board' \in [Windows -> Board] /\ board'[w] = b /\ \A u \in Windows \ {w} : board'[u] = board[u]
    BY <1>1, <1>3, <1>4, BoardSet DEF b
  <1>6. ~Reloads(w) BY DEF Enter, Reloads
  <1>7. board'[w].visits = v /\ board'[w].visits >= board[w].visits /\ board'[w].visits \in Nat
    BY <1>2, <1>4, <1>5
  <1>8. /\ QueueTypes' /\ OpsOk(w)' /\ DoneOk(w)' /\ ReloadOk(w)'
        /\ Drops(writes[w], writes'[w], 0) /\ Rests(writes[w], writes'[w])
        /\ Passes(answers[w], answers'[w], 0)
    BY <1>3, <1>6, <1>7, QueuesStay
  <1>9. TypeOK' /\ OneWindow(w) BY <1>1, <1>3, <1>5, <1>8 DEF TypeOK, QueueTypes, OneWindow
  <1>10. ViewOk(w)'
    <2>1. /\ \A x \in 1..MaxVisits : x > v => x > board[w].visits
          /\ \A x \in 1..MaxVisits : x <= board[w].visits => x <= v
      BY <1>2
    <2>2. task[w] \in {Unset} \cup Tasks BY <1>1 DEF TypeOK
    <2> QED BY <1>1, <1>3, <1>4, <1>5, <2>1, <2>2 DEF ViewOk, Tasks
  <1>11. OrderInv' BY <1>8, <1>9, <1>10, Ordered
  <1> QED BY <1>2, <1>3, <1>4, <1>5, <1>8, <1>9, <1>11 DEF Empties, Stays

LEMMA LeaveOrdered ==
    ASSUME RegistryConstants, OrderInv, NEW w \in Windows, Leave(w)
    PROVE  OrderInv' /\ Empties(w) /\ board'[w].view = 0
  <1>1. TypeOK /\ board[w] \in Board /\ ViewOk(w) /\ edits' \in 0..MaxInputs
        /\ writes[w] \in Seq(Operation) /\ answers[w] \in Seq(Answers)
    BY InputCounts DEF OrderInv, TypeOK, Leave
  <1> DEFINE b == EmptyBoard(board[w].visits, 0)
  <1>2. /\ board' = [board EXCEPT ![w] = b]
        /\ answers' = [answers EXCEPT ![w] = Unread(@, Readers)]
        /\ writes' = [writes EXCEPT ![w] = Unread(@, Readers)]
        /\ UNCHANGED <<row, migrated, accepted, events, task, overtaken, failures>>
    BY DEF Leave
  <1>3. board[w].visits \in 0..MaxVisits /\ 0 \in 0..MaxVisits BY <1>1 DEF Board, RegistryConstants
  <1>4. /\ b \in Board /\ b.view = 0 /\ b.visits = board[w].visits /\ b.registry = {} /\ b.draft = Unset
        /\ b.reloading = FALSE /\ "reload" \notin b.reads
    BY <1>3, EmptyTyped
  <1> HIDE DEF b
  <1>5. board' \in [Windows -> Board] /\ board'[w] = b /\ \A u \in Windows \ {w} : board'[u] = board[u]
    BY <1>1, <1>2, <1>4, BoardSet
  <1>6. NoReloads(w)'
    <2>1. writes'[w] = Unread(writes[w], Readers) /\ answers'[w] = Unread(answers[w], Readers)
      BY <1>1, <1>2 DEF TypeOK
    <2>2. Unset # "reload" /\ "reload" \in Readers BY DEF RegistryConstants, Readers
    <2>3. \A i \in DOMAIN writes'[w] : writes'[w][i].reader # "reload"
      BY <1>1, <2>1, <2>2, UnreadOps
    <2>4. \A i \in DOMAIN answers'[w] : answers'[w][i].reader # "reload"
      BY <1>1, <2>1, <2>2, UnreadAnswers
    <2> QED BY <2>3, <2>4 DEF NoReloads
  <1>7. board'[w].visits >= board[w].visits /\ board'[w].visits \in Nat BY <1>3, <1>4, <1>5
  <1>8. /\ QueueTypes' /\ Drops(writes[w], writes'[w], 0) /\ Rests(writes[w], writes'[w])
        /\ Passes(answers[w], answers'[w], 0)
        /\ \A u \in Windows \ {w} : writes'[u] = writes[u] /\ answers'[u] = answers[u]
        /\ OpsOk(w)' /\ DoneOk(w)' /\ ReloadOk(w)'
    BY <1>2, <1>6, <1>7, Silenced
  <1>9. TypeOK' /\ OneWindow(w) BY <1>1, <1>2, <1>5, <1>8 DEF TypeOK, QueueTypes, OneWindow
  <1>10. ViewOk(w)' BY <1>1, <1>2, <1>4, <1>5 DEF ViewOk
  <1>11. OrderInv' BY <1>8, <1>9, <1>10, Ordered
  <1> QED BY <1>2, <1>4, <1>5, <1>8, <1>9, <1>11 DEF Empties, Stays

LEMMA ReloadOrdered ==
    ASSUME RegistryConstants, OrderInv, NEW w \in Windows, Reload(w)
    PROVE  OrderInv' /\ Stays(w) /\ Shows(w)
  <1>1. TypeOK /\ board[w] \in Board /\ ViewOk(w) /\ edits' \in 0..MaxInputs
    BY InputCounts DEF OrderInv, TypeOK, Reload
  <1> DEFINE b == [board[w] EXCEPT !.reloading = TRUE, !.reads = @ \cup {"reload"}]
  <1>2. /\ board' = [board EXCEPT ![w] = b] /\ Shown(w)
        /\ UNCHANGED <<row, migrated, accepted, writes, answers, events, task, overtaken, failures>>
    BY <1>1 DEF Reload, TypeOK
  <1>3. /\ b \in Board /\ b.view = board[w].view /\ b.visits = board[w].visits
        /\ b.registry = board[w].registry /\ b.draft = board[w].draft /\ b.reloading = TRUE
    BY <1>1 DEF Board, Readers
  <1> HIDE DEF b
  <1>4. board' \in [Windows -> Board] /\ board'[w] = b /\ \A u \in Windows \ {w} : board'[u] = board[u]
    BY <1>1, <1>2, <1>3, BoardSet
  <1>5. ~Reloads(w) BY DEF Reload, Reloads
  <1>6. board'[w].visits >= board[w].visits /\ board'[w].visits \in Nat
    BY <1>1, <1>3, <1>4 DEF Board
  <1>7. /\ QueueTypes' /\ OpsOk(w)' /\ DoneOk(w)' /\ ReloadOk(w)'
        /\ Drops(writes[w], writes'[w], 0) /\ Rests(writes[w], writes'[w])
        /\ Passes(answers[w], answers'[w], 0)
    BY <1>2, <1>5, <1>6, QueuesStay
  <1>8. TypeOK' /\ OneWindow(w) BY <1>1, <1>2, <1>4, <1>7 DEF TypeOK, QueueTypes, OneWindow
  <1>9. ViewOk(w)' BY <1>1, <1>2, <1>3, <1>4 DEF ViewOk, Shown
  <1>10. OrderInv' BY <1>7, <1>8, <1>9, Ordered
  <1> QED BY <1>2, <1>3, <1>4, <1>7, <1>8, <1>10 DEF Shows, Stays

\* A task begins or ends, and nothing else moves.
TaskMoves(w) ==
    /\ OneWindow(w) /\ board' = board /\ accepted' = accepted /\ writes' = writes /\ answers' = answers

LEMMA VisibleTyped ==
    ASSUME TypeOK, NEW w \in Windows PROVE Visible(w) \in Registry
  BY DEF TypeOK, Board, Drafts, Visible

LEMMA BeginOrdered ==
    ASSUME RegistryConstants, OrderInv, NEW w \in Windows, NEW kind \in {"dialog", "captured"},
           Begin(w, kind)
    PROVE  /\ OrderInv' /\ TaskMoves(w) /\ Shown(w) /\ edits' = edits + 1
           /\ task'[w] # Unset /\ task'[w].base = Visible(w) /\ task'[w].edit = edits'
  <1> DEFINE t == [kind |-> kind, view |-> board[w].view, base |-> Visible(w), edit |-> edits']
  <1>1. TypeOK /\ board[w] \in Board /\ ViewOk(w) /\ edits' \in 1..MaxInputs /\ edits' = edits + 1
    BY InputCounts DEF OrderInv, TypeOK, Begin
  <1>2. t \in Tasks BY <1>1, VisibleTyped DEF Tasks, Begin, Shown, Board
  <1>3. /\ task' = [task EXCEPT ![w] = t] /\ Shown(w)
        /\ UNCHANGED <<row, migrated, board, accepted, writes, answers, events, overtaken, failures>>
    BY DEF Begin
  <1>4. t.view = board[w].view /\ t.base = Visible(w) /\ t.edit = edits' OBVIOUS
  <1> HIDE DEF t
  <1>5. t # Unset BY <1>2 DEF RegistryConstants
  <1>6. /\ task' \in [Windows -> {Unset} \cup Tasks] /\ task'[w] = t
        /\ \A u \in Windows \ {w} : task'[u] = task[u]
    BY <1>1, <1>2, <1>3 DEF TypeOK
  <1>7. TypeOK' /\ OneWindow(w) /\ TaskMoves(w) BY <1>1, <1>3, <1>6 DEF TypeOK, OneWindow, TaskMoves
  <1>8. OpsOk(w)' /\ DoneOk(w)' /\ ReloadOk(w)' BY <1>1, <1>3, QueuesStay DEF Board
  <1>9. ViewOk(w)'
    <2>1. t.view <= board[w].visits BY <1>1, <1>3, <1>4 DEF ViewOk, Shown, Board
    <2> QED BY <1>1, <1>3, <1>6, <2>1 DEF ViewOk, Shown
  <1>10. OrderInv' BY <1>7, <1>8, <1>9, Ordered
  <1> QED BY <1>1, <1>3, <1>4, <1>5, <1>6, <1>7, <1>10

LEMMA ElsewhereOrdered ==
    ASSUME RegistryConstants, OrderInv, CommitElsewhere
    PROVE  /\ OrderInv' /\ edits' = edits + 1
           /\ UNCHANGED <<board, accepted, writes, answers, task, overtaken>>
           /\ row' \in {IF row = Unset THEN Legacy ELSE row \cup {edits'}, {edits'}}
  <1>1. /\ TypeOK /\ edits' = edits + 1 /\ edits' \in 1..MaxInputs
        /\ UNCHANGED <<board, accepted, writes, answers, task, overtaken, failures>>
        /\ row' \in {IF row = Unset THEN Legacy ELSE row \cup {edits'}, {edits'}}
        /\ events' = [w \in Windows |-> events[w] + 1]
        /\ migrated' = (migrated \/ row' = Legacy)
    BY InputCounts DEF OrderInv, CommitElsewhere
  <1>2. row' \in Registry BY <1>1 DEF TypeOK, Registry
  <1>3. TypeOK' BY <1>1, <1>2, EventsSent DEF TypeOK
  <1>4. ASSUME NEW w \in Windows PROVE (OpsOk(w) /\ DoneOk(w) /\ ViewOk(w) /\ ReloadOk(w))'
    <2>1. OpsOk(w)' /\ DoneOk(w)' /\ ReloadOk(w)'
      <3>1. board[w].visits \in Nat /\ board'[w] = board[w] BY <1>1 DEF TypeOK, Board
      <3>2. board'[w].visits >= board[w].visits /\ board'[w].visits \in Nat BY <3>1
      <3> QED BY <1>1, <3>1, <3>2, QueuesStay
    <2>2. ViewOk(w)' BY <1>1 DEF OrderInv, ViewOk, Shown
    <2> QED BY <2>1, <2>2
  <1> QED BY <1>1, <1>3, <1>4 DEF OrderInv

\* A board saves next, an edit e of what it shows: the draft is shown, the write joins.
Joins(w, e, view, next, guard) ==
    \E o : /\ AddsOp(w, o) /\ o.kind = "write" /\ o.by = e /\ o.view = view /\ o.next = next
           /\ o.guard = guard /\ o.seen = Unset /\ o.phase = "queued"
Drafted(w, e, next) ==
    /\ board'[w].view = board[w].view /\ board'[w].registry = board[w].registry
    /\ board'[w].draft # Unset /\ board'[w].draft.by = e /\ board'[w].draft.registry = next
Persisted(w, e, next) ==
    /\ Admits(w) /\ Joins(w, e, board[w].view, next, Unset) /\ Drafted(w, e, next)
    /\ \A v \in 1..MaxVisits :
          accepted'[w][v] = IF board[w].draft = Unset /\ v = board[w].view THEN board[w].registry
                            ELSE accepted[w][v]

LEMMA AdmitsNoReload == ASSUME OrderInv, NEW w \in Windows, Admits(w) PROVE NoReloads(w)
  BY ReloadsWait DEF OrderInv, Admits, Reloads

LEMMA Drafts_ ==
    ASSUME RegistryConstants, OrderInv, NEW w \in Windows, NEW e \in 1..MaxInputs, NEW next \in Registry,
           Draft(w, e, next)
    PROVE  /\ board' \in [Windows -> Board] /\ \A u \in Windows \ {w} : board'[u] = board[u]
           /\ Drafted(w, e, next) /\ board'[w].visits = board[w].visits
           /\ board'[w].reloading = board[w].reloading /\ board'[w].reads = board[w].reads
  <1> DEFINE d == [by |-> e, registry |-> next]
             b == [board[w] EXCEPT !.draft = d]
  <1>1. TypeOK /\ board[w] \in Board BY DEF OrderInv, TypeOK
  <1>2. d \in Drafts /\ d.by = e /\ d.registry = next BY DEF Drafts, RegistryConstants
  <1>3. board' = [board EXCEPT ![w] = b] BY <1>1 DEF Draft, TypeOK
  <1> HIDE DEF d
  <1>4. d # Unset BY <1>2 DEF RegistryConstants
  <1>5. /\ b \in Board /\ b.view = board[w].view /\ b.visits = board[w].visits
        /\ b.registry = board[w].registry /\ b.draft = d /\ b.reloading = board[w].reloading
        /\ b.reads = board[w].reads
    BY <1>1, <1>2 DEF Board
  <1> HIDE DEF b
  <1>6. board' \in [Windows -> Board] /\ board'[w] = b /\ \A u \in Windows \ {w} : board'[u] = board[u]
    BY <1>1, <1>3, <1>5, BoardSet
  <1> QED BY <1>2, <1>4, <1>5, <1>6 DEF Drafted

LEMMA PersistOrdered ==
    ASSUME RegistryConstants, OrderInv, NEW w \in Windows, NEW e \in 1..MaxInputs, NEW next \in Registry,
           Admits(w), Persist(w, e, next), e \in next,
           UNCHANGED <<row, migrated, answers, events, failures>>,
           edits' \in 0..MaxInputs, overtaken' \in BOOLEAN,
           task' \in {task, [task EXCEPT ![w] = Unset]}
    PROVE  OrderInv' /\ Persisted(w, e, next)
  <1> DEFINE o == [kind |-> "write", by |-> e, view |-> board[w].view, next |-> next, guard |-> Unset,
                   reader |-> Unset, seen |-> Unset, phase |-> "queued"]
  <1>1. /\ TypeOK /\ board[w] \in Board /\ ViewOk(w) /\ MaxVisits \in Nat /\ e # 0 /\ Shown(w)
        /\ accepted \in [Windows -> [1..MaxVisits -> Registry]]
    BY DEF OrderInv, TypeOK, RegistryConstants, Admits
  <1>2. board[w].view \in 1..MaxVisits /\ board[w].view \in 1..board[w].visits
    BY <1>1 DEF Board, Shown, ViewOk
  <1>3. o \in Operation /\ OpOk(o, 0, board[w].visits) BY <1>1, <1>2 DEF Operation, OpOk
  <1>4. writes' = [writes EXCEPT ![w] = Append(@, o)] /\ Draft(w, e, next) BY DEF Persist, Enqueue
  <1>5. /\ o.kind = "write" /\ o.by = e /\ o.view = board[w].view /\ o.next = next
        /\ o.guard = Unset /\ o.seen = Unset /\ o.phase = "queued" /\ o.reader = Unset
    OBVIOUS
  <1> HIDE DEF o
  <1>6. /\ board' \in [Windows -> Board] /\ \A u \in Windows \ {w} : board'[u] = board[u]
        /\ Drafted(w, e, next) /\ board'[w].visits = board[w].visits
        /\ board'[w].reloading = board[w].reloading /\ board'[w].reads = board[w].reads
    BY <1>4, Drafts_
  <1>7. NoReloads(w) /\ o.reader # "reload" BY <1>5, AdmitsNoReload DEF RegistryConstants, Readers
  <1>8. /\ QueueTypes' /\ Adds(writes[w], writes'[w], o)
        /\ \A u \in Windows \ {w} : writes'[u] = writes[u]
        /\ OpsOk(w)' /\ DoneOk(w)' /\ ReloadOk(w)'
    BY <1>3, <1>4, <1>5, <1>6, <1>7, Enqueued
  <1>9. /\ accepted' \in [Windows -> [1..MaxVisits -> Registry]]
        /\ \A u \in Windows \ {w} : accepted'[u] = accepted[u]
        /\ \A v \in 1..MaxVisits :
              accepted'[w][v] = IF board[w].draft = Unset /\ v = board[w].view THEN board[w].registry
                                ELSE accepted[w][v]
    <2>1. board[w].registry \in Registry BY <1>1 DEF Board
    <2>2. accepted' = IF board[w].draft = Unset
                      THEN [accepted EXCEPT ![w][board[w].view] = board[w].registry] ELSE accepted
      BY DEF Persist
    <2> QED BY <1>1, <1>2, <2>1, <2>2
  <1>10. /\ task' \in [Windows -> {Unset} \cup Tasks] /\ task'[w] \in {task[w], Unset}
         /\ \A u \in Windows \ {w} : task'[u] = task[u]
    BY <1>1 DEF TypeOK
  <1>11. TypeOK' /\ OneWindow(w) BY <1>1, <1>6, <1>8, <1>9, <1>10 DEF TypeOK, QueueTypes, OneWindow
  <1>12. ViewOk(w)'
    <2>1. \A v \in 1..MaxVisits : v > board[w].visits => accepted'[w][v] = accepted[w][v]
      BY <1>1, <1>2, <1>9 DEF Board
    <2>2. board'[w].view = board[w].view BY <1>6 DEF Drafted
    <2> QED BY <1>1, <1>6, <1>10, <2>1, <2>2 DEF ViewOk, Shown
  <1>13. OrderInv' BY <1>8, <1>11, <1>12, Ordered
  <1>14. Joins(w, e, board[w].view, next, Unset) BY <1>5, <1>8, <1>11 DEF Joins, AddsOp
  <1> QED BY <1>6, <1>9, <1>13, <1>14 DEF Persisted

LEMMA EditOrdered ==
    ASSUME RegistryConstants, OrderInv, NEW w \in Windows, Edit(w)
    PROVE  /\ OrderInv' /\ Persisted(w, edits', Visible(w) \cup {edits'})
           /\ task' = task /\ edits' = edits + 1
  <1>1. TypeOK /\ edits' = edits + 1 /\ edits' \in 1..MaxInputs /\ edits' \in 0..MaxInputs
    BY InputCounts DEF OrderInv, Edit
  <1>2. Visible(w) \cup {edits'} \in Registry BY <1>1, VisibleTyped DEF Registry
  <1>3. /\ Admits(w) /\ Persist(w, edits', Visible(w) \cup {edits'})
        /\ UNCHANGED <<row, migrated, answers, events, task, overtaken, failures>>
    BY DEF Edit
  <1>4. overtaken' \in BOOLEAN BY <1>1, <1>3 DEF TypeOK
  <1> QED BY <1>1, <1>2, <1>3, <1>4, PersistOrdered

LEMMA TaskEnds ==
    ASSUME TypeOK, NEW w \in Windows, task' = [task EXCEPT ![w] = Unset]
    PROVE  /\ task' \in [Windows -> {Unset} \cup Tasks] /\ task'[w] = Unset
           /\ \A u \in Windows \ {w} : task'[u] = task[u]
  BY DEF TypeOK

LEMMA TaskTyped ==
    ASSUME TypeOK, NEW w \in Windows, task[w] # Unset
    PROVE  /\ task[w].base \in Registry /\ task[w].edit \in 1..MaxInputs /\ task[w].view \in 1..MaxVisits
           /\ task[w].base \cup {task[w].edit} \in Registry
  BY DEF TypeOK, Tasks, Registry

\* The task is over.
Over(w) ==
    /\ OneWindow(w) /\ Shows(w) /\ accepted' = accepted /\ writes' = writes /\ answers' = answers
    /\ task'[w] = Unset

LEMMA OverOrdered ==
    ASSUME RegistryConstants, OrderInv, NEW w \in Windows, task' = [task EXCEPT ![w] = Unset],
           UNCHANGED <<row, migrated, board, accepted, writes, answers, events, edits, failures>>,
           overtaken' \in BOOLEAN
    PROVE  OrderInv' /\ Over(w)
  <1>1. TypeOK /\ board[w] \in Board /\ ViewOk(w) BY DEF OrderInv, TypeOK
  <1>2. /\ task' \in [Windows -> {Unset} \cup Tasks] /\ task'[w] = Unset
        /\ \A u \in Windows \ {w} : task'[u] = task[u]
    BY <1>1, TaskEnds
  <1>3. TypeOK' /\ OneWindow(w) BY <1>1, <1>2 DEF TypeOK, OneWindow
  <1>4. board'[w].visits >= board[w].visits /\ board'[w].visits \in Nat BY <1>1 DEF Board
  <1>5. OpsOk(w)' /\ DoneOk(w)' /\ ReloadOk(w)' BY <1>4, QueuesStay
  <1>6. ViewOk(w)' BY <1>1, <1>2 DEF ViewOk, Shown
  <1> QED BY <1>2, <1>3, <1>5, <1>6, Ordered DEF Over, Shows

LEMMA FinishDialogOrdered ==
    ASSUME RegistryConstants, OrderInv, NEW w \in Windows, FinishDialog(w)
    PROVE  /\ OrderInv' /\ task[w] # Unset /\ task'[w] = Unset
           /\ \/ Over(w)
              \/ /\ Persisted(w, task[w].edit, task[w].base \cup {task[w].edit})
                 /\ overtaken' \/ Visible(w) = task[w].base
  <1>1. TypeOK /\ task[w] # Unset /\ task' = [task EXCEPT ![w] = Unset]
    BY DEF OrderInv, FinishDialog
  <1>2. /\ UNCHANGED <<row, migrated, answers, events, edits, failures>>
        /\ overtaken' = (overtaken \/ (Admits(w) /\ Visible(w) # task[w].base))
    BY DEF FinishDialog
  <1>3. overtaken' \in BOOLEAN /\ edits' \in 0..MaxInputs BY <1>1, <1>2 DEF TypeOK
  <1>4. task'[w] = Unset BY <1>1, TaskEnds
  <1>5. CASE Admits(w)
    <2>1. Persist(w, task[w].edit, task[w].base \cup {task[w].edit}) BY <1>5 DEF FinishDialog
    <2>2. OrderInv' /\ Persisted(w, task[w].edit, task[w].base \cup {task[w].edit})
      BY <1>1, <1>2, <1>3, <1>5, <2>1, TaskTyped, PersistOrdered
    <2> QED BY <1>1, <1>2, <1>4, <1>5, <2>2
  <1>6. CASE ~Admits(w)
    <2>1. UNCHANGED <<board, accepted, writes>> BY <1>6 DEF FinishDialog
    <2> QED BY <1>1, <1>2, <1>3, <1>4, <2>1, OverOrdered
  <1> QED BY <1>5, <1>6

\* A repository operation saves what it captured, in the view that is shown or in the
\* one that was.
Captured(w) ==
    LET t == task[w] IN
    /\ Joins(w, t.edit, t.view, t.base \cup {t.edit}, t.base)
    /\ accepted' = accepted
    /\ \/ /\ board[w].view = t.view /\ Admits(w) /\ Visible(w) = t.base
          /\ Drafted(w, t.edit, t.base \cup {t.edit})
       \/ board[w].view # t.view /\ board' = board

LEMMA FinishCapturedOrdered ==
    ASSUME RegistryConstants, OrderInv, NEW w \in Windows, FinishCaptured(w)
    PROVE  OrderInv' /\ task[w] # Unset /\ task'[w] = Unset /\ (Over(w) \/ Captured(w))
  <1> DEFINE t == task[w]
             next == t.base \cup {t.edit}
             here == board[w].view = t.view
             o == [kind |-> "write", by |-> t.edit, view |-> t.view, next |-> next, guard |-> t.base,
                   reader |-> Unset, seen |-> Unset, phase |-> "queued"]
  <1>1. /\ TypeOK /\ board[w] \in Board /\ ViewOk(w) /\ t # Unset /\ board[w].visits \in Nat
        /\ task' = [task EXCEPT ![w] = Unset] /\ t.view <= board[w].visits
        /\ UNCHANGED <<row, migrated, accepted, answers, events, overtaken, edits, failures>>
    BY DEF OrderInv, TypeOK, FinishCaptured, ViewOk, Board
  <1>2. /\ t.base \in Registry /\ t.edit \in 1..MaxInputs /\ t.view \in 1..MaxVisits /\ next \in Registry
    BY <1>1, TaskTyped
  <1>3. /\ task' \in [Windows -> {Unset} \cup Tasks] /\ task'[w] = Unset
        /\ \A u \in Windows \ {w} : task'[u] = task[u]
    BY <1>1, TaskEnds
  <1>4. CASE here /\ Visible(w) # t.base
    <2> DEFINE b == [board[w] EXCEPT !.conflicted = TRUE]
    <2>1. board' = [board EXCEPT ![w] = b] /\ writes' = writes
      BY <1>1, <1>4 DEF FinishCaptured, TypeOK
    <2>2. /\ b \in Board /\ b.view = board[w].view /\ b.visits = board[w].visits
          /\ b.registry = board[w].registry /\ b.draft = board[w].draft
          /\ b.reloading = board[w].reloading /\ b.reads = board[w].reads
      BY <1>1 DEF Board
    <2> HIDE DEF b
    <2>3. board' \in [Windows -> Board] /\ board'[w] = b /\ \A u \in Windows \ {w} : board'[u] = board[u]
      BY <1>1, <2>1, <2>2, BoardSet
    <2>4. TypeOK' /\ OneWindow(w) BY <1>1, <1>3, <2>1, <2>3 DEF TypeOK, OneWindow
    <2>5. /\ board'[w].visits >= board[w].visits /\ board'[w].visits \in Nat
          /\ board'[w].view = board[w].view /\ board'[w].reloading = board[w].reloading
      BY <1>1, <2>2, <2>3
    <2>6. OpsOk(w)' /\ DoneOk(w)' /\ ReloadOk(w)' BY <1>1, <2>1, <2>5, QueuesStay
    <2>7. ViewOk(w)' BY <1>1, <1>3, <2>2, <2>3 DEF ViewOk, Shown
    <2>8. OrderInv' /\ Over(w)
      BY <1>1, <1>3, <2>1, <2>2, <2>3, <2>4, <2>6, <2>7, Ordered DEF Over, Shows
    <2> QED BY <1>1, <1>3, <2>8
  <1>5. CASE ~(here /\ Visible(w) # t.base) /\ here /\ ~Admits(w)
    <2>1. UNCHANGED <<board, writes>> BY <1>5 DEF FinishCaptured
    <2>2. overtaken' \in BOOLEAN BY <1>1 DEF TypeOK
    <2>3. OrderInv' /\ Over(w) BY <1>1, <2>1, <2>2, OverOrdered
    <2> QED BY <1>1, <1>3, <2>3
  <1>6. CASE ~(here /\ Visible(w) # t.base) /\ ~(here /\ ~Admits(w))
    <2>1. /\ writes' = [writes EXCEPT ![w] = Append(@, o)]
          /\ IF here THEN Draft(w, t.edit, next) ELSE board' = board
      BY <1>6 DEF FinishCaptured, Enqueue
    <2>2. /\ o.kind = "write" /\ o.by = t.edit /\ o.view = t.view /\ o.next = next
          /\ o.guard = t.base /\ o.seen = Unset /\ o.phase = "queued" /\ o.reader = Unset
      OBVIOUS
    <2>3. o \in Operation BY <1>2 DEF Operation
    <2>4. OpOk(o, 0, board[w].visits) BY <1>1, <1>2 DEF OpOk
    <2> HIDE DEF o
    <2>5. /\ board' \in [Windows -> Board] /\ \A u \in Windows \ {w} : board'[u] = board[u]
          /\ board'[w].visits = board[w].visits /\ board'[w].view = board[w].view
          /\ board'[w].reloading = board[w].reloading /\ board'[w].reads = board[w].reads
          /\ here => Drafted(w, t.edit, next)
          /\ ~here => board' = board
      <3>1. CASE here
        <4>1. Draft(w, t.edit, next) BY <2>1, <3>1
        <4> QED BY <1>2, <3>1, <4>1, Drafts_ DEF Drafted
      <3>2. CASE ~here BY <1>1, <2>1, <3>2 DEF TypeOK
      <3> QED BY <3>1, <3>2
    <2>6. o.reader # "reload" BY <2>2 DEF RegistryConstants, Readers
    <2>7. \/ NoReloads(w)
          \/ board'[w] = board[w] /\ ~(o.kind = "write" /\ o.view = board[w].view)
      <3>1. here => NoReloads(w) BY <1>6, AdmitsNoReload
      <3> QED BY <2>2, <2>5, <3>1
    <2>8. /\ QueueTypes' /\ Adds(writes[w], writes'[w], o)
          /\ \A u \in Windows \ {w} : writes'[u] = writes[u]
          /\ OpsOk(w)' /\ DoneOk(w)' /\ ReloadOk(w)'
      BY <1>1, <2>1, <2>2, <2>3, <2>4, <2>5, <2>6, <2>7, Enqueued
    <2>9. TypeOK' /\ OneWindow(w) BY <1>1, <1>3, <2>5, <2>8 DEF TypeOK, QueueTypes, OneWindow
    <2>10. ViewOk(w)' BY <1>1, <1>3, <2>5 DEF ViewOk, Shown
    <2>11. OrderInv' BY <2>8, <2>9, <2>10, Ordered
    <2>12. Joins(w, t.edit, t.view, next, t.base) BY <1>1, <2>2, <2>8, <2>9 DEF Joins, AddsOp
    <2>13. here => Admits(w) /\ Visible(w) = t.base BY <1>6
    <2>14. Captured(w) BY <1>1, <2>5, <2>12, <2>13 DEF Captured
    <2> QED BY <1>1, <1>3, <2>11, <2>14
  <1> QED BY <1>4, <1>5, <1>6

LEMMA ImportOrdered ==
    ASSUME RegistryConstants, OrderInv, NEW w \in Windows, Import(w)
    PROVE  /\ OrderInv' /\ edits' = edits + 1 /\ UNCHANGED <<row, board, accepted, task, overtaken>>
           /\ \E o : /\ AddsOp(w, o) /\ o.kind = "import" /\ o.by = edits' /\ o.view = 0
                     /\ o.next = {edits'} /\ o.guard = Unset /\ o.seen = Unset /\ o.phase = "queued"
  <1> DEFINE o == [kind |-> "import", by |-> edits', view |-> 0, next |-> {edits'}, guard |-> Unset,
                   reader |-> Unset, seen |-> Unset, phase |-> "queued"]
  <1>1. /\ TypeOK /\ edits' = edits + 1 /\ edits' \in 1..MaxInputs /\ edits' # 0
        /\ UNCHANGED <<row, migrated, board, accepted, answers, events, task, overtaken, failures>>
        /\ writes' = [writes EXCEPT ![w] = Append(@, o)]
    BY InputCounts DEF OrderInv, Import, Enqueue
  <1>2. /\ o.kind = "import" /\ o.by = edits' /\ o.view = 0 /\ o.next = {edits'}
        /\ o.guard = Unset /\ o.seen = Unset /\ o.phase = "queued" /\ o.reader = Unset
    OBVIOUS
  <1>3. o \in Operation BY <1>1 DEF Operation, Registry, RegistryConstants
  <1> HIDE DEF o
  <1>4. OpOk(o, 0, board[w].visits) /\ o.reader # "reload"
    BY <1>1, <1>2 DEF OpOk, RegistryConstants, Readers
  <1>5. /\ QueueTypes' /\ Adds(writes[w], writes'[w], o)
        /\ \A u \in Windows \ {w} : writes'[u] = writes[u]
        /\ OpsOk(w)' /\ DoneOk(w)' /\ ReloadOk(w)'
    BY <1>1, <1>2, <1>3, <1>4, Enqueued
  <1>6. TypeOK' /\ OneWindow(w) BY <1>1, <1>5 DEF TypeOK, QueueTypes, OneWindow
  <1>7. ViewOk(w)' BY <1>1 DEF OrderInv, ViewOk, Shown
  <1> QED BY <1>1, <1>2, <1>5, <1>6, <1>7, Ordered DEF AddsOp

-----------------------------------------------------------------------------
(* Boards: what must hold for edits to survive.                              *)

\* Edits are numbered: later ones are nowhere yet, and one whose folder is awaited only
\* with its task.
FreshOk ==
    /\ \A x \in 1..MaxInputs : x > edits => Clear(x)
    /\ \A u \in Windows : task[u] # Unset =>
          /\ task[u].edit <= edits /\ Clear(task[u].edit)
          /\ \A w \in Windows : task[w] # Unset /\ task[w].edit = task[u].edit => w = u
\* Without a registry in the row, nobody has seen anything, nor what was left in local storage.
BlankOk ==
    Content(row) = {} =>
        /\ \A x \in Legacy : Clear(x)
        /\ \A w \in Windows :
              /\ board[w].registry = {}
              /\ \A v \in 1..MaxVisits : accepted[w][v] = {}
              /\ \A i \in DOMAIN answers[w] : answers[w][i].result = "ok" => answers[w][i].registry = {}
\* The operation has yet to save its edit.
Pends(o) == o.kind # "promotion" /\ o.phase \in {"queued", "checked"}
PendingOk(w) ==
    \A i \in DOMAIN writes[w] : Pends(writes[w][i]) =>
        /\ Private(writes[w][i].by, w, writes[w][i].view)
        /\ \A k \in DOMAIN writes[w] :
              k < i /\ writes[w][k].kind # "promotion" => writes[w][i].by \notin writes[w][k].next
\* What an editor accepted is no newer than what its board shows, what the board shows no
\* newer than the answers on their way, and these come in order.
TimeOk(w) ==
    /\ Shown(w) => Before(accepted[w][board[w].view], board[w].registry)
    /\ \A i \in DOMAIN answers[w] : answers[w][i].result = "ok" =>
          /\ Before(board[w].registry, answers[w][i].registry)
          /\ \A j \in DOMAIN answers[w] : i < j /\ answers[w][j].result = "ok" =>
                Before(answers[w][i].registry, answers[w][j].registry)
          /\ answers[w][i].reader = "reload" /\ board[w].draft # Unset =>
                board[w].draft.registry \cap Content(row) \subseteq answers[w][i].registry
\* What is saved next contains what it replaces.
SaveOk(w) ==
    /\ \A i \in DOMAIN writes[w] : writes[w][i].kind = "write" =>
          /\ writes[w][i].phase = "queued" /\ writes[w][i].guard = Unset =>
                Fits(w, writes[w][i].view, accepted[w][writes[w][i].view], writes[w][i].next)
          /\ writes[w][i].phase = "checked" =>
                Fits(w, writes[w][i].view, Content(writes[w][i].seen), writes[w][i].next)
    /\ Shown(w) /\ board[w].draft # Unset =>
          Fits(w, board[w].view, accepted[w][board[w].view], board[w].draft.registry)
\* Write i holds what write k of its view does, and the edits of the writes since.
Builds(q, k, i) ==
    /\ q[k].next \subseteq q[i].next
    /\ \A x \in q[i].next \ q[k].next :
          \E j \in DOMAIN q : k < j /\ j <= i /\ q[j].kind = "write" /\ q[j].view = q[i].view
                              /\ q[j].by = x
ChainOk(w) ==
    \A i \in DOMAIN writes[w], k \in DOMAIN writes[w] :
        /\ k < i /\ writes[w][k].kind = "write" /\ writes[w][i].kind = "write"
        /\ writes[w][k].view = writes[w][i].view
        /\ writes[w][i].guard = Unset \/ writes[w][i].view = board[w].view
        => Builds(writes[w], k, i)
\* The draft is that of the last write of its view.
LastOk(w) ==
    \A i \in DOMAIN writes[w] : Shown(w) /\ Owns(w, i) =>
        /\ board[w].draft # Unset
        /\ \E m \in DOMAIN writes[w] :
              /\ i <= m /\ Owns(w, m) /\ writes[w][m].by = board[w].draft.by
              /\ writes[w][m].next = board[w].draft.registry

WindowOk(w) == PendingOk(w) /\ TimeOk(w) /\ SaveOk(w) /\ ChainOk(w) /\ LastOk(w)
EditsInv == FreshOk /\ BlankOk /\ \A w \in Windows : WindowOk(w)
BoardsInv == OrderInv /\ (overtaken \/ EditsInv)

-----------------------------------------------------------------------------
(* Boards: what a step shows to whom.                                        *)

Known(s) == \A x : Unseen(x) => x \notin s
FromSeen(s) == \A x : Unseen(x) /\ x \notin Content(row') => x \notin s
\* The row stays, or all that is new in it is new to everybody.
RowMoves ==
    \/ Content(row') = Content(row)
    \/ /\ \E y \in Content(row') : Unseen(y)
       /\ \A x \in Content(row') \ Content(row) : Unseen(x)
\* What is not in the row stays unseen, and but for E where it was.
KeepsOut(E) ==
    \A x : Unseen(x) /\ x \notin Content(row') =>
        /\ Unseen(x)'
        /\ x \notin E => \A u \in Windows : /\ Strange(x, u) => Strange(x, u)'
                                            /\ \A v : Aside(x, u, v) => Aside(x, u, v)'
Learns(w) ==
    /\ FromSeen(board'[w].registry)
    /\ \A v \in 1..MaxVisits : FromSeen(accepted'[w][v])
    /\ \A i \in DOMAIN writes'[w] : FromSeen(Content(writes'[w][i].seen))
    /\ \A i \in DOMAIN answers'[w] : answers'[w][i].result = "ok" => FromSeen(answers'[w][i].registry)

LEMMA SeenBefore ==
    ASSUME NEW w \in Windows
    PROVE  /\ Known(Content(row)) /\ Known(board[w].registry)
           /\ \A v \in 1..MaxVisits : Known(accepted[w][v])
           /\ \A i \in DOMAIN writes[w] : Known(Content(writes[w][i].seen))
           /\ \A i \in DOMAIN answers[w] : answers[w][i].result = "ok" => Known(answers[w][i].registry)
           /\ FromSeen(Content(row')) /\ Known({}) /\ Known(Content(Unset))
           /\ \A s : Known(s) => FromSeen(s)
  BY DEF Known, FromSeen, Unseen, Content

LEMMA KeepsFrom ==
    ASSUME NEW w \in Windows, NEW E, OneWindow(w), Learns(w),
           \A x : Unseen(x) /\ x \notin Content(row') /\ x \notin E =>
              (Strange(x, w) => Strange(x, w)') /\ \A v : Aside(x, w, v) => Aside(x, w, v)'
    PROVE  KeepsOut(E)
  <1> SUFFICES ASSUME NEW x, Unseen(x), x \notin Content(row')
               PROVE  /\ Unseen(x)'
                      /\ x \notin E => \A u \in Windows : /\ Strange(x, u) => Strange(x, u)'
                                                          /\ \A v : Aside(x, u, v) => Aside(x, u, v)'
    BY DEF KeepsOut
  <1>1. ASSUME NEW u \in Windows
        PROVE  /\ x \notin board'[u].registry
               /\ \A v \in 1..MaxVisits : x \notin accepted'[u][v]
               /\ \A i \in DOMAIN writes'[u] : x \notin Content(writes'[u][i].seen)
               /\ \A i \in DOMAIN answers'[u] :
                     answers'[u][i].result = "ok" => x \notin answers'[u][i].registry
    <2>1. CASE u = w BY <2>1 DEF Learns, FromSeen
    <2>2. CASE u # w BY <2>2 DEF OneWindow, Unseen
    <2> QED BY <2>1, <2>2
  <1>2. Unseen(x)' BY <1>1 DEF Unseen, Content
  <1>3. ASSUME x \notin E, NEW u \in Windows
        PROVE  (Strange(x, u) => Strange(x, u)') /\ \A v : Aside(x, u, v) => Aside(x, u, v)'
    <2>1. CASE u = w BY <1>3, <2>1
    <2>2. CASE u # w BY <2>2 DEF OneWindow, Strange, Aside
    <2> QED BY <2>1, <2>2
  <1> QED BY <1>2, <1>3

LEMMA PrivateStays ==
    ASSUME NEW E, KeepsOut(E), NEW u \in Windows, NEW x, NEW v, Private(x, u, v),
           x \notin Content(row'), x \notin E
    PROVE  Private(x, u, v)'
  BY DEF KeepsOut, Private

LEMMA ClearStays ==
    ASSUME NEW E, KeepsOut(E), NEW x, Clear(x), x \notin Content(row'), x \notin E
    PROVE  Clear(x)'
  BY DEF KeepsOut, Clear

LEMMA BeforeStays ==
    ASSUME RowMoves, NEW p, NEW q, Known(p), Before(p, q)
    PROVE  Before(p, q)'
  BY DEF RowMoves, Known, Before, Content

LEMMA FitsStays ==
    ASSUME RowMoves, NEW E, KeepsOut(E), NEW u \in Windows, NEW v, NEW base, NEW next,
           Known(base), Fits(u, v, base, next), \A e \in E : e \notin next
    PROVE  Fits(u, v, base, next)'
  <1> SUFFICES ASSUME Content(row') = base
               PROVE  base \subseteq next /\ \A x \in next \ base : Private(x, u, v)'
    BY DEF Fits, Content
  <1>1. Content(row') = Content(row) BY DEF RowMoves, Known
  <1>2. base \subseteq next /\ \A x \in next \ base : Private(x, u, v) BY <1>1 DEF Fits
  <1> QED BY <1>1, <1>2, PrivateStays DEF Private

LEMMA Sees ==
    ASSUME OrderInv, QueueTypes', NEW w \in Windows, NEW n \in {0, 1}, Drops(writes[w], writes'[w], n),
           n = 0 /\ 1 \in DOMAIN writes'[w] => FromSeen(Content(writes'[w][1].seen))
    PROVE  \A i \in DOMAIN writes'[w] : FromSeen(Content(writes'[w][i].seen))
  <1>1. \A i \in DOMAIN writes'[w] : i \in Nat \ {0} BY SeqDomain DEF QueueTypes
  <1> SUFFICES ASSUME NEW i \in DOMAIN writes'[w] PROVE FromSeen(Content(writes'[w][i].seen))
    OBVIOUS
  <1>2. CASE i + n = 1 BY <1>1, <1>2
  <1>3. CASE i + n > 1 BY <1>3, SeenBefore DEF Drops
  <1> QED BY <1>1, <1>2, <1>3

LEMMA Rested ==
    ASSUME OrderInv, NEW w \in Windows, Drops(writes[w], writes'[w], 0), Rests(writes[w], writes'[w]),
           QueueTypes', 1 \in DOMAIN writes'[w]
    PROVE  /\ 1 \in DOMAIN writes[w] /\ writes'[w][1].phase = writes[w][1].phase
           /\ writes'[w][1].seen = writes[w][1].seen /\ FromSeen(Content(writes'[w][1].seen))
  <1>1. 1 \in DOMAIN writes[w] BY DEF Drops
  <1>2. writes[w] # <<>> BY <1>1
  <1> QED BY <1>1, <1>2, SeenBefore DEF Rests

LEMMA Hears ==
    ASSUME NEW w \in Windows, NEW m, Passes(answers[w], answers'[w], m)
    PROVE  \A i \in DOMAIN answers'[w] : answers'[w][i].result = "ok" => FromSeen(answers'[w][i].registry)
  BY SeenBefore DEF Passes

LEMMA HearsMore ==
    ASSUME NEW w \in Windows, NEW x, Adds(answers[w], answers'[w], x),
           x.result = "ok" => FromSeen(x.registry)
    PROVE  \A i \in DOMAIN answers'[w] : answers'[w][i].result = "ok" => FromSeen(answers'[w][i].registry)
  BY SeenBefore DEF Adds

\* The draft goes, or shows what it showed; the task ends or waits.
DraftGoes(w) ==
    /\ \/ board'[w].draft = Unset
       \/ /\ board[w].draft # Unset /\ board'[w].draft.registry = board[w].draft.registry
          /\ board'[w].view = board[w].view
    /\ task'[w] = Unset \/ task'[w] = task[w]

LEMMA StrangeStays ==
    ASSUME NEW w \in Windows, NEW n, Drops(writes[w], writes'[w], n), DraftGoes(w), NEW x
    PROVE  (Strange(x, w) => Strange(x, w)') /\ \A v : Aside(x, w, v) => Aside(x, w, v)'
  BY DEF Drops, SameOp, DraftGoes, Strange, Aside

\* What is new in the row is nothing that window u works on.
NewsTo(u) == \A x \in Content(row') \ Content(row) : Strange(x, u)

LEMMA OpsKnown ==
    ASSUME OrderInv, NEW w \in Windows, NEW i \in DOMAIN writes[w]
    PROVE  /\ writes[w][i] \in Operation /\ OpOk(writes[w][i], i, board[w].visits) /\ i \in Nat \ {0}
           /\ writes[w][i].kind # "promotion" => writes[w][i].by \in writes[w][i].next
           /\ \A x : Strange(x, w) /\ writes[w][i].kind # "promotion" =>
                 x \notin writes[w][i].next /\ x # writes[w][i].by
           /\ writes[w][i].kind = "write" => /\ writes[w][i].view \in 1..MaxVisits
                                             /\ writes[w][i].view \in 1..board[w].visits
  <1>1. writes[w] \in Seq(Operation) /\ OpsOk(w) /\ board[w].visits \in 0..MaxVisits
    BY DEF OrderInv, TypeOK, Board
  <1>2. writes[w][i] \in Operation /\ OpOk(writes[w][i], i, board[w].visits) /\ i \in Nat \ {0}
    BY <1>1, SeqDomain DEF OpsOk
  <1>3. writes[w][i].kind # "promotion" => writes[w][i].by \in writes[w][i].next BY <1>2 DEF OpOk
  <1>4. \A x : Strange(x, w) /\ writes[w][i].kind # "promotion" => x \notin writes[w][i].next
    BY DEF Strange
  <1>5. writes[w][i].kind = "write" => writes[w][i].view \in 1..board[w].visits BY <1>2 DEF OpOk
  <1>6. writes[w][i].kind = "write" => writes[w][i].view \in 1..MaxVisits
    BY <1>1, <1>2, <1>5 DEF Operation
  <1> QED BY <1>2, <1>3, <1>4, <1>5, <1>6

\* A step of another window leaves a window in order.
LEMMA WindowStays ==
    ASSUME OrderInv, NEW u \in Windows, WindowOk(u), RowMoves, NEW E, KeepsOut(E),
           \A e \in E : Strange(e, u), NewsTo(u),
           board'[u] = board[u], accepted'[u] = accepted[u], writes'[u] = writes[u],
           answers'[u] = answers[u]
    PROVE  WindowOk(u)'
  <1>1. PendingOk(u)'
    <2> SUFFICES ASSUME NEW i \in DOMAIN writes[u], Pends(writes[u][i])
                 PROVE  /\ Private(writes[u][i].by, u, writes[u][i].view)'
                        /\ \A k \in DOMAIN writes[u] : k < i /\ writes[u][k].kind # "promotion" =>
                              writes[u][i].by \notin writes[u][k].next
      BY DEF PendingOk
    <2>1. /\ Private(writes[u][i].by, u, writes[u][i].view)
          /\ \A k \in DOMAIN writes[u] : k < i /\ writes[u][k].kind # "promotion" =>
                writes[u][i].by \notin writes[u][k].next
      BY DEF WindowOk, PendingOk
    <2>2. ~Strange(writes[u][i].by, u) BY OpsKnown DEF Pends
    <2>3. writes[u][i].by \notin Content(row') /\ writes[u][i].by \notin E
      BY <2>1, <2>2 DEF NewsTo, Private, Unseen
    <2> DEFINE x == writes[u][i].by
               v == writes[u][i].view
    <2>4. x = writes'[u][i].by /\ v = writes'[u][i].view OBVIOUS
    <2> HIDE DEF x, v
    <2>5. \A z, y : Private(z, u, y) /\ z \notin Content(row') /\ z \notin E => Private(z, u, y)'
      BY PrivateStays
    <2> QED BY <2>1, <2>3, <2>4, <2>5 DEF x, v
  <1>2. TimeOk(u)'
    <2>1. \A p, q : Known(p) /\ Before(p, q) => Before(p, q)' BY BeforeStays
    <2>2. /\ TimeOk(u) /\ Known(board[u].registry) /\ \A v \in 1..MaxVisits : Known(accepted[u][v])
          /\ \A i \in DOMAIN answers[u] : answers[u][i].result = "ok" => Known(answers[u][i].registry)
      BY SeenBefore DEF WindowOk
    <2>3. board[u].view \in 0..MaxVisits BY DEF OrderInv, TypeOK, Board
    <2>4. Shown(u)' => Before(accepted[u][board[u].view], board[u].registry)'
      BY <2>1, <2>2, <2>3 DEF TimeOk, Shown
    <2>5. ASSUME NEW i \in DOMAIN answers[u], answers[u][i].result = "ok"
          PROVE  /\ Before(board[u].registry, answers[u][i].registry)'
                 /\ \A j \in DOMAIN answers[u] : i < j /\ answers[u][j].result = "ok" =>
                       Before(answers[u][i].registry, answers[u][j].registry)'
                 /\ answers[u][i].reader = "reload" /\ board[u].draft # Unset =>
                       board[u].draft.registry \cap Content(row') \subseteq answers[u][i].registry
      <3>1. Before(board[u].registry, answers[u][i].registry)' BY <2>1, <2>2, <2>5 DEF TimeOk
      <3>2. ASSUME NEW j \in DOMAIN answers[u], i < j, answers[u][j].result = "ok"
            PROVE  Before(answers[u][i].registry, answers[u][j].registry)'
        BY <2>1, <2>2, <2>5, <3>2 DEF TimeOk
      <3>3. ASSUME answers[u][i].reader = "reload", board[u].draft # Unset
            PROVE  board[u].draft.registry \cap Content(row') \subseteq answers[u][i].registry
        BY <2>2, <2>5, <3>3 DEF TimeOk, NewsTo, Strange
      <3> QED BY <3>1, <3>2, <3>3
    <2> QED BY <2>4, <2>5 DEF TimeOk, Content
  <1>3. SaveOk(u)'
    <2>1. \A v, base, next : Known(base) /\ Fits(u, v, base, next) /\ (\A e \in E : e \notin next) =>
             Fits(u, v, base, next)'
      BY FitsStays
    <2>2. /\ SaveOk(u) /\ \A v \in 1..MaxVisits : Known(accepted[u][v])
          /\ \A i \in DOMAIN writes[u] : Known(Content(writes[u][i].seen))
      BY SeenBefore DEF WindowOk
    <2>3. ASSUME NEW i \in DOMAIN writes[u], writes[u][i].kind = "write"
          PROVE  /\ writes[u][i].phase = "queued" /\ writes[u][i].guard = Unset =>
                       Fits(u, writes[u][i].view, accepted[u][writes[u][i].view], writes[u][i].next)'
                 /\ writes[u][i].phase = "checked" =>
                       Fits(u, writes[u][i].view, Content(writes[u][i].seen), writes[u][i].next)'
      <3>1. writes[u][i].view \in 1..MaxVisits /\ \A e \in E : e \notin writes[u][i].next
        BY <2>3, OpsKnown
      <3>2. ASSUME writes[u][i].phase = "queued", writes[u][i].guard = Unset
            PROVE  Fits(u, writes[u][i].view, accepted[u][writes[u][i].view], writes[u][i].next)'
        <4>1. /\ Fits(u, writes[u][i].view, accepted[u][writes[u][i].view], writes[u][i].next)
              /\ Known(accepted[u][writes[u][i].view])
          BY <2>2, <2>3, <3>1, <3>2 DEF SaveOk
        <4> QED BY <2>1, <3>1, <4>1
      <3>3. ASSUME writes[u][i].phase = "checked"
            PROVE  Fits(u, writes[u][i].view, Content(writes[u][i].seen), writes[u][i].next)'
        <4>1. /\ Fits(u, writes[u][i].view, Content(writes[u][i].seen), writes[u][i].next)
              /\ Known(Content(writes[u][i].seen))
          BY <2>2, <2>3, <3>3 DEF SaveOk
        <4>2. Content(writes'[u][i].seen) = Content(writes[u][i].seen) OBVIOUS
        <4> QED BY <2>1, <3>1, <4>1, <4>2
      <3> QED BY <3>2, <3>3
    <2>4. Shown(u) /\ board[u].draft # Unset =>
             Fits(u, board[u].view, accepted[u][board[u].view], board[u].draft.registry)'
      <3>1. SUFFICES ASSUME Shown(u), board[u].draft # Unset
                     PROVE  Fits(u, board[u].view, accepted[u][board[u].view], board[u].draft.registry)'
        OBVIOUS
      <3>2. board[u].view \in 1..MaxVisits /\ \A e \in E : e \notin board[u].draft.registry
        BY <3>1 DEF OrderInv, TypeOK, Board, Shown, Strange
      <3> QED BY <2>1, <2>2, <3>1, <3>2 DEF SaveOk
    <2> QED BY <2>3, <2>4 DEF SaveOk, Shown
  <1>4. ChainOk(u)' /\ LastOk(u)' BY DEF WindowOk, ChainOk, LastOk, Builds, Owns, Shown
  <1> QED BY <1>1, <1>2, <1>3, <1>4 DEF WindowOk

LEMMA BlankStays ==
    ASSUME OrderInv, BlankOk, RowMoves, NEW E, KeepsOut(E), \A e \in E : e \notin Legacy,
           NEW w \in Windows, OneWindow(w),
           Content(row) = {} /\ Content(row') = {} =>
              /\ board'[w].registry = {}
              /\ \A v \in 1..MaxVisits : accepted'[w][v] = {}
              /\ \A i \in DOMAIN answers'[w] : answers'[w][i].result = "ok" => answers'[w][i].registry = {}
    PROVE  BlankOk'
  <1> SUFFICES ASSUME Content(row') = {}
               PROVE  /\ \A x \in Legacy : Clear(x)'
                      /\ \A u \in Windows :
                            /\ board'[u].registry = {}
                            /\ \A v \in 1..MaxVisits : accepted'[u][v] = {}
                            /\ \A i \in DOMAIN answers'[u] :
                                  answers'[u][i].result = "ok" => answers'[u][i].registry = {}
    BY DEF BlankOk, Content
  <1>1. Content(row) = {} BY DEF RowMoves
  <1>2. \A x \in Legacy : Clear(x)' BY <1>1, ClearStays DEF BlankOk
  <1>3. ASSUME NEW u \in Windows
        PROVE  /\ board'[u].registry = {}
               /\ \A v \in 1..MaxVisits : accepted'[u][v] = {}
               /\ \A i \in DOMAIN answers'[u] :
                     answers'[u][i].result = "ok" => answers'[u][i].registry = {}
    <2>1. CASE u = w BY <1>1, <2>1
    <2>2. CASE u # w BY <1>1, <2>2 DEF BlankOk, OneWindow
    <2> QED BY <2>1, <2>2
  <1> QED BY <1>2, <1>3

LEMMA FreshStays ==
    ASSUME RegistryConstants, OrderInv, TypeOK', FreshOk, NEW E, KeepsOut(E), edits' >= edits,
           \A e \in E : e \in Int /\ e <= edits',
           \A x \in 1..MaxInputs : x > edits' => x \notin Content(row'),
           \A u \in Windows : task'[u] # Unset =>
              task'[u] = task[u] /\ task[u].edit \notin E /\ task[u].edit \notin Content(row')
    PROVE  FreshOk'
  <1>1. edits \in Int /\ edits' \in Int /\ TypeOK BY DEF OrderInv, TypeOK
  <1>2. ASSUME NEW x \in 1..MaxInputs, x > edits' PROVE Clear(x)'
    <2>1. Clear(x) /\ x \notin E BY <1>1, <1>2 DEF FreshOk
    <2> QED BY <1>2, <2>1, ClearStays
  <1>3. ASSUME NEW u \in Windows, task'[u] # Unset
        PROVE  /\ task'[u].edit <= edits' /\ Clear(task[u].edit)'
               /\ \A w \in Windows : task'[w] # Unset /\ task'[w].edit = task'[u].edit => w = u
    <2>0. task'[u] = task[u] /\ task[u] # Unset BY <1>3
    <2>1. task'[u] = task[u] /\ task[u] # Unset /\ task[u].edit \in Int
      <3>1. task[u].edit \in 1..MaxInputs BY <1>1, <2>0, TaskTyped
      <3>2. MaxInputs \in Int BY DEF RegistryConstants
      <3>3. \A x \in 1..MaxInputs : x \in Int BY <3>2
      <3> QED BY <2>0, <3>1, <3>3
    <2>2. task[u].edit <= edits /\ Clear(task[u].edit) BY <2>1 DEF FreshOk
    <2>3. Clear(task[u].edit)'
      <3>1. \A x : Clear(x) /\ x \notin Content(row') /\ x \notin E => Clear(x)' BY ClearStays
      <3> DEFINE x == task[u].edit
      <3>2. x \notin E /\ x \notin Content(row') /\ Clear(x) /\ x = task'[u].edit
        BY <1>3, <2>1, <2>2
      <3> HIDE DEF x
      <3> QED BY <2>1, <3>1, <3>2 DEF x
    <2>4. \A w \in Windows : task'[w] # Unset /\ task'[w].edit = task'[u].edit => w = u
      BY <1>3, <2>1 DEF FreshOk
    <2>5. task'[u].edit <= edits' BY <1>1, <2>1, <2>2
    <2> QED BY <2>1, <2>3, <2>4, <2>5
  <1> QED BY <1>2, <1>3 DEF FreshOk

\* What a step of window w does to the edits that wait.
LEMMA EditsStep ==
    ASSUME RegistryConstants, OrderInv, TypeOK', EditsInv, NEW w \in Windows, OneWindow(w), RowMoves,
           NEW E, KeepsOut(E), edits' >= edits, task'[w] \in {Unset, task[w]},
           \A e \in E : /\ Clear(e) /\ e \in 1..MaxInputs
                        /\ \/ e = edits' /\ e > edits
                           \/ task[w] # Unset /\ e = task[w].edit /\ task'[w] = Unset,
           \A x \in 1..MaxInputs : Clear(x) => x \notin Content(row'),
           \A u \in Windows \ {w} : NewsTo(u),
           Content(row) = {} /\ Content(row') = {} =>
              /\ board'[w].registry = {}
              /\ \A v \in 1..MaxVisits : accepted'[w][v] = {}
              /\ \A i \in DOMAIN answers'[w] : answers'[w][i].result = "ok" => answers'[w][i].registry = {},
           WindowOk(w)'
    PROVE  EditsInv'
  <1>1. edits \in Int /\ edits' \in Int /\ TypeOK /\ FreshOk /\ BlankOk
    BY DEF OrderInv, TypeOK, EditsInv
  <1>2. \A e \in E : e \notin Legacy BY DEF RegistryConstants
  <1>3. BlankOk' BY <1>1, <1>2, BlankStays
  <1>4. FreshOk'
    <2>1. \A e \in E : e \in Int /\ e <= edits' BY <1>1 DEF FreshOk
    <2>2. \A x \in 1..MaxInputs : x > edits' => x \notin Content(row') BY <1>1 DEF FreshOk
    <2>3. ASSUME NEW u \in Windows, task'[u] # Unset
          PROVE  task'[u] = task[u] /\ task[u].edit \notin E /\ task[u].edit \notin Content(row')
      <3>1. task'[u] = task[u] BY <2>3 DEF OneWindow
      <3>2. Clear(task[u].edit) /\ task[u].edit <= edits /\ task[u].edit \in 1..MaxInputs
        BY <1>1, <2>3, <3>1, TaskTyped DEF FreshOk
      <3>3. task[u].edit \notin E
        <4>1. SUFFICES ASSUME task[u].edit \in E PROVE FALSE OBVIOUS
        <4>2. task[w] # Unset /\ task[u].edit = task[w].edit /\ task'[w] = Unset BY <1>1, <3>2, <4>1
        <4> QED BY <1>1, <2>3, <3>1, <4>2 DEF FreshOk
      <3> QED BY <3>1, <3>2, <3>3
    <2> QED BY <1>1, <2>1, <2>2, <2>3, FreshStays
  <1>5. ASSUME NEW u \in Windows PROVE WindowOk(u)'
    <2>1. CASE u = w BY <2>1
    <2>2. CASE u # w
      <3>1. WindowOk(u) /\ \A e \in E : Strange(e, u) BY DEF EditsInv, Clear
      <3> QED BY <2>2, <3>1, WindowStays DEF OneWindow
    <2> QED BY <2>1, <2>2
  <1> QED BY <1>3, <1>4, <1>5 DEF EditsInv

-----------------------------------------------------------------------------
(* Boards: what operations keep while they wait and end.                     *)

LEMMA Shifted ==
    ASSUME OrderInv, QueueTypes', NEW w \in Windows, NEW n \in {0, 1}, Drops(writes[w], writes'[w], n),
           NEW i \in DOMAIN writes'[w]
    PROVE  /\ i \in Nat \ {0} /\ i + n \in DOMAIN writes[w] /\ i + n \in Nat \ {0}
           /\ SameOp(writes[w][i + n], writes'[w][i])
           /\ i + n > 1 => /\ writes'[w][i].phase = writes[w][i + n].phase
                           /\ writes'[w][i].seen = writes[w][i + n].seen
           /\ i + n > 1 => writes[w][i + n].phase = "queued"
  <1>1. i \in Nat \ {0} /\ i + n \in DOMAIN writes[w] BY SeqDomain DEF QueueTypes, Drops
  <1>2. OpOk(writes[w][i + n], i + n, board[w].visits) BY <1>1, OpsKnown
  <1> QED BY <1>1, <1>2 DEF Drops, OpOk

LEMMA Shiftable ==
    ASSUME OrderInv, QueueTypes', NEW w \in Windows, NEW n \in {0, 1}, Drops(writes[w], writes'[w], n),
           NEW j \in DOMAIN writes[w], j > n
    PROVE  /\ j \in Nat /\ j - n \in DOMAIN writes'[w] /\ (j - n) + n = j
           /\ SameOp(writes[w][j], writes'[w][j - n])
  <1>1. j \in Nat /\ j - n \in DOMAIN writes'[w] /\ (j - n) + n = j BY OpsKnown DEF Drops
  <1>2. SameOp(writes[w][(j - n) + n], writes'[w][j - n]) BY <1>1, Shifted
  <1> QED BY <1>1, <1>2

LEMMA PendingDrop ==
    ASSUME OrderInv, QueueTypes', NEW w \in Windows, NEW n \in {0, 1}, Drops(writes[w], writes'[w], n),
           PendingOk(w), KeepsOut({}),
           \A i \in DOMAIN writes'[w] : Pends(writes'[w][i]) =>
              Pends(writes[w][i + n]) /\ writes[w][i + n].by \notin Content(row')
    PROVE  PendingOk(w)'
  <1>1. \A x, v : Private(x, w, v) /\ x \notin Content(row') => Private(x, w, v)' BY PrivateStays
  <1>2. ASSUME NEW i \in DOMAIN writes'[w], Pends(writes'[w][i])
        PROVE  Private(writes[w][i].by, w, writes[w][i].view)'
    <2>1. /\ Private(writes[w][i + n].by, w, writes[w][i + n].view)
          /\ writes[w][i + n].by \notin Content(row')
          /\ writes'[w][i].by = writes[w][i + n].by /\ writes'[w][i].view = writes[w][i + n].view
      BY <1>2, Shifted DEF PendingOk, SameOp
    <2> QED BY <1>1, <2>1
  <1>3. ASSUME NEW i \in DOMAIN writes'[w], Pends(writes'[w][i]), NEW k \in DOMAIN writes'[w], k < i,
               writes'[w][k].kind # "promotion"
        PROVE  writes'[w][i].by \notin writes'[w][k].next
    <2>1. /\ k + n \in DOMAIN writes[w] /\ SameOp(writes[w][k + n], writes'[w][k]) /\ k \in Nat
          /\ i + n \in DOMAIN writes[w] /\ SameOp(writes[w][i + n], writes'[w][i]) /\ i \in Nat
      BY Shifted
    <2>2. k + n < i + n BY <1>3, <2>1
    <2> QED BY <1>3, <2>1, <2>2 DEF PendingOk, SameOp
  <1> QED BY <1>2, <1>3 DEF PendingOk

LEMMA ChainDrop ==
    ASSUME OrderInv, QueueTypes', NEW w \in Windows, NEW n \in {0, 1}, Drops(writes[w], writes'[w], n),
           ChainOk(w),
           \/ board'[w].view = board[w].view
           \/ \A i \in DOMAIN writes[w] : writes[w][i].kind = "write" => writes[w][i].view # board'[w].view
    PROVE  ChainOk(w)'
  <1> SUFFICES ASSUME NEW i \in DOMAIN writes'[w], NEW k \in DOMAIN writes'[w],
                      k < i, writes'[w][k].kind = "write", writes'[w][i].kind = "write",
                      writes'[w][k].view = writes'[w][i].view,
                      writes'[w][i].guard = Unset \/ writes'[w][i].view = board'[w].view
               PROVE  Builds(writes'[w], k, i)
    BY DEF ChainOk
  <1>1. /\ k + n \in DOMAIN writes[w] /\ SameOp(writes[w][k + n], writes'[w][k]) /\ k \in Nat
        /\ i + n \in DOMAIN writes[w] /\ SameOp(writes[w][i + n], writes'[w][i]) /\ i \in Nat
    BY Shifted
  <1>2. k + n < i + n BY <1>1
  <1>3. writes[w][i + n].guard = Unset \/ writes[w][i + n].view = board[w].view BY <1>1 DEF SameOp
  <1>4. Builds(writes[w], k + n, i + n) BY <1>1, <1>2, <1>3 DEF ChainOk, SameOp
  <1>5. ASSUME NEW x \in writes'[w][i].next \ writes'[w][k].next
        PROVE  \E j \in DOMAIN writes'[w] :
                  /\ k < j /\ j <= i /\ writes'[w][j].kind = "write"
                  /\ writes'[w][j].view = writes'[w][i].view /\ writes'[w][j].by = x
    <2>1. PICK j \in DOMAIN writes[w] :
             /\ k + n < j /\ j <= i + n /\ writes[w][j].kind = "write"
             /\ writes[w][j].view = writes[w][i + n].view /\ writes[w][j].by = x
      BY <1>1, <1>4 DEF Builds, SameOp
    <2>2. j \in Nat /\ j > n BY <1>1, <2>1, OpsKnown
    <2>3. /\ j - n \in DOMAIN writes'[w] /\ SameOp(writes[w][j], writes'[w][j - n])
      BY <2>2, Shiftable
    <2>4. k < j - n /\ j - n <= i BY <1>1, <2>1, <2>2
    <2> QED BY <1>1, <2>1, <2>3, <2>4 DEF SameOp
  <1> QED BY <1>1, <1>4, <1>5 DEF Builds, SameOp

LEMMA LastDrop ==
    ASSUME OrderInv, QueueTypes', NEW w \in Windows, NEW n \in {0, 1}, Drops(writes[w], writes'[w], n),
           LastOk(w), board'[w].view = board[w].view, board'[w].draft = board[w].draft
    PROVE  LastOk(w)'
  <1> SUFFICES ASSUME NEW i \in DOMAIN writes'[w], Shown(w)', Owns(w, i)'
               PROVE  /\ board'[w].draft # Unset
                      /\ \E m \in DOMAIN writes'[w] :
                            /\ i <= m /\ Owns(w, m)' /\ writes'[w][m].by = board'[w].draft.by
                            /\ writes'[w][m].next = board'[w].draft.registry
    BY DEF LastOk
  <1>1. i \in Nat \ {0} /\ i + n \in DOMAIN writes[w] /\ SameOp(writes[w][i + n], writes'[w][i])
    BY Shifted
  <1>2. Shown(w) /\ Owns(w, i + n) BY <1>1 DEF Shown, Owns, SameOp
  <1>3. PICK m \in DOMAIN writes[w] :
           /\ i + n <= m /\ Owns(w, m) /\ writes[w][m].by = board[w].draft.by
           /\ writes[w][m].next = board[w].draft.registry
    BY <1>1, <1>2 DEF LastOk
  <1>4. m \in Nat /\ m > n BY <1>1, <1>3, OpsKnown
  <1>5. m - n \in DOMAIN writes'[w] /\ SameOp(writes[w][m], writes'[w][m - n]) BY <1>4, Shiftable
  <1>6. i <= m - n BY <1>1, <1>3, <1>4
  <1>7. Owns(w, m - n)' BY <1>3, <1>5 DEF Owns, SameOp
  <1> QED BY <1>1, <1>2, <1>3, <1>5, <1>6, <1>7 DEF LastOk, SameOp

LEMMA LastNone ==
    ASSUME NEW w, \A i \in DOMAIN writes'[w] : ~Owns(w, i)' PROVE LastOk(w)'
  BY DEF LastOk

LEMMA SaveDrop ==
    ASSUME OrderInv, QueueTypes', NEW w \in Windows, NEW n \in {0, 1}, Drops(writes[w], writes'[w], n),
           SaveOk(w), RowMoves, KeepsOut({}),
           \A i \in DOMAIN writes'[w] : writes'[w][i].kind = "write" =>
              /\ writes'[w][i].phase = "queued" /\ writes'[w][i].guard = Unset =>
                    \/ /\ writes[w][i + n].phase = "queued"
                       /\ accepted'[w][writes'[w][i].view] = accepted[w][writes'[w][i].view]
                    \/ Fits(w, writes[w][i].view, accepted[w][writes[w][i].view], writes[w][i].next)'
              /\ writes'[w][i].phase = "checked" =>
                    \/ writes[w][i + n].phase = "checked" /\ writes[w][i + n].seen = writes'[w][i].seen
                    \/ Fits(w, writes[w][i].view, Content(writes[w][i].seen), writes[w][i].next)',
           Shown(w)' /\ board'[w].draft # Unset =>
              \/ /\ board[w].draft # Unset /\ board'[w].draft.registry = board[w].draft.registry
                 /\ board'[w].view = board[w].view
                 /\ accepted'[w][board[w].view] = accepted[w][board[w].view]
              \/ Fits(w, board[w].view, accepted[w][board[w].view], board[w].draft.registry)'
    PROVE  SaveOk(w)'
  <1>1. \A v, base, next : Known(base) /\ Fits(w, v, base, next) => Fits(w, v, base, next)'
    BY FitsStays
  <1>2. /\ \A v \in 1..MaxVisits : Known(accepted[w][v])
        /\ \A i \in DOMAIN writes[w] : Known(Content(writes[w][i].seen))
    BY SeenBefore
  <1>3. ASSUME NEW i \in DOMAIN writes'[w], writes'[w][i].kind = "write"
        PROVE  /\ writes'[w][i].phase = "queued" /\ writes'[w][i].guard = Unset =>
                     Fits(w, writes[w][i].view, accepted[w][writes[w][i].view], writes[w][i].next)'
               /\ writes'[w][i].phase = "checked" =>
                     Fits(w, writes[w][i].view, Content(writes[w][i].seen), writes[w][i].next)'
    <2>1. i + n \in DOMAIN writes[w] /\ SameOp(writes[w][i + n], writes'[w][i]) BY Shifted
    <2>2. writes[w][i + n].view \in 1..MaxVisits /\ writes[w][i + n].kind = "write"
      BY <1>3, <2>1, OpsKnown DEF SameOp
    <2>3. ASSUME writes'[w][i].phase = "queued", writes'[w][i].guard = Unset,
                 writes[w][i + n].phase = "queued",
                 accepted'[w][writes'[w][i].view] = accepted[w][writes'[w][i].view]
          PROVE  Fits(w, writes[w][i].view, accepted[w][writes[w][i].view], writes[w][i].next)'
      <3>1. Fits(w, writes[w][i + n].view, accepted[w][writes[w][i + n].view], writes[w][i + n].next)
            /\ Known(accepted[w][writes[w][i + n].view])
        BY <1>2, <1>3, <2>1, <2>2, <2>3 DEF SaveOk, SameOp
      <3>2. /\ writes'[w][i].view = writes[w][i + n].view /\ writes'[w][i].next = writes[w][i + n].next
            /\ accepted'[w][writes'[w][i].view] = accepted[w][writes[w][i + n].view]
        BY <1>3, <2>1, <2>3 DEF SameOp
      <3> QED BY <1>1, <3>1, <3>2
    <2>4. ASSUME writes'[w][i].phase = "checked", writes[w][i + n].phase = "checked",
                 writes[w][i + n].seen = writes'[w][i].seen
          PROVE  Fits(w, writes[w][i].view, Content(writes[w][i].seen), writes[w][i].next)'
      <3>1. Fits(w, writes[w][i + n].view, Content(writes[w][i + n].seen), writes[w][i + n].next)
            /\ Known(Content(writes[w][i + n].seen))
        BY <1>2, <1>3, <2>1, <2>2, <2>4 DEF SaveOk
      <3>2. /\ writes'[w][i].view = writes[w][i + n].view /\ writes'[w][i].next = writes[w][i + n].next
            /\ writes'[w][i].seen = writes[w][i + n].seen
        BY <1>3, <2>1, <2>4 DEF SameOp
      <3>3. Content(writes'[w][i].seen) = Content(writes[w][i + n].seen) BY <3>2
      <3> QED BY <1>1, <3>1, <3>2, <3>3
    <2> QED BY <1>3, <2>3, <2>4
  <1>4. ASSUME Shown(w)', board'[w].draft # Unset
        PROVE  Fits(w, board[w].view, accepted[w][board[w].view], board[w].draft.registry)'
    <2>1. CASE /\ board[w].draft # Unset /\ board'[w].draft.registry = board[w].draft.registry
               /\ board'[w].view = board[w].view
               /\ accepted'[w][board[w].view] = accepted[w][board[w].view]
      <3>1. Shown(w) /\ board[w].view \in 1..MaxVisits
        BY <1>4, <2>1 DEF Shown, OrderInv, TypeOK, Board
      <3>2. /\ Fits(w, board[w].view, accepted[w][board[w].view], board[w].draft.registry)
            /\ Known(accepted[w][board[w].view])
        BY <1>2, <2>1, <3>1 DEF SaveOk
      <3>3. accepted'[w][board'[w].view] = accepted[w][board[w].view] BY <2>1
      <3> QED BY <1>1, <2>1, <3>2, <3>3
    <2> QED BY <1>4, <2>1
  <1> QED BY <1>3, <1>4 DEF SaveOk

-----------------------------------------------------------------------------
(* Boards: what a board, its editor and its answers show, in the order of time. *)

\* What is new in the row is not in a draft that a reload under way is to replace.
NewsBeside(w) ==
    (\E i \in DOMAIN answers[w] : answers[w][i].reader = "reload") /\ board[w].draft # Unset =>
        board[w].draft.registry \cap Content(row') \subseteq Content(row)
\* The draft is replaced by another one only while no reload is under way.
DraftKept(w) ==
    \/ NoReloads(w)
    \/ /\ NewsBeside(w)
       /\ board'[w].draft # Unset =>
             board[w].draft # Unset /\ board'[w].draft.registry = board[w].draft.registry
\* The board and its editor keep what they know.
KnowsStill(w) ==
    /\ board'[w].view = board[w].view /\ board'[w].registry = board[w].registry
    /\ Shown(w) => accepted'[w][board[w].view] \in {accepted[w][board[w].view], board[w].registry}
    /\ DraftKept(w)

LEMMA BoardTime ==
    ASSUME OrderInv, NEW w \in Windows, TimeOk(w), RowMoves,
           board'[w].view = board[w].view, board'[w].registry = board[w].registry,
           Shown(w) => accepted'[w][board[w].view] \in {accepted[w][board[w].view], board[w].registry}
    PROVE  Shown(w)' => Before(accepted[w][board[w].view], board[w].registry)'
  <1> SUFFICES ASSUME Shown(w)' PROVE Before(accepted[w][board[w].view], board[w].registry)' OBVIOUS
  <1>1. \A p, q : Known(p) /\ Before(p, q) => Before(p, q)' BY BeforeStays
  <1>2. Shown(w) /\ board[w].view \in 1..MaxVisits BY DEF Shown, OrderInv, TypeOK, Board
  <1>3. Known(accepted[w][board[w].view]) BY <1>2, SeenBefore
  <1>4. Before(accepted[w][board[w].view], board[w].registry) BY <1>2 DEF TimeOk
  <1>5. /\ accepted'[w][board'[w].view] \in {accepted[w][board[w].view], board[w].registry}
        /\ board'[w].registry = board[w].registry
    BY <1>2
  <1>6. Known(board[w].registry) /\ Before(board[w].registry, board[w].registry)
    BY SeenBefore DEF Before
  <1> QED BY <1>1, <1>3, <1>4, <1>5, <1>6

LEMMA ReloadAnswerTime ==
    ASSUME OrderInv, NEW w \in Windows, TimeOk(w), DraftKept(w), NEW k \in DOMAIN answers[w],
           answers[w][k].result = "ok", answers[w][k].reader = "reload", board'[w].draft # Unset
    PROVE  board'[w].draft.registry \cap Content(row') \subseteq answers[w][k].registry
  BY DEF DraftKept, NewsBeside, NoReloads, TimeOk

LEMMA TimePass ==
    ASSUME RegistryConstants, OrderInv, QueueTypes', NEW w \in Windows, NEW m \in {0, 1},
           Passes(answers[w], answers'[w], m), TimeOk(w), RowMoves, KnowsStill(w)
    PROVE  TimeOk(w)'
  <1>1. \A p, q : Known(p) /\ Before(p, q) => Before(p, q)' BY BeforeStays
  <1>2. Shown(w)' => Before(accepted[w][board[w].view], board[w].registry)'
    BY BoardTime DEF KnowsStill
  <1>3. Known(board[w].registry) /\ \A i \in DOMAIN answers[w] : answers[w][i].result = "ok" => Known(answers[w][i].registry)
    BY SeenBefore
  <1>4. ASSUME NEW i \in DOMAIN answers'[w], answers'[w][i].result = "ok"
        PROVE  /\ Before(board[w].registry, answers[w][i].registry)'
               /\ \A j \in DOMAIN answers'[w] : i < j /\ answers'[w][j].result = "ok" =>
                     Before(answers[w][i].registry, answers[w][j].registry)'
               /\ answers'[w][i].reader = "reload" /\ board'[w].draft # Unset =>
                     board'[w].draft.registry \cap Content(row') \subseteq answers'[w][i].registry
    <2>1. /\ i + m \in DOMAIN answers[w] /\ answers[w][i + m].result = "ok" /\ i \in Nat
          /\ answers'[w][i].registry = answers[w][i + m].registry
          /\ answers'[w][i].reader \in {answers[w][i + m].reader, Unset}
      BY <1>4, SeqDomain DEF Passes, QueueTypes
    <2>2. Before(board[w].registry, answers[w][i].registry)'
      <3>1. Before(board[w].registry, answers[w][i + m].registry) BY <2>1 DEF TimeOk
      <3>2. board'[w].registry = board[w].registry BY DEF KnowsStill
      <3> QED BY <1>1, <1>3, <2>1, <3>1, <3>2
    <2>3. ASSUME NEW j \in DOMAIN answers'[w], i < j, answers'[w][j].result = "ok"
          PROVE  Before(answers[w][i].registry, answers[w][j].registry)'
      <3>1. /\ j + m \in DOMAIN answers[w] /\ answers[w][j + m].result = "ok" /\ i + m < j + m
            /\ answers'[w][j].registry = answers[w][j + m].registry
        BY <2>1, <2>3, SeqDomain DEF Passes, QueueTypes
      <3>2. Before(answers[w][i + m].registry, answers[w][j + m].registry) BY <2>1, <3>1 DEF TimeOk
      <3> QED BY <1>1, <1>3, <2>1, <3>1, <3>2
    <2>4. ASSUME answers'[w][i].reader = "reload", board'[w].draft # Unset
          PROVE  board'[w].draft.registry \cap Content(row') \subseteq answers'[w][i].registry
      <3>1. "reload" # Unset BY DEF RegistryConstants, Readers
      <3>2. answers[w][i + m].reader = "reload" BY <2>1, <2>4, <3>1
      <3> QED BY <2>1, <2>4, <3>2, ReloadAnswerTime DEF KnowsStill
    <2> QED BY <2>2, <2>3, <2>4
  <1> QED BY <1>2, <1>4 DEF TimeOk

LEMMA TimeMore ==
    ASSUME RegistryConstants, OrderInv, QueueTypes', NEW w \in Windows, NEW x,
           Adds(answers[w], answers'[w], x), x.result = "ok" => x.registry = Content(row'),
           TimeOk(w), RowMoves, KnowsStill(w), board'[w].draft = board[w].draft
    PROVE  TimeOk(w)'
  <1>1. \A p, q : Known(p) /\ Before(p, q) => Before(p, q)' BY BeforeStays
  <1>2. Shown(w)' => Before(accepted[w][board[w].view], board[w].registry)'
    BY BoardTime DEF KnowsStill
  <1>3. Known(board[w].registry) /\ \A i \in DOMAIN answers[w] : answers[w][i].result = "ok" => Known(answers[w][i].registry)
    BY SeenBefore
  <1>4. \A p, q : q = Content(row') => Before(p, q)' BY DEF Before, Content
  <1>5. ASSUME NEW i \in DOMAIN answers'[w], answers'[w][i].result = "ok"
        PROVE  /\ Before(board[w].registry, answers[w][i].registry)'
               /\ \A j \in DOMAIN answers'[w] : i < j /\ answers'[w][j].result = "ok" =>
                     Before(answers[w][i].registry, answers[w][j].registry)'
               /\ answers'[w][i].reader = "reload" /\ board'[w].draft # Unset =>
                     board'[w].draft.registry \cap Content(row') \subseteq answers'[w][i].registry
    <2>1. \A j \in DOMAIN answers'[w] : answers'[w][j].result = "ok" =>
             \/ j \in DOMAIN answers[w] /\ answers'[w][j] = answers[w][j] /\ j < Len(answers[w]) + 1
             \/ j = Len(answers[w]) + 1 /\ answers'[w][j].registry = Content(row')
      BY DEF Adds
    <2>2. CASE i = Len(answers[w]) + 1 /\ answers'[w][i].registry = Content(row')
      <3>1. \A j \in DOMAIN answers'[w] : ~(i < j) BY <2>2, SeqDomain DEF Adds, QueueTypes
      <3>2. Before(board[w].registry, answers[w][i].registry)' BY <1>4, <2>2
      <3> QED BY <2>2, <3>1, <3>2
    <2>3. CASE i \in DOMAIN answers[w] /\ answers'[w][i] = answers[w][i]
      <3>1. answers[w][i].result = "ok" BY <1>5, <2>3
      <3>2. Before(board[w].registry, answers[w][i].registry)'
        <4>1. Before(board[w].registry, answers[w][i].registry) BY <2>3, <3>1 DEF TimeOk
        <4>2. board'[w].registry = board[w].registry BY DEF KnowsStill
        <4> QED BY <1>1, <1>3, <2>3, <4>1, <4>2
      <3>3. ASSUME NEW j \in DOMAIN answers'[w], i < j, answers'[w][j].result = "ok"
            PROVE  Before(answers[w][i].registry, answers[w][j].registry)'
        <4>1. CASE answers'[w][j].registry = Content(row') BY <1>4, <4>1
        <4>2. CASE j \in DOMAIN answers[w] /\ answers'[w][j] = answers[w][j]
          <5>1. Before(answers[w][i].registry, answers[w][j].registry)
            BY <2>3, <3>1, <3>3, <4>2 DEF TimeOk
          <5> QED BY <1>1, <1>3, <2>3, <3>1, <4>2, <5>1
        <4> QED BY <2>1, <3>3, <4>1, <4>2
      <3>4. ASSUME answers'[w][i].reader = "reload", board'[w].draft # Unset
            PROVE  board'[w].draft.registry \cap Content(row') \subseteq answers'[w][i].registry
        BY <2>3, <3>1, <3>4, ReloadAnswerTime DEF KnowsStill
      <3> QED BY <3>2, <3>3, <3>4
    <2> QED BY <1>5, <2>1, <2>2, <2>3
  <1> QED BY <1>2, <1>5 DEF TimeOk

\* A board that is emptied shows nothing, and its editor has accepted nothing.
LEMMA TimeEmpty ==
    ASSUME RegistryConstants, OrderInv, QueueTypes', NEW w \in Windows, TimeOk(w), BlankOk, row' = row,
           Passes(answers[w], answers'[w], 0), board'[w].registry = {}, board'[w].draft = Unset,
           Shown(w)' => accepted'[w][board'[w].view] = {}
    PROVE  TimeOk(w)'
  <1>1. \A p, q : Known(p) /\ Before(p, q) => Before(p, q)' BY BeforeStays DEF RowMoves
  <1>2. \A q : (Content(row) = {} => q = {}) => Before({}, q)' BY DEF Before, Content
  <1>3. \A i \in DOMAIN answers[w] : answers[w][i].result = "ok" =>
           Known(answers[w][i].registry) /\ (Content(row) = {} => answers[w][i].registry = {})
    BY SeenBefore DEF BlankOk
  <1>4. Shown(w)' => Before(accepted[w][board[w].view], board[w].registry)' BY <1>2
  <1>5. \A i \in DOMAIN answers'[w] :
           /\ i \in DOMAIN answers[w] /\ answers'[w][i].result = answers[w][i].result
           /\ answers'[w][i].registry = answers[w][i].registry
    BY SeqDomain DEF Passes, QueueTypes
  <1>6. ASSUME NEW i \in DOMAIN answers'[w], answers'[w][i].result = "ok"
        PROVE  /\ Before(board[w].registry, answers[w][i].registry)'
               /\ \A j \in DOMAIN answers'[w] : i < j /\ answers'[w][j].result = "ok" =>
                     Before(answers[w][i].registry, answers[w][j].registry)'
    <2>1. Before(board[w].registry, answers[w][i].registry)' BY <1>2, <1>3, <1>5, <1>6
    <2>2. ASSUME NEW j \in DOMAIN answers'[w], i < j, answers'[w][j].result = "ok"
          PROVE  Before(answers[w][i].registry, answers[w][j].registry)'
      <3>1. Before(answers[w][i].registry, answers[w][j].registry) BY <1>5, <1>6, <2>2 DEF TimeOk
      <3> QED BY <1>1, <1>3, <1>5, <1>6, <2>2, <3>1
    <2> QED BY <2>1, <2>2
  <1> QED BY <1>4, <1>6 DEF TimeOk

LEMMA TakesKeeps ==
    ASSUME NEW w \in Windows, Takes(w)
    PROVE  board'[w].draft # Unset =>
              board[w].draft # Unset /\ board'[w].draft.registry = board[w].draft.registry
  BY DEF Takes, TakesDraft, Mine

LEMMA BeforeChains == ASSUME NEW x, NEW y, NEW z, Before(x, y), Before(y, z) PROVE Before(x, z)
  BY DEF Before

LEMMA TimeTakes ==
    ASSUME RegistryConstants, OrderInv, QueueTypes', NEW w \in Windows, Takes(w), TimeOk(w), row' = row
    PROVE  TimeOk(w)'
  <1> DEFINE a == answers[w][1]
  <1>1. \A p, q : Known(p) /\ Before(p, q) => Before(p, q)' BY BeforeStays DEF RowMoves
  <1>2. Known(board[w].registry) /\ \A i \in DOMAIN answers[w] : answers[w][i].result = "ok" => Known(answers[w][i].registry)
    BY SeenBefore
  <1>3. DraftKept(w) BY TakesKeeps DEF DraftKept, NewsBeside, Takes
  <1>4. 1 \in DOMAIN answers[w] /\ Passes(answers[w], answers'[w], 1) /\ board'[w].view = board[w].view
    BY DEF Takes
  <1>5. board[w].view \in 0..MaxVisits BY DEF OrderInv, TypeOK, Board
  <1>6. CASE board'[w].registry # board[w].registry
             \/ (Shown(w) /\ accepted'[w][board[w].view] # accepted[w][board[w].view])
    <2>1. a.result = "ok" /\ (Shown(w) => board'[w].registry = a.registry)
          /\ board'[w].registry \in {a.registry, board[w].registry}
      BY <1>5, <1>6 DEF Takes, Saves, Shown, RegistryConstants, Readers
    <2>2. \A i \in DOMAIN answers'[w] :
             /\ i \in Nat /\ i + 1 \in DOMAIN answers[w] /\ 1 < i + 1
             /\ answers'[w][i].result = answers[w][i + 1].result
             /\ answers'[w][i].registry = answers[w][i + 1].registry
             /\ answers'[w][i].reader \in {answers[w][i + 1].reader, Unset}
      BY <1>4, SeqDomain DEF Passes, QueueTypes
    <2>3. Shown(w)' => Before(accepted[w][board[w].view], board[w].registry)'
      <3> SUFFICES ASSUME Shown(w)' PROVE Before(accepted[w][board[w].view], board[w].registry)'
        OBVIOUS
      <3>1. Shown(w) /\ board[w].view \in 1..MaxVisits BY <1>4, <1>5 DEF Shown
      <3>2. accepted'[w][board[w].view] \in {a.registry, accepted[w][board[w].view]}
        BY <3>1 DEF Takes
      <3>3. CASE accepted'[w][board[w].view] = a.registry
        <4>1. accepted'[w][board'[w].view] = board'[w].registry BY <1>4, <2>1, <3>1, <3>3
        <4>2. \A p, q : p = q => Before(p, q)' BY DEF Before, Content
        <4> QED BY <4>1, <4>2
      <3>4. CASE accepted'[w][board[w].view] = accepted[w][board[w].view]
        <4>1. Before(accepted[w][board[w].view], a.registry) /\ Known(accepted[w][board[w].view])
          BY <1>4, <2>1, <3>1, BeforeChains, SeenBefore DEF TimeOk
        <4> QED BY <1>1, <1>4, <2>1, <3>1, <3>4, <4>1
      <3> QED BY <3>2, <3>3, <3>4
    <2>4. ASSUME NEW i \in DOMAIN answers'[w], answers'[w][i].result = "ok"
          PROVE  /\ Before(board[w].registry, answers[w][i].registry)'
                 /\ \A j \in DOMAIN answers'[w] : i < j /\ answers'[w][j].result = "ok" =>
                       Before(answers[w][i].registry, answers[w][j].registry)'
                 /\ answers'[w][i].reader = "reload" /\ board'[w].draft # Unset =>
                       board'[w].draft.registry \cap Content(row') \subseteq answers'[w][i].registry
      <3>1. answers[w][i + 1].result = "ok" BY <2>2, <2>4
      <3>2. Before(board[w].registry, answers[w][i].registry)'
        <4>1. Before(a.registry, answers[w][i + 1].registry)
              /\ Before(board[w].registry, answers[w][i + 1].registry)
          BY <1>4, <2>1, <2>2, <3>1 DEF TimeOk
        <4> QED BY <1>1, <1>2, <1>4, <2>1, <2>2, <4>1
      <3>3. ASSUME NEW j \in DOMAIN answers'[w], i < j, answers'[w][j].result = "ok"
            PROVE  Before(answers[w][i].registry, answers[w][j].registry)'
        <4>1. Before(answers[w][i + 1].registry, answers[w][j + 1].registry)
          <5>1. i + 1 < j + 1 /\ answers[w][j + 1].result = "ok" BY <2>2, <3>3
          <5> QED BY <2>2, <3>1, <5>1 DEF TimeOk
        <4> QED BY <1>1, <1>2, <2>2, <3>1, <4>1
      <3>4. ASSUME answers'[w][i].reader = "reload", board'[w].draft # Unset
            PROVE  board'[w].draft.registry \cap Content(row') \subseteq answers'[w][i].registry
        <4>1. "reload" # Unset BY DEF RegistryConstants, Readers
        <4>2. answers[w][i + 1].reader = "reload" BY <2>2, <3>4, <4>1
        <4> QED BY <1>3, <2>2, <3>1, <3>4, <4>2, ReloadAnswerTime
      <3> QED BY <3>2, <3>3, <3>4
    <2> QED BY <2>3, <2>4 DEF TimeOk
  <1>7. CASE /\ board'[w].registry = board[w].registry
             /\ Shown(w) => accepted'[w][board[w].view] = accepted[w][board[w].view]
    <2>1. KnowsStill(w) BY <1>3, <1>4, <1>7 DEF KnowsStill
    <2> QED BY <1>4, <2>1, TimePass DEF RowMoves
  <1> QED BY <1>6, <1>7

-----------------------------------------------------------------------------
(* Boards: the steps after which edits are where they were.                  *)

\* The queues keep what they hold, but for readers, and the board its draft, if any.
Calm(w) ==
    /\ OneWindow(w) /\ accepted' = accepted /\ row' = row /\ QueueTypes'
    /\ Drops(writes[w], writes'[w], 0) /\ Rests(writes[w], writes'[w])
    /\ Passes(answers[w], answers'[w], 0)

LEMMA CalmOps ==
    ASSUME OrderInv, QueueTypes', NEW w \in Windows, Drops(writes[w], writes'[w], 0),
           Rests(writes[w], writes'[w]), NEW i \in DOMAIN writes'[w]
    PROVE  /\ i \in Nat \ {0} /\ i + 0 = i /\ i \in DOMAIN writes[w] /\ SameOp(writes[w][i], writes'[w][i])
           /\ writes'[w][i].phase = writes[w][i].phase /\ writes'[w][i].seen = writes[w][i].seen
  <1>1. i \in Nat \ {0} /\ i + 0 = i /\ i \in DOMAIN writes[w] /\ SameOp(writes[w][i], writes'[w][i])
        /\ (i > 1 => writes'[w][i].phase = writes[w][i].phase /\ writes'[w][i].seen = writes[w][i].seen)
    BY Shifted
  <1>2. CASE i = 1 BY <1>1, <1>2, Rested
  <1> QED BY <1>1, <1>2

LEMMA CalmPending ==
    ASSUME OrderInv, QueueTypes', NEW w \in Windows, Drops(writes[w], writes'[w], 0),
           Rests(writes[w], writes'[w]), PendingOk(w), KeepsOut({}), row' = row
    PROVE  PendingOk(w)'
  <1>1. ASSUME NEW i \in DOMAIN writes'[w], Pends(writes'[w][i])
        PROVE  Pends(writes[w][i + 0]) /\ writes[w][i + 0].by \notin Content(row')
    <2>1. i + 0 = i /\ i \in DOMAIN writes[w] /\ Pends(writes[w][i])
      BY <1>1, CalmOps DEF Pends, SameOp
    <2> QED BY <2>1 DEF PendingOk, Private, Unseen
  <1> QED BY <1>1, PendingDrop

LEMMA CalmSave ==
    ASSUME OrderInv, QueueTypes', NEW w \in Windows, Drops(writes[w], writes'[w], 0),
           Rests(writes[w], writes'[w]), SaveOk(w), KeepsOut({}), row' = row, accepted' = accepted,
           board'[w].draft # Unset =>
              /\ board[w].draft # Unset /\ board'[w].draft.registry = board[w].draft.registry
              /\ board'[w].view = board[w].view
    PROVE  SaveOk(w)'
  <1>1. \A i \in DOMAIN writes'[w] : /\ writes'[w][i].phase = writes[w][i + 0].phase
                                     /\ writes'[w][i].seen = writes[w][i + 0].seen
    BY CalmOps
  <1> QED BY <1>1, SaveDrop DEF RowMoves

LEMMA CalmOut ==
    ASSUME OrderInv, NEW w \in Windows, Calm(w), DraftGoes(w), FromSeen(board'[w].registry)
    PROVE  KeepsOut({})
  <1>1. \A i \in DOMAIN writes'[w] : FromSeen(Content(writes'[w][i].seen)) BY Sees, Rested DEF Calm
  <1>2. Learns(w) BY <1>1, Hears, SeenBefore DEF Learns, Calm
  <1>3. \A x : (Strange(x, w) => Strange(x, w)') /\ \A v : Aside(x, w, v) => Aside(x, w, v)'
    BY StrangeStays DEF Calm
  <1> QED BY <1>2, <1>3, KeepsFrom DEF Calm

LEMMA CalmWindow ==
    ASSUME RegistryConstants, OrderInv, NEW w \in Windows, Calm(w), Shows(w), KeepsOut({}), WindowOk(w)
    PROVE  WindowOk(w)'
  <1>1. PendingOk(w)' /\ SaveOk(w)' BY CalmPending, CalmSave DEF Calm, Shows, WindowOk
  <1>2. KnowsStill(w) BY DEF KnowsStill, DraftKept, NewsBeside, Calm, Shows
  <1>3. TimeOk(w)' BY <1>2, TimePass DEF Calm, WindowOk, RowMoves
  <1>4. ChainOk(w)' BY ChainDrop DEF Calm, Shows, WindowOk
  <1>5. LastOk(w)' BY LastDrop DEF Calm, Shows, WindowOk
  <1> QED BY <1>1, <1>3, <1>4, <1>5 DEF WindowOk

LEMMA QuietStep ==
    ASSUME RegistryConstants, OrderInv, TypeOK', EditsInv, NEW w \in Windows, OneWindow(w), row' = row,
           KeepsOut({}), edits' >= edits, task'[w] \in {Unset, task[w]},
           Content(row) = {} =>
              /\ board'[w].registry = {}
              /\ \A v \in 1..MaxVisits : accepted'[w][v] = {}
              /\ \A i \in DOMAIN answers'[w] : answers'[w][i].result = "ok" => answers'[w][i].registry = {},
           WindowOk(w)'
    PROVE  EditsInv'
  <1>1. RowMoves /\ \A u \in Windows : NewsTo(u) BY DEF RowMoves, NewsTo
  <1>2. \A x \in 1..MaxInputs : Clear(x) => x \notin Content(row') BY DEF Clear, Unseen
  <1> QED BY <1>1, <1>2, EditsStep

LEMMA PassedBlank ==
    ASSUME OrderInv, QueueTypes', BlankOk, NEW w \in Windows, NEW m \in {0, 1},
           Passes(answers[w], answers'[w], m), Content(row) = {}
    PROVE  \A i \in DOMAIN answers'[w] : answers'[w][i].result = "ok" => answers'[w][i].registry = {}
  BY DEF BlankOk, Passes

LEMMA CalmStep ==
    ASSUME RegistryConstants, OrderInv, TypeOK', EditsInv, NEW w \in Windows, Calm(w), edits' >= edits,
           task'[w] \in {Unset, task[w]},
           \/ Shows(w)
           \/ /\ board'[w].registry = {} /\ board'[w].draft = Unset
              /\ \A i \in DOMAIN writes[w] : writes[w][i].kind = "write" => writes[w][i].view # board'[w].view
              /\ Shown(w)' => accepted[w][board'[w].view] = {}
    PROVE  EditsInv'
  <1>1. WindowOk(w) /\ BlankOk BY DEF EditsInv
  <1>2. KeepsOut({})
    <2>1. DraftGoes(w) /\ FromSeen(board'[w].registry) BY SeenBefore DEF DraftGoes, Shows
    <2> QED BY <2>1, CalmOut
  <1>3. WindowOk(w)'
    <2>1. CASE Shows(w) BY <1>1, <1>2, <2>1, CalmWindow
    <2>2. CASE /\ board'[w].registry = {} /\ board'[w].draft = Unset
               /\ \A i \in DOMAIN writes[w] : writes[w][i].kind = "write" => writes[w][i].view # board'[w].view
               /\ Shown(w)' => accepted[w][board'[w].view] = {}
      <3>1. PendingOk(w)' /\ SaveOk(w)'
        BY <1>1, <1>2, <2>2, CalmPending, CalmSave DEF Calm, WindowOk
      <3>2. TimeOk(w)' BY <1>1, <2>2, TimeEmpty DEF Calm, WindowOk
      <3>3. ChainOk(w)' BY <1>1, <2>2, ChainDrop DEF Calm, WindowOk
      <3>4. \A i \in DOMAIN writes'[w] : ~Owns(w, i)' BY <2>2, CalmOps DEF Calm, Owns, SameOp
      <3>5. LastOk(w)' BY <3>4, LastNone
      <3> QED BY <3>1, <3>2, <3>3, <3>5 DEF WindowOk
    <2> QED BY <2>1, <2>2
  <1>4. ASSUME Content(row) = {}
        PROVE  /\ board'[w].registry = {}
               /\ \A v \in 1..MaxVisits : accepted'[w][v] = {}
               /\ \A i \in DOMAIN answers'[w] : answers'[w][i].result = "ok" => answers'[w][i].registry = {}
    <2>1. board[w].registry = {} /\ \A v \in 1..MaxVisits : accepted[w][v] = {}
      BY <1>1, <1>4 DEF BlankOk
    <2> QED BY <1>1, <1>4, <2>1, PassedBlank DEF Calm, Shows
  <1> QED BY <1>2, <1>3, <1>4, QuietStep DEF Calm

LEMMA OrderedTypes == ASSUME OrderInv PROVE TypeOK /\ QueueTypes
  BY DEF OrderInv, TypeOK, QueueTypes

\* The board shows what it showed: a reread, a reload that begins, or a task that is over.
LEMMA StaysEdits ==
    ASSUME RegistryConstants, OrderInv, OrderInv', EditsInv, NEW w \in Windows, Stays(w), Shows(w),
           row' = row, edits' >= edits
    PROVE  EditsInv'
  <1>1. Calm(w) BY OrderedTypes DEF Stays, Calm, OrderInv, TypeOK, QueueTypes
  <1> QED BY <1>1, CalmStep DEF Stays, OrderInv

LEMMA OverEdits ==
    ASSUME RegistryConstants, OrderInv, OrderInv', EditsInv, NEW w \in Windows, Over(w),
           row' = row, edits' >= edits
    PROVE  EditsInv'
  <1>1. writes[w] \in Seq(Operation) /\ answers[w] \in Seq(Answers) BY DEF OrderInv, TypeOK
  <1>2. QueueTypes' BY DEF OrderInv, TypeOK, QueueTypes
  <1>3. Calm(w) BY <1>1, <1>2, StayedOps, StayedAnswers DEF Over, Calm
  <1> QED BY <1>3, CalmStep DEF Over, OrderInv

LEMMA EnterEdits ==
    ASSUME RegistryConstants, OrderInv, EditsInv, NEW w \in Windows, Enter(w)
    PROVE  EditsInv'
  <1>1. /\ OrderInv' /\ Empties(w)
        /\ board'[w].view > board[w].visits /\ board'[w].view \in 1..MaxVisits
    BY EnterOrdered
  <1>2. row' = row /\ edits' >= edits BY InputCounts DEF Enter, OrderInv, TypeOK
  <1>3. Calm(w) BY <1>1, <1>2 DEF Empties, Stays, Calm, OrderInv, TypeOK, QueueTypes
  <1>4. \A i \in DOMAIN writes[w] : writes[w][i].kind = "write" => writes[w][i].view # board'[w].view
    <2>1. board[w].visits \in Int /\ board'[w].view \in Int BY <1>1 DEF OrderInv, TypeOK, Board
    <2> QED BY <1>1, <2>1, OpsKnown
  <1>5. accepted[w][board'[w].view] = {} BY <1>1 DEF OrderInv, ViewOk
  <1> QED BY <1>1, <1>2, <1>3, <1>4, <1>5, CalmStep DEF Empties, Stays, OrderInv

LEMMA LeaveEdits ==
    ASSUME RegistryConstants, OrderInv, EditsInv, NEW w \in Windows, Leave(w)
    PROVE  EditsInv'
  <1>1. OrderInv' /\ Empties(w) /\ board'[w].view = 0 BY LeaveOrdered
  <1>2. row' = row /\ edits' >= edits BY InputCounts DEF Leave, OrderInv, TypeOK
  <1>3. Calm(w) BY <1>1, <1>2 DEF Empties, Stays, Calm, OrderInv, TypeOK, QueueTypes
  <1>4. \A i \in DOMAIN writes[w] : writes[w][i].kind = "write" => writes[w][i].view # board'[w].view
    BY <1>1, OpsKnown
  <1>5. ~Shown(w)' BY <1>1 DEF Shown
  <1> QED BY <1>1, <1>2, <1>3, <1>4, <1>5, CalmStep DEF Empties, Stays, OrderInv

-----------------------------------------------------------------------------
(* Boards: commands that run, and their answers.                             *)

LEMMA BoardStays ==
    ASSUME NEW w \in Windows, UNCHANGED <<board, accepted>>, NewsBeside(w)
    PROVE  KnowsStill(w)
  BY DEF KnowsStill, DraftKept

\* The answer of a read is on its way.
LEMMA AnswerEdits ==
    ASSUME RegistryConstants, OrderInv, OrderInv', EditsInv, NEW w \in Windows, NEW x, AddsAnswer(w, x),
           x.result = "ok" => x.registry = Content(row),
           UNCHANGED <<row, board, accepted, writes, task, edits>>
    PROVE  EditsInv'
  <1>1. QueueTypes' /\ WindowOk(w) /\ BlankOk /\ TypeOK'
    BY OrderedTypes DEF OrderInv, TypeOK, QueueTypes, EditsInv
  <1>2. Drops(writes[w], writes'[w], 0) /\ Rests(writes[w], writes'[w])
    BY StayedOps DEF OrderInv, TypeOK
  <1>3. Adds(answers[w], answers'[w], x) BY DEF AddsAnswer
  <1>4. KeepsOut({})
    <2>1. DraftGoes(w) BY DEF DraftGoes
    <2>2. \A i \in DOMAIN answers'[w] : answers'[w][i].result = "ok" => FromSeen(answers'[w][i].registry)
      BY <1>3, HearsMore, SeenBefore
    <2>3. Learns(w) BY <2>2, SeenBefore DEF Learns
    <2> QED BY <1>2, <2>1, <2>3, StrangeStays, KeepsFrom DEF AddsAnswer
  <1>5. WindowOk(w)'
    <2>1. PendingOk(w)' /\ SaveOk(w)' /\ ChainOk(w)' /\ LastOk(w)'
      BY <1>1, <1>2, <1>4, CalmPending, CalmSave, ChainDrop, LastDrop DEF WindowOk
    <2>2. KnowsStill(w) BY BoardStays DEF NewsBeside
    <2>3. TimeOk(w)' BY <1>1, <1>3, <2>2, TimeMore DEF WindowOk, RowMoves
    <2> QED BY <2>1, <2>3 DEF WindowOk
  <1>6. ASSUME Content(row) = {}
        PROVE  \A i \in DOMAIN answers'[w] : answers'[w][i].result = "ok" => answers'[w][i].registry = {}
    BY <1>1, <1>3, <1>6 DEF BlankOk, Adds
  <1>7. edits' >= edits BY DEF OrderInv, TypeOK
  <1> QED BY <1>1, <1>4, <1>5, <1>6, <1>7, QuietStep DEF AddsAnswer, BlankOk

LEMMA WorkedOut ==
    ASSUME RegistryConstants, OrderInv, QueueTypes', NEW w \in Windows, Works(w),
           writes'[w][1].seen \in {Unset, row},
           \/ answers' = answers
           \/ \E x : Adds(answers[w], answers'[w], x) /\ (x.result = "ok" => x.registry = Content(row'))
    PROVE  KeepsOut({})
  <1>1. OneWindow(w) /\ Drops(writes[w], writes'[w], 0) /\ DraftGoes(w) BY DEF Works, DraftGoes
  <1>2. \A i \in DOMAIN writes'[w] : FromSeen(Content(writes'[w][i].seen)) BY <1>1, Sees, SeenBefore
  <1>3. \A i \in DOMAIN answers'[w] : answers'[w][i].result = "ok" => FromSeen(answers'[w][i].registry)
    BY HearsMore, SeenBefore
  <1>4. Learns(w) BY <1>2, <1>3, SeenBefore DEF Learns, Works
  <1> QED BY <1>1, <1>4, StrangeStays, KeepsFrom

LEMMA WorkedWindow ==
    ASSUME RegistryConstants, OrderInv, QueueTypes', NEW w \in Windows, WindowOk(w), Works(w), RowMoves,
           NewsBeside(w), KeepsOut({}), writes'[w][1].phase # "queued",
           \/ answers' = answers
           \/ \E x : Adds(answers[w], answers'[w], x) /\ (x.result = "ok" => x.registry = Content(row')),
           \A i \in DOMAIN writes'[w] : Pends(writes'[w][i]) =>
              Pends(writes[w][i]) /\ writes[w][i].by \notin Content(row'),
           writes'[w][1].kind = "write" /\ writes'[w][1].phase = "checked" =>
              Fits(w, writes[w][1].view, Content(writes[w][1].seen), writes[w][1].next)'
    PROVE  WindowOk(w)'
  <1>1. Drops(writes[w], writes'[w], 0) /\ board' = board /\ accepted' = accepted BY DEF Works
  <1>2. \A i \in DOMAIN writes'[w] : i + 0 = i /\ (i # 1 => /\ writes'[w][i].phase = writes[w][i].phase
                                                            /\ writes'[w][i].phase = "queued")
    BY <1>1, Shifted
  <1>3. PendingOk(w)' BY <1>1, <1>2, PendingDrop DEF WindowOk
  <1>4. SaveOk(w)'
    <2>1. ASSUME NEW i \in DOMAIN writes'[w], writes'[w][i].kind = "write"
          PROVE  /\ writes'[w][i].phase = "queued" =>
                       /\ writes[w][i + 0].phase = "queued"
                       /\ accepted'[w][writes'[w][i].view] = accepted[w][writes'[w][i].view]
                 /\ writes'[w][i].phase = "checked" =>
                       Fits(w, writes[w][i].view, Content(writes[w][i].seen), writes[w][i].next)'
      <3>1. CASE i = 1 BY <2>1, <3>1
      <3>2. CASE i # 1 BY <1>1, <1>2, <3>2
      <3> QED BY <3>1, <3>2
    <2> QED BY <1>1, <2>1, SaveDrop DEF WindowOk, Shown
  <1>5. TimeOk(w)'
    <2>1. KnowsStill(w) BY <1>1, BoardStays
    <2>2. CASE answers' = answers
      <3>1. Passes(answers[w], answers'[w], 0) BY <2>2, StayedAnswers DEF OrderInv, TypeOK
      <3> QED BY <2>1, <3>1, TimePass DEF WindowOk
    <2>3. CASE \E x : Adds(answers[w], answers'[w], x) /\ (x.result = "ok" => x.registry = Content(row'))
      BY <1>1, <2>1, <2>3, TimeMore DEF WindowOk
    <2> QED BY <2>2, <2>3
  <1>6. ChainOk(w)' /\ LastOk(w)' BY <1>1, ChainDrop, LastDrop DEF WindowOk
  <1> QED BY <1>3, <1>4, <1>5, <1>6 DEF WindowOk

\* What the window gets to hear.
LEMMA WorkedBlank ==
    ASSUME BlankOk, NEW w \in Windows, Works(w), row' = row, Content(row) = {},
           \/ answers' = answers
           \/ \E x : Adds(answers[w], answers'[w], x) /\ (x.result = "ok" => x.registry = Content(row'))
    PROVE  /\ board'[w].registry = {} /\ \A v \in 1..MaxVisits : accepted'[w][v] = {}
           /\ \A i \in DOMAIN answers'[w] : answers'[w][i].result = "ok" => answers'[w][i].registry = {}
  <1>1. board'[w].registry = {} /\ \A v \in 1..MaxVisits : accepted'[w][v] = {}
    BY DEF BlankOk, Works
  <1>2. \A i \in DOMAIN answers'[w] : answers'[w][i].result = "ok" => answers'[w][i].registry = {}
    <2>1. \A i \in DOMAIN answers[w] : answers[w][i].result = "ok" => answers[w][i].registry = {}
      BY DEF BlankOk
    <2>2. CASE answers' = answers BY <2>1, <2>2
    <2>3. CASE \E x : Adds(answers[w], answers'[w], x) /\ (x.result = "ok" => x.registry = Content(row'))
      <3>1. PICK x : Adds(answers[w], answers'[w], x) /\ (x.result = "ok" => x.registry = Content(row'))
        BY <2>3
      <3>2. Content(row') = {} OBVIOUS
      <3> QED BY <2>1, <3>1, <3>2 DEF Adds
    <2> QED BY <2>2, <2>3
  <1> QED BY <1>1, <1>2

LEMMA WorkPends ==
    ASSUME OrderInv, QueueTypes', NEW w \in Windows, PendingOk(w), Works(w), row' = row,
           Pends(writes'[w][1]) => Op(w).phase = "queued"
    PROVE  \A i \in DOMAIN writes'[w] : Pends(writes'[w][i]) =>
              Pends(writes[w][i]) /\ writes[w][i].by \notin Content(row')
  <1> SUFFICES ASSUME NEW i \in DOMAIN writes'[w], Pends(writes'[w][i])
               PROVE  Pends(writes[w][i]) /\ writes[w][i].by \notin Content(row')
    OBVIOUS
  <1>1. /\ i \in Nat \ {0} /\ i + 0 = i /\ i \in DOMAIN writes[w] /\ SameOp(writes[w][i], writes'[w][i])
        /\ i > 1 => writes'[w][i].phase = writes[w][i].phase
    BY Shifted DEF Works
  <1>2. Pends(writes[w][i])
    <2>1. CASE i = 1 BY <1>1, <2>1 DEF Pends, SameOp, Op
    <2>2. CASE i > 1 BY <1>1, <2>2 DEF Pends, SameOp
    <2> QED BY <1>1, <2>1, <2>2
  <1> QED BY <1>1, <1>2 DEF PendingOk, Private, Unseen

\* An operation ends without a change of the row.
LEMMA SettledEdits ==
    ASSUME RegistryConstants, OrderInv, OrderInv', EditsInv, NEW w \in Windows, NEW x, Settles(w, x),
           row' = row, edits' = edits
    PROVE  EditsInv'
  <1>1. QueueTypes' /\ TypeOK' /\ WindowOk(w) /\ BlankOk
    BY OrderedTypes DEF OrderInv, TypeOK, QueueTypes, EditsInv
  <1>2. /\ Works(w) /\ writes'[w][1].phase = "answered" /\ writes'[w][1].seen = Unset
        /\ Adds(answers[w], answers'[w], x) /\ (x.result = "ok" => x.registry = Content(row'))
    BY DEF Settles
  <1>3. KeepsOut({}) BY <1>1, <1>2, WorkedOut
  <1>4. WindowOk(w)'
    <2>1. \A i \in DOMAIN writes'[w] : Pends(writes'[w][i]) =>
             Pends(writes[w][i]) /\ writes[w][i].by \notin Content(row')
      BY <1>1, <1>2, WorkPends DEF WindowOk, Pends
    <2>2. RowMoves /\ NewsBeside(w) BY DEF RowMoves, NewsBeside
    <2> QED BY <1>1, <1>2, <1>3, <2>1, <2>2, WorkedWindow
  <1>5. edits' >= edits BY DEF OrderInv, TypeOK
  <1> QED BY <1>1, <1>2, <1>3, <1>4, <1>5, WorkedBlank, QuietStep DEF Works

\* The row is what a write expects.
LEMMA CheckedEdits ==
    ASSUME RegistryConstants, OrderInv, OrderInv', EditsInv, NEW w \in Windows, Goes(w, "checked", row),
           Operating(w, "queued"), Op(w).kind = "write" => Content(row) = Expected(w),
           row' = row, edits' = edits
    PROVE  EditsInv'
  <1>1. QueueTypes' /\ TypeOK' /\ WindowOk(w) /\ BlankOk
    BY OrderedTypes DEF OrderInv, TypeOK, QueueTypes, EditsInv
  <1>2. /\ Works(w) /\ writes'[w][1].phase = "checked" /\ writes'[w][1].seen = row /\ answers' = answers
    BY DEF Goes
  <1>3. KeepsOut({}) BY <1>1, <1>2, WorkedOut
  <1>4. ASSUME writes'[w][1].kind = "write"
        PROVE  Fits(w, writes[w][1].view, Content(writes[w][1].seen), writes[w][1].next)'
    <2>1. 1 \in DOMAIN writes[w] /\ SameOp(writes[w][1], writes'[w][1]) /\ writes[w][1] = Op(w)
      BY <1>1, <1>2, Shifted DEF Works, Drops, Op
    <2>2. /\ Op(w).kind = "write" /\ Op(w).phase = "queued" /\ Content(row) = Expected(w)
          /\ OpOk(Op(w), 1, board[w].visits) /\ Pends(Op(w))
      BY <1>4, <2>1, OpsKnown DEF SameOp, Operating, Pends
    <2>3. Fits(w, Op(w).view, Content(row), Op(w).next)
      <3>1. CASE Op(w).guard = Unset
        <4>1. Fits(w, Op(w).view, accepted[w][Op(w).view], Op(w).next)
          BY <1>1, <2>1, <2>2, <3>1 DEF WindowOk, SaveOk
        <4> QED BY <2>2, <3>1, <4>1 DEF Expected
      <3>2. CASE Op(w).guard # Unset
        <4>1. Op(w).next = Content(row) \cup {Op(w).by} BY <2>2, <3>2 DEF Expected, OpOk
        <4>2. Private(Op(w).by, w, Op(w).view) BY <1>1, <2>1, <2>2 DEF WindowOk, PendingOk
        <4> QED BY <4>1, <4>2 DEF Fits
      <3> QED BY <3>1, <3>2
    <2>4. \A v, base, next : Known(base) /\ Fits(w, v, base, next) => Fits(w, v, base, next)'
      BY <1>3, FitsStays DEF RowMoves
    <2>5. Known(Content(row)) /\ Content(writes'[w][1].seen) = Content(row) BY <1>2, SeenBefore
    <2>6. writes'[w][1].view = Op(w).view /\ writes'[w][1].next = Op(w).next BY <2>1 DEF SameOp
    <2> QED BY <2>3, <2>4, <2>5, <2>6
  <1>5. WindowOk(w)'
    <2>1. \A i \in DOMAIN writes'[w] : Pends(writes'[w][i]) =>
             Pends(writes[w][i]) /\ writes[w][i].by \notin Content(row')
      BY <1>1, <1>2, WorkPends DEF WindowOk, Operating
    <2>2. RowMoves /\ NewsBeside(w) BY DEF RowMoves, NewsBeside
    <2> QED BY <1>1, <1>2, <1>3, <1>4, <2>1, <2>2, WorkedWindow
  <1>6. edits' >= edits BY DEF OrderInv, TypeOK
  <1> QED BY <1>1, <1>2, <1>3, <1>5, <1>6, WorkedBlank, QuietStep DEF Works

-----------------------------------------------------------------------------
(* Boards: the row changes.                                                  *)

\* What a checked operation saves contains what it saw; what is new is its own.
LEMMA SavesOwn ==
    ASSUME RegistryConstants, OrderInv, EditsInv, NEW w \in Windows, Saved(w)
    PROVE  /\ Content(row') = Op(w).next /\ 1 \in DOMAIN writes[w] /\ Op(w) = writes[w][1]
           /\ OpOk(Op(w), 1, board[w].visits)
           /\ \A x \in Content(row') \ Content(row) : Private(x, w, Op(w).view)
           /\ \E y \in Content(row') : Unseen(y)
           /\ Op(w).kind = "write" => Content(row) \subseteq Content(row')
           /\ Op(w).kind = "promotion" => row = Unset
  <1>1. /\ 1 \in DOMAIN writes[w] /\ Op(w) = writes[w][1] /\ OpOk(Op(w), 1, board[w].visits)
        /\ Op(w).next \in Registry /\ Op(w) \in Operation
    BY AtWork DEF Saved
  <1>2. /\ row = Op(w).seen /\ row' = Op(w).next /\ Op(w).phase = "checked"
    BY DEF Saved, Operating
  <1>3. Content(row') = Op(w).next BY <1>1, <1>2 DEF Content, RegistryConstants
  <1>4. WindowOk(w) /\ BlankOk BY DEF EditsInv
  <1>5. CASE Op(w).kind = "write"
    <2>1. Fits(w, Op(w).view, Content(row), Op(w).next)
      BY <1>1, <1>2, <1>4, <1>5 DEF WindowOk, SaveOk
    <2>2. Private(Op(w).by, w, Op(w).view) /\ Op(w).by \in Op(w).next
      BY <1>1, <1>2, <1>4, <1>5 DEF WindowOk, PendingOk, Pends, OpOk
    <2> QED BY <1>1, <1>3, <1>5, <2>1, <2>2 DEF Fits, Private
  <1>6. CASE Op(w).kind = "import"
    <2>1. Private(Op(w).by, w, Op(w).view) /\ Op(w).next = {Op(w).by}
      BY <1>1, <1>2, <1>4, <1>6 DEF WindowOk, PendingOk, Pends, OpOk
    <2> QED BY <1>1, <1>3, <1>6, <2>1 DEF Private
  <1>7. CASE Op(w).kind = "promotion"
    <2>1. row = Unset /\ Op(w).next = Legacy /\ Legacy # {} BY <1>1, <1>2, <1>7 DEF OpOk
    <2>2. \A x \in Legacy : Clear(x) BY <1>4, <2>1 DEF BlankOk, Content
    <2>3. \A x, v : Clear(x) => Private(x, w, v) BY DEF Clear, Private, Aside, Strange
    <2> QED BY <1>1, <1>3, <1>7, <2>1, <2>2, <2>3 DEF Clear
  <1> QED BY <1>1, <1>5, <1>6, <1>7 DEF Operation

LEMMA SavedEdits ==
    ASSUME RegistryConstants, OrderInv, OrderInv', EditsInv, NEW w \in Windows, Saved(w), edits' = edits
    PROVE  EditsInv'
  <1>1. QueueTypes' /\ TypeOK' /\ WindowOk(w) /\ BlankOk
    BY OrderedTypes DEF OrderInv, TypeOK, QueueTypes, EditsInv
  <1>2. /\ Content(row') = Op(w).next /\ 1 \in DOMAIN writes[w] /\ Op(w) = writes[w][1]
        /\ OpOk(Op(w), 1, board[w].visits)
        /\ \A x \in Content(row') \ Content(row) : Private(x, w, Op(w).view)
        /\ \E y \in Content(row') : Unseen(y)
    BY SavesOwn
  <1>3. /\ Works(w) /\ writes'[w][1].phase \in {"answered", "confirming"} /\ writes'[w][1].seen = Unset
        /\ \/ answers' = answers
           \/ \E x : Adds(answers[w], answers'[w], x) /\ (x.result = "ok" => x.registry = Content(row'))
    BY DEF Saved, Settles, Goes
  <1>4. RowMoves BY <1>2 DEF RowMoves, Private
  <1>5. KeepsOut({}) BY <1>1, <1>3, WorkedOut
  <1>6. \A u \in Windows \ {w} : NewsTo(u) BY <1>2 DEF NewsTo, Private
  <1>7. NewsBeside(w)
    <2> SUFFICES ASSUME NEW i \in DOMAIN answers[w], answers[w][i].reader = "reload", board[w].draft # Unset,
                        NEW x \in board[w].draft.registry, x \in Content(row'), x \notin Content(row)
                 PROVE  FALSE
      BY DEF NewsBeside
    <2>1. Reloads(w) BY DEF OrderInv, ReloadOk
    <2>2. Op(w).view # board[w].view
      <3>1. Op(w).kind \in {"write", "import", "promotion"} BY <1>2, OpsKnown DEF Operation
      <3>2. Op(w).kind = "write" => Op(w).view # board[w].view BY <1>2, <2>1 DEF Reloads, Owns
      <3>3. Op(w).kind # "write" => Op(w).view = 0 BY <1>2, <3>1 DEF OpOk
      <3> QED BY <2>1, <3>2, <3>3 DEF Reloads, Shown
    <2> QED BY <1>2, <2>2 DEF Private, Aside
  <1>8. ASSUME NEW i \in DOMAIN writes'[w], Pends(writes'[w][i])
        PROVE  Pends(writes[w][i]) /\ writes[w][i].by \notin Content(row')
    <2>1. /\ i \in Nat \ {0} /\ i \in DOMAIN writes[w] /\ SameOp(writes[w][i], writes'[w][i])
          /\ i > 1 => writes'[w][i].phase = writes[w][i].phase
      BY <1>1, <1>3, Shifted DEF Works
    <2>2. i > 1 BY <1>3, <1>8, <2>1 DEF Pends
    <2>3. Pends(writes[w][i]) BY <1>8, <2>1, <2>2 DEF Pends, SameOp
    <2>4. CASE Op(w).kind # "promotion"
      BY <1>1, <1>2, <2>1, <2>2, <2>3, <2>4 DEF WindowOk, PendingOk
    <2>5. CASE Op(w).kind = "promotion"
      <3>1. Content(row') = Legacy BY <1>2, <2>5 DEF OpOk
      <3>2. writes[w][i].by \in 1..MaxInputs
        <4>1. /\ writes[w][i] \in Operation /\ OpOk(writes[w][i], i, board[w].visits)
              /\ MaxInputs \in Nat
          BY <2>1, OpsKnown DEF RegistryConstants
        <4>2. writes[w][i].by \in 0..MaxInputs /\ writes[w][i].by # 0
          BY <2>3, <4>1 DEF Operation, OpOk, Pends
        <4> QED BY <4>1, <4>2
      <3> QED BY <2>3, <3>1, <3>2 DEF RegistryConstants
    <2> QED BY <2>3, <2>4, <2>5
  <1>9. WindowOk(w)' BY <1>1, <1>3, <1>4, <1>5, <1>7, <1>8, WorkedWindow
  <1>10. \A x \in 1..MaxInputs : Clear(x) => x \notin Content(row')
    <2> SUFFICES ASSUME NEW x \in 1..MaxInputs, Clear(x), x \in Content(row') PROVE FALSE OBVIOUS
    <2>1. CASE Op(w).kind # "promotion" BY <1>2, <2>1 DEF Clear, Strange
    <2>2. CASE Op(w).kind = "promotion" BY <1>2, <2>2 DEF OpOk, RegistryConstants
    <2> QED BY <2>1, <2>2
  <1>11. edits' >= edits /\ Content(row') # {} BY <1>2 DEF OrderInv, TypeOK
  <1> QED BY <1>1, <1>3, <1>4, <1>5, <1>6, <1>9, <1>10, <1>11, EditsStep DEF Works

\* A commit elsewhere is new to every window.
LEMMA ElsewhereEdits ==
    ASSUME RegistryConstants, OrderInv, EditsInv, CommitElsewhere
    PROVE  EditsInv'
  <1>1. /\ OrderInv' /\ edits' = edits + 1 /\ TypeOK'
        /\ UNCHANGED <<board, accepted, writes, answers, task>>
        /\ row' \in {IF row = Unset THEN Legacy ELSE row \cup {edits'}, {edits'}}
    BY ElsewhereOrdered DEF OrderInv
  <1>2. edits' \in 1..MaxInputs /\ edits' > edits /\ edits \in Int /\ Clear(edits')
    BY InputCounts DEF CommitElsewhere, OrderInv, TypeOK, EditsInv, FreshOk
  <1>3. /\ \A x \in Content(row') \ Content(row) : Clear(x)
        /\ \/ Content(row') = Content(row)
           \/ \E y \in Content(row') : Clear(y)
        /\ \A x \in Content(row') \ Content(row) : x = edits' \/ (Content(row) = {} /\ x \in Legacy)
    <2>1. row' # Unset /\ Content(row') = row'
      BY <1>1, <1>2 DEF Content, OrderInv, TypeOK, RegistryConstants, Registry
    <2>2. CASE row = Unset /\ row' = Legacy
      <3>1. \A x \in Legacy : Clear(x) BY <2>2 DEF EditsInv, BlankOk, Content
      <3> QED BY <2>1, <2>2, <3>1 DEF Content
    <2>3. CASE row # Unset /\ row' = row \cup {edits'} BY <1>2, <2>1, <2>3 DEF Content
    <2>4. CASE row' = {edits'} BY <1>2, <2>1, <2>4
    <2> QED BY <1>1, <2>2, <2>3, <2>4
  <1>4. RowMoves BY <1>3 DEF RowMoves, Clear
  <1>5. KeepsOut({}) BY <1>1 DEF KeepsOut, Unseen, Strange, Aside, Content
  <1>6. ASSUME NEW u \in Windows PROVE WindowOk(u)'
    <2>1. NewsTo(u) BY <1>3 DEF NewsTo, Clear
    <2>2. WindowOk(u) BY DEF EditsInv
    <2> QED BY <1>1, <1>4, <1>5, <2>1, <2>2, WindowStays
  <1>7. FreshOk'
    <2>1. \A x \in 1..MaxInputs : x > edits' => x \notin Content(row')
      BY <1>2, <1>3 DEF EditsInv, FreshOk, Clear, Unseen, RegistryConstants
    <2>2. \A u \in Windows : task'[u] # Unset =>
             task'[u] = task[u] /\ task[u].edit \notin {} /\ task[u].edit \notin Content(row')
      <3> SUFFICES ASSUME NEW u \in Windows, task[u] # Unset, task[u].edit \in Content(row')
                   PROVE  FALSE
        BY <1>1
      <3>1. Clear(task[u].edit) /\ task[u].edit <= edits /\ task[u].edit \in 1..MaxInputs
        BY TaskTyped DEF EditsInv, FreshOk, OrderInv
      <3> QED BY <1>2, <1>3, <3>1 DEF Clear, Unseen, RegistryConstants
    <2> QED BY <1>1, <1>2, <1>5, <2>1, <2>2, FreshStays DEF EditsInv
  <1>8. BlankOk'
    <2> SUFFICES ASSUME Content(row') = {}
                 PROVE  /\ \A x \in Legacy : Clear(x)'
                        /\ \A w \in Windows :
                              /\ board'[w].registry = {}
                              /\ \A v \in 1..MaxVisits : accepted'[w][v] = {}
                              /\ \A i \in DOMAIN answers'[w] :
                                    answers'[w][i].result = "ok" => answers'[w][i].registry = {}
      BY DEF BlankOk, Content
    <2>1. Content(row) = {} BY <1>3
    <2>2. BlankOk BY DEF EditsInv
    <2>3. \A x \in Legacy : Clear(x)' BY <1>5, <2>1, <2>2, ClearStays DEF BlankOk
    <2> QED BY <1>1, <2>1, <2>2, <2>3 DEF BlankOk
  <1> QED BY <1>6, <1>7, <1>8 DEF EditsInv

-----------------------------------------------------------------------------
(* Boards: answers that reach a window.                                      *)

LEMMA LaterPends ==
    ASSUME OrderInv, NEW w \in Windows, NEW i \in DOMAIN writes[w], i # 1, writes[w][i].kind # "promotion"
    PROVE  Pends(writes[w][i]) /\ writes[w][i].phase = "queued" /\ i > 1 /\ 1 < i
  BY OpsKnown DEF OpOk, Pends

\* When the write of the draft ends, no other write of its view is left.
LEMMA MineIsLast ==
    ASSUME OrderInv, NEW w \in Windows, PendingOk(w), LastOk(w), 1 \in DOMAIN writes[w],
           Op(w).kind = "write", Mine(board[w], Op(w))
    PROVE  /\ Shown(w) /\ board[w].draft.registry = Op(w).next
           /\ \A i \in DOMAIN writes[w] : Owns(w, i) => i = 1
  <1>1. Op(w) = writes[w][1] /\ Op(w).view \in 1..MaxVisits /\ Op(w).by \in Op(w).next
    BY OpsKnown DEF Op
  <1>2. Shown(w) /\ Owns(w, 1) BY <1>1 DEF Mine, Shown, Owns
  <1>3. ASSUME NEW m \in DOMAIN writes[w], Owns(w, m), writes[w][m].by = board[w].draft.by PROVE m = 1
    <2> SUFFICES ASSUME m # 1 PROVE FALSE OBVIOUS
    <2>1. Pends(writes[w][m]) /\ 1 < m BY <1>3, LaterPends DEF Owns
    <2>2. writes[w][m].by \notin writes[w][1].next BY <1>1, <2>1 DEF PendingOk
    <2> QED BY <1>1, <1>3, <2>2 DEF Mine
  <1>4. ASSUME NEW i \in DOMAIN writes[w], Owns(w, i) PROVE i = 1 /\ board[w].draft.registry = Op(w).next
    <2>1. PICK m \in DOMAIN writes[w] :
             /\ i <= m /\ Owns(w, m) /\ writes[w][m].by = board[w].draft.by
             /\ writes[w][m].next = board[w].draft.registry
      BY <1>2, <1>4 DEF LastOk
    <2>2. m = 1 BY <1>3, <2>1
    <2>3. i \in Nat \ {0} BY OpsKnown
    <2> QED BY <1>1, <2>1, <2>2, <2>3
  <1> QED BY <1>2, <1>4

\* What a later write of the view saves contains what the first one did.
LEMMA LaterFits ==
    ASSUME OrderInv, NEW w \in Windows, PendingOk(w), ChainOk(w), 1 \in DOMAIN writes[w],
           NEW k \in DOMAIN writes[w], k # 1, writes[w][1].kind = "write", writes[w][k].kind = "write",
           writes[w][k].view = writes[w][1].view,
           writes[w][k].guard = Unset \/ writes[w][k].view = board[w].view
    PROVE  Fits(w, writes[w][k].view, writes[w][1].next, writes[w][k].next)
  <1>1. 1 < k BY LaterPends
  <1>2. Builds(writes[w], 1, k) BY <1>1 DEF ChainOk
  <1>3. ASSUME NEW x \in writes[w][k].next \ writes[w][1].next PROVE Private(x, w, writes[w][k].view)
    <2>1. PICK j \in DOMAIN writes[w] :
             1 < j /\ j <= k /\ writes[w][j].kind = "write" /\ writes[w][j].view = writes[w][k].view
             /\ writes[w][j].by = x
      BY <1>2 DEF Builds
    <2>2. Pends(writes[w][j]) BY <2>1, LaterPends
    <2> QED BY <2>1, <2>2 DEF PendingOk
  <1> QED BY <1>2, <1>3 DEF Fits, Builds

LEMMA TakenOps ==
    ASSUME OrderInv, QueueTypes', NEW w \in Windows, Takes(w)
    PROVE  \E n \in {0, 1} :
              /\ n = (IF answers[w][1].done THEN 1 ELSE 0)
              /\ Drops(writes[w], writes'[w], n) /\ (n = 0 => Rests(writes[w], writes'[w]))
              /\ \A i \in DOMAIN writes'[w] :
                    /\ i + n \in DOMAIN writes[w] /\ SameOp(writes[w][i + n], writes'[w][i])
                    /\ writes'[w][i].phase = writes[w][i + n].phase
                    /\ writes'[w][i].seen = writes[w][i + n].seen
                    /\ n = 1 => i + n # 1
  <1>1. CASE answers[w][1].done
    <2>1. Drops(writes[w], writes'[w], 1) BY <1>1 DEF Takes
    <2>2. \A i \in DOMAIN writes'[w] :
             /\ i + 1 \in DOMAIN writes[w] /\ SameOp(writes[w][i + 1], writes'[w][i]) /\ i + 1 > 1
             /\ writes'[w][i].phase = writes[w][i + 1].phase /\ writes'[w][i].seen = writes[w][i + 1].seen
      <3>1. ASSUME NEW i \in DOMAIN writes'[w]
            PROVE  /\ i + 1 > 1 /\ i + 1 \in DOMAIN writes[w] /\ SameOp(writes[w][i + 1], writes'[w][i])
                   /\ i + 1 > 1 => /\ writes'[w][i].phase = writes[w][i + 1].phase
                                   /\ writes'[w][i].seen = writes[w][i + 1].seen
        <4>1. i \in Nat \ {0} BY <2>1, Shifted
        <4> QED BY <2>1, <4>1, Shifted
      <3> QED BY <3>1
    <2> QED BY <1>1, <2>1, <2>2
  <1>2. CASE ~answers[w][1].done
    <2>1. Drops(writes[w], writes'[w], 0) /\ Rests(writes[w], writes'[w]) BY <1>2 DEF Takes
    <2> QED BY <1>2, <2>1, CalmOps
  <1> QED BY <1>1, <1>2

LEMMA TakenOut ==
    ASSUME RegistryConstants, OrderInv, QueueTypes', NEW w \in Windows, Takes(w)
    PROVE  KeepsOut({})
  <1>1. PICK n \in {0, 1} :
           /\ Drops(writes[w], writes'[w], n)
           /\ \A i \in DOMAIN writes'[w] : /\ i + n \in DOMAIN writes[w]
                                           /\ writes'[w][i].seen = writes[w][i + n].seen
    BY TakenOps
  <1>2. \A i \in DOMAIN writes'[w] : FromSeen(Content(writes'[w][i].seen)) BY <1>1, SeenBefore
  <1>3. \A i \in DOMAIN answers'[w] : answers'[w][i].result = "ok" => FromSeen(answers'[w][i].registry)
    BY Hears DEF Takes
  <1>4. FromSeen(board'[w].registry) /\ \A v \in 1..MaxVisits : FromSeen(accepted'[w][v])
    BY SeenBefore DEF Takes, Saves
  <1>5. Learns(w) BY <1>2, <1>3, <1>4 DEF Learns
  <1>6. DraftGoes(w) BY TakesKeeps DEF Takes, DraftGoes
  <1> QED BY <1>1, <1>5, <1>6, StrangeStays, KeepsFrom DEF Takes

LEMMA TakenSave ==
    ASSUME RegistryConstants, OrderInv, QueueTypes', NEW w \in Windows, Takes(w), WindowOk(w),
           KeepsOut({}), row' = row
    PROVE  SaveOk(w)'
  <1> DEFINE a == answers[w][1]
  <1>1. PICK n \in {0, 1} :
           /\ n = (IF a.done THEN 1 ELSE 0)
           /\ Drops(writes[w], writes'[w], n) /\ (n = 0 => Rests(writes[w], writes'[w]))
           /\ \A i \in DOMAIN writes'[w] :
                 /\ i + n \in DOMAIN writes[w] /\ SameOp(writes[w][i + n], writes'[w][i])
                 /\ writes'[w][i].phase = writes[w][i + n].phase
                 /\ writes'[w][i].seen = writes[w][i + n].seen
                 /\ n = 1 => i + n # 1
    BY TakenOps
  <1>2. /\ \A v \in 1..MaxVisits :
              accepted'[w][v] = IF Saves(w, a) THEN IF v = Op(w).view THEN a.registry ELSE accepted[w][v]
                                ELSE IF a.reader = "reload" /\ a.result = "ok" /\ v = board[w].view
                                THEN a.registry ELSE accepted[w][v]
        /\ a.reader = "reload" => Reloads(w)
        /\ a.done => 1 \in DOMAIN writes[w] /\ (Saves(w, a) => a.registry = Op(w).next)
        /\ board'[w].view = board[w].view /\ 1 \in DOMAIN answers[w]
    BY DEF Takes
  <1>3. \A v, base, next : Known(base) /\ Fits(w, v, base, next) => Fits(w, v, base, next)'
    BY FitsStays DEF RowMoves
  <1>4. Saves(w, a) => /\ n = 1 /\ 1 \in DOMAIN writes[w] /\ a.registry = Op(w).next /\ Op(w) = writes[w][1]
                       /\ Known(a.registry)
    BY <1>1, <1>2, SeenBefore DEF Saves, Op
  <1>5. ASSUME Saves(w, a), NEW v \in 1..MaxVisits, v = Op(w).view PROVE Op(w).kind = "write"
    BY <1>4, <1>5, OpsKnown DEF OpOk, Operation, Saves
  <1>6. PendingOk(w) /\ ChainOk(w) /\ LastOk(w) /\ SaveOk(w) BY DEF WindowOk
  <1> HIDE DEF a
  <1>7. ASSUME NEW i \in DOMAIN writes'[w], writes'[w][i].kind = "write", writes'[w][i].phase = "queued",
               writes'[w][i].guard = Unset, accepted'[w][writes'[w][i].view] # accepted[w][writes'[w][i].view]
        PROVE  Fits(w, writes[w][i].view, accepted[w][writes[w][i].view], writes[w][i].next)'
    <2>1. /\ i + n \in DOMAIN writes[w] /\ writes[w][i + n].kind = "write" /\ writes[w][i + n].guard = Unset
          /\ writes'[w][i].view = writes[w][i + n].view /\ writes'[w][i].next = writes[w][i + n].next
          /\ writes[w][i + n].view \in 1..MaxVisits /\ (n = 1 => i + n # 1)
      BY <1>1, <1>7, OpsKnown DEF SameOp
    <2>2. CASE Saves(w, a) /\ writes[w][i + n].view = Op(w).view
      <3>1. Fits(w, writes[w][i + n].view, Op(w).next, writes[w][i + n].next)
        BY <1>4, <1>5, <1>6, <2>1, <2>2, LaterFits
      <3>2. accepted'[w][writes'[w][i].view] = Op(w).next /\ Known(Op(w).next)
        BY <1>2, <1>4, <2>1, <2>2
      <3> QED BY <1>3, <2>1, <3>1, <3>2
    <2>3. CASE ~(Saves(w, a) /\ writes[w][i + n].view = Op(w).view)
      <3>1. a.reader = "reload" /\ writes[w][i + n].view = board[w].view BY <1>2, <1>7, <2>1, <2>3
      <3> QED BY <1>2, <2>1, <3>1 DEF Reloads, Owns
    <2> QED BY <2>2, <2>3
  <1>8. ASSUME Shown(w)', board'[w].draft # Unset,
               accepted'[w][board[w].view] # accepted[w][board[w].view]
        PROVE  Fits(w, board[w].view, accepted[w][board[w].view], board[w].draft.registry)'
    <2>1. /\ board[w].draft # Unset /\ board'[w].draft.registry = board[w].draft.registry
          /\ board'[w].view = board[w].view /\ Shown(w) /\ board[w].view \in 1..MaxVisits
      BY <1>2, <1>8, TakesKeeps DEF Shown, OrderInv, TypeOK, Board
    <2>2. ~(a.reader = "reload" /\ a.result = "ok")
      <3>1. a.reader = "reload" /\ a.result = "ok" => ~(a.done /\ Op(w).kind = "write")
        <4>1. SUFFICES ASSUME a.reader = "reload", a.done, Op(w).kind = "write" PROVE FALSE OBVIOUS
        <4>2. Op(w).reader = "reload" BY <1>2, <4>1 DEF OrderInv, DoneOk, a
        <4> QED BY <1>2, <4>1, <4>2 DEF OrderInv, ReloadOk, Op
      <3> QED BY <1>8, <3>1 DEF Takes, TakesDraft, a
    <2>3. Saves(w, a) /\ board[w].view = Op(w).view BY <1>2, <1>8, <2>1, <2>2
    <2>4. Op(w).kind = "write" /\ Op(w) = writes[w][1] /\ 1 \in DOMAIN writes[w]
      BY <1>4, <1>5, <2>1, <2>3
    <2>5. ~Mine(board[w], Op(w)) BY <1>8, <2>3, <2>4 DEF Takes, TakesDraft, a, Saves
    <2>6. PICK m \in DOMAIN writes[w] :
             Owns(w, m) /\ writes[w][m].by = board[w].draft.by /\ writes[w][m].next = board[w].draft.registry
      BY <1>6, <2>1, <2>3, <2>4 DEF LastOk, Owns
    <2>7. m # 1 BY <2>1, <2>3, <2>4, <2>5, <2>6 DEF Mine
    <2>8. Fits(w, board[w].view, Op(w).next, board[w].draft.registry)
      BY <1>6, <2>3, <2>4, <2>6, <2>7, LaterFits DEF Owns
    <2>9. accepted'[w][board'[w].view] = Op(w).next /\ Known(Op(w).next) BY <1>2, <1>4, <2>1, <2>3
    <2> QED BY <1>3, <2>1, <2>8, <2>9
  <1>9. ASSUME NEW i \in DOMAIN writes'[w]
        PROVE  writes[w][i + n].phase = writes'[w][i].phase /\ writes[w][i + n].seen = writes'[w][i].seen
    BY <1>1
  <1>10. Shown(w)' /\ board'[w].draft # Unset =>
            board[w].draft # Unset /\ board'[w].draft.registry = board[w].draft.registry
    BY TakesKeeps
  <1>11. RowMoves BY DEF RowMoves
  <1> QED BY <1>1, <1>2, <1>6, <1>7, <1>8, <1>9, <1>10, <1>11, SaveDrop

LEMMA TakenLast ==
    ASSUME RegistryConstants, OrderInv, QueueTypes', NEW w \in Windows, Takes(w), WindowOk(w)
    PROVE  LastOk(w)'
  <1> DEFINE a == answers[w][1]
  <1>1. PICK n \in {0, 1} :
           /\ n = (IF a.done THEN 1 ELSE 0)
           /\ Drops(writes[w], writes'[w], n)
           /\ \A i \in DOMAIN writes'[w] : /\ i + n \in DOMAIN writes[w] /\ (n = 1 => i + n # 1)
                                           /\ SameOp(writes[w][i + n], writes'[w][i])
    BY TakenOps
  <1>2. board'[w].view = board[w].view /\ LastOk(w) /\ PendingOk(w) BY DEF Takes, WindowOk
  <1>3. \A i \in DOMAIN writes'[w] : Owns(w, i)' => Owns(w, i + n) BY <1>1, <1>2 DEF Owns, SameOp
  <1>4. CASE board'[w].draft = board[w].draft BY <1>1, <1>2, <1>4, LastDrop
  <1>5. CASE a.done /\ Op(w).kind = "write" /\ Mine(board[w], Op(w))
    <2>1. n = 1 /\ 1 \in DOMAIN writes[w] BY <1>1, <1>5 DEF Takes
    <2>2. \A i \in DOMAIN writes'[w] : ~Owns(w, i)' BY <1>1, <1>2, <1>3, <1>5, <2>1, MineIsLast
    <2> QED BY <2>2, LastNone
  <1>6. CASE a.reader = "reload"
    <2>1. \A i \in DOMAIN writes'[w] : ~Owns(w, i)' BY <1>1, <1>3, <1>6 DEF Takes, Reloads
    <2> QED BY <2>1, LastNone
  <1> QED BY <1>4, <1>5, <1>6 DEF Takes, TakesDraft

LEMMA TakesEdits ==
    ASSUME RegistryConstants, OrderInv, OrderInv', EditsInv, NEW w \in Windows, Takes(w),
           row' = row, edits' = edits
    PROVE  EditsInv'
  <1>1. QueueTypes' /\ TypeOK' /\ WindowOk(w) /\ BlankOk
    BY OrderedTypes DEF OrderInv, TypeOK, QueueTypes, EditsInv
  <1>2. KeepsOut({}) BY <1>1, TakenOut
  <1>3. PICK n \in {0, 1} :
           /\ Drops(writes[w], writes'[w], n)
           /\ \A i \in DOMAIN writes'[w] :
                 /\ i + n \in DOMAIN writes[w] /\ SameOp(writes[w][i + n], writes'[w][i])
                 /\ writes'[w][i].phase = writes[w][i + n].phase
    BY <1>1, TakenOps
  <1>4. PendingOk(w)'
    <2>1. ASSUME NEW i \in DOMAIN writes'[w], Pends(writes'[w][i])
          PROVE  Pends(writes[w][i + n]) /\ writes[w][i + n].by \notin Content(row')
      <3>1. Pends(writes[w][i + n]) /\ i + n \in DOMAIN writes[w] BY <1>3, <2>1 DEF Pends, SameOp
      <3> QED BY <1>1, <3>1 DEF WindowOk, PendingOk, Private, Unseen
    <2> QED BY <1>1, <1>2, <1>3, <2>1, PendingDrop DEF WindowOk
  <1>5. ChainOk(w)' BY <1>1, <1>3, ChainDrop DEF WindowOk, Takes
  <1>6. WindowOk(w)' BY <1>1, <1>2, <1>4, <1>5, TimeTakes, TakenSave, TakenLast DEF WindowOk
  <1>7. ASSUME Content(row) = {}
        PROVE  /\ board'[w].registry = {} /\ \A v \in 1..MaxVisits : accepted'[w][v] = {}
               /\ \A i \in DOMAIN answers'[w] : answers'[w][i].result = "ok" => answers'[w][i].registry = {}
    <2>1. board'[w].registry = {} /\ \A v \in 1..MaxVisits : accepted'[w][v] = {}
      BY <1>1, <1>7 DEF BlankOk, Takes, Saves
    <2> QED BY <1>1, <1>7, <2>1, PassedBlank DEF Takes
  <1>8. edits' >= edits BY DEF OrderInv, TypeOK
  <1> QED BY <1>1, <1>2, <1>6, <1>7, <1>8, QuietStep DEF Takes

LEMMA NonePending ==
    ASSUME OrderInv, NEW w \in Windows, \A i \in DOMAIN writes[w] : ~Owns(w, i)
    PROVE  Pending(w) = {}
  <1>1. ASSUME NEW j \in DOMAIN writes[w], Shown(w), writes[w][j].view = board[w].view PROVE FALSE
    <2>1. writes[w][j].kind # "write" BY <1>1 DEF Owns
    <2>2. writes[w][j].kind \in {"write", "import", "promotion"} /\ OpOk(writes[w][j], j, board[w].visits)
      BY OpsKnown DEF Operation
    <2>3. writes[w][j].view = 0 BY <2>1, <2>2 DEF OpOk
    <2> QED BY <1>1, <2>3 DEF Shown
  <1>2. {j \in DOMAIN writes[w] : Shown(w) /\ writes[w][j].view = board[w].view} = {} BY <1>1
  <1> QED BY <1>2 DEF Pending

\* What the board shows and the row holds, or a write will save, stays on the board.
LEMMA TakesKeepsShown ==
    ASSUME RegistryConstants, OrderInv, OrderInv', EditsInv, NEW w \in Windows, Takes(w), row' = row
    PROVE  Visible(w) \cap Lasting(w) \cap Lasting(w)' \subseteq Visible(w)'
  <1> DEFINE a == answers[w][1]
  <1>1. WindowOk(w) /\ 1 \in DOMAIN answers[w] /\ board'[w].view = board[w].view
    BY DEF EditsInv, Takes
  <1>2. CASE board[w].draft # Unset /\ board'[w].draft # Unset BY <1>2, TakesKeeps DEF Visible
  <1>3. CASE board[w].draft = Unset
    <2>1. board'[w].draft = Unset BY <1>3, TakesKeeps
    <2>2. Visible(w) = board[w].registry /\ Visible(w)' = board'[w].registry
      BY <1>3, <2>1 DEF Visible
    <2>3. Pending(w) = {}
      <3>1. ASSUME NEW i \in DOMAIN writes[w], Owns(w, i) PROVE FALSE
        <4>1. Shown(w) BY <3>1, OpsKnown DEF Owns, Shown
        <4> QED BY <1>1, <1>3, <3>1, <4>1 DEF WindowOk, LastOk
      <3> QED BY <3>1, NonePending
    <2>4. board[w].registry \cap Content(row) \subseteq board'[w].registry
      BY <1>1 DEF Takes, WindowOk, TimeOk, Before
    <2> QED BY <2>2, <2>3, <2>4 DEF Lasting
  <1>4. CASE board[w].draft # Unset /\ board'[w].draft = Unset
    <2>1. Visible(w) = board[w].draft.registry /\ Visible(w)' = board'[w].registry
      BY <1>4 DEF Visible
    <2>2. CASE a.done /\ Op(w).kind = "write" /\ Mine(board[w], Op(w)) /\ a.result = "ok"
      <3>1. 1 \in DOMAIN writes[w] /\ Saves(w, a) /\ a.registry = Op(w).next
        BY <2>2 DEF Takes, Saves
      <3>2. Shown(w) /\ board[w].draft.registry = Op(w).next
        BY <1>1, <2>2, <3>1, MineIsLast DEF WindowOk
      <3> QED BY <2>1, <2>2, <3>1, <3>2 DEF Takes
    <2>3. CASE a.reader = "reload" /\ ~Saves(w, a) /\ a.result = "ok"
      <3>1. Reloads(w) /\ board'[w].registry = a.registry
        BY <2>3 DEF Takes, RegistryConstants, Readers
      <3>2. board[w].draft.registry \cap Content(row) \subseteq a.registry
        BY <1>1, <1>4, <2>3 DEF WindowOk, TimeOk
      <3>3. Pending(w) = {} BY <3>1, NonePending DEF Reloads
      <3> QED BY <2>1, <3>1, <3>2, <3>3 DEF Lasting
    <2> QED BY <1>4, <2>2, <2>3 DEF Takes, TakesDraft
  <1> QED BY <1>2, <1>3, <1>4

-----------------------------------------------------------------------------
(* Boards: operations that join.                                             *)

LEMMA PendingAdd ==
    ASSUME OrderInv, QueueTypes', NEW w \in Windows, NEW o, Adds(writes[w], writes'[w], o), PendingOk(w),
           NEW E, KeepsOut(E), row' = row, \A e \in E : Strange(e, w),
           Pends(o) => /\ Private(o.by, w, o.view)'
                       /\ \A k \in DOMAIN writes[w] : writes[w][k].kind # "promotion" =>
                             o.by \notin writes[w][k].next
    PROVE  PendingOk(w)'
  <1>1. \A x, v : Private(x, w, v) /\ x \notin Content(row') /\ x \notin E => Private(x, w, v)'
    BY PrivateStays
  <1>2. \A i \in DOMAIN writes'[w] :
           \/ i \in DOMAIN writes[w] /\ writes'[w][i] = writes[w][i] /\ i < Len(writes[w]) + 1
           \/ i = Len(writes[w]) + 1 /\ writes'[w][i] = o
    BY DEF Adds
  <1>3. writes[w] \in Seq(Operation) /\ Len(writes[w]) \in Nat /\ \A i \in DOMAIN writes[w] : i \in Nat
    BY SeqDomain DEF OrderInv, TypeOK
  <1>4. ASSUME NEW i \in DOMAIN writes'[w], Pends(writes'[w][i])
        PROVE  Private(writes[w][i].by, w, writes[w][i].view)'
    <2>1. CASE i \in DOMAIN writes[w] /\ writes'[w][i] = writes[w][i]
      <3>1. Private(writes[w][i].by, w, writes[w][i].view) /\ writes[w][i].by \notin E
        BY <1>4, <2>1, OpsKnown DEF PendingOk, Pends
      <3>2. writes[w][i].by \notin Content(row') BY <3>1 DEF Private, Unseen
      <3>3. writes'[w][i].by = writes[w][i].by /\ writes'[w][i].view = writes[w][i].view BY <2>1
      <3> QED BY <1>1, <3>1, <3>2, <3>3
    <2>2. CASE writes'[w][i] = o
      <3>1. writes'[w][i].by = o.by /\ writes'[w][i].view = o.view /\ Pends(o) BY <1>4, <2>2
      <3> QED BY <3>1
    <2> QED BY <1>2, <2>1, <2>2
  <1>5. ASSUME NEW i \in DOMAIN writes'[w], Pends(writes'[w][i]), NEW k \in DOMAIN writes'[w], k < i,
               writes'[w][k].kind # "promotion"
        PROVE  writes'[w][i].by \notin writes'[w][k].next
    <2>1. CASE i \in DOMAIN writes[w] /\ writes'[w][i] = writes[w][i] /\ i < Len(writes[w]) + 1
      <3>1. k \in DOMAIN writes[w] /\ writes'[w][k] = writes[w][k]
        <4>1. k # Len(writes[w]) + 1 BY <1>3, <1>5, <2>1
        <4> QED BY <1>2, <4>1
      <3> QED BY <1>5, <2>1, <3>1 DEF PendingOk
    <2>2. CASE i = Len(writes[w]) + 1 /\ writes'[w][i] = o
      <3>1. k \in DOMAIN writes[w] /\ writes'[w][k] = writes[w][k]
        <4>1. k # Len(writes[w]) + 1 BY <1>3, <1>5, <2>2
        <4> QED BY <1>2, <4>1
      <3> QED BY <1>5, <2>2, <3>1
    <2> QED BY <1>2, <2>1, <2>2
  <1> QED BY <1>4, <1>5 DEF PendingOk

LEMMA ChainAdd ==
    ASSUME OrderInv, QueueTypes', NEW w \in Windows, NEW o, Adds(writes[w], writes'[w], o), ChainOk(w),
           board'[w].view = board[w].view,
           o.kind = "write" /\ (o.guard = Unset \/ o.view = board[w].view) =>
              \A k \in DOMAIN writes[w] : writes[w][k].kind = "write" /\ writes[w][k].view = o.view =>
                 /\ writes[w][k].next \subseteq o.next
                 /\ \A x \in o.next \ writes[w][k].next :
                       \/ x = o.by
                       \/ \E j \in DOMAIN writes[w] : k < j /\ writes[w][j].kind = "write"
                                                      /\ writes[w][j].view = o.view /\ writes[w][j].by = x
    PROVE  ChainOk(w)'
  <1> SUFFICES ASSUME NEW i \in DOMAIN writes'[w], NEW k \in DOMAIN writes'[w],
                      k < i, writes'[w][k].kind = "write", writes'[w][i].kind = "write",
                      writes'[w][k].view = writes'[w][i].view,
                      writes'[w][i].guard = Unset \/ writes'[w][i].view = board'[w].view
               PROVE  Builds(writes'[w], k, i)
    BY DEF ChainOk
  <1> DEFINE n == Len(writes[w]) + 1
  <1>1. \A j \in DOMAIN writes'[w] :
           \/ j \in DOMAIN writes[w] /\ writes'[w][j] = writes[w][j] /\ j < n
           \/ j = n /\ writes'[w][j] = o
    BY DEF Adds
  <1>2. n \in Nat /\ n \in DOMAIN writes'[w] /\ writes'[w][n] = o
        /\ \A j \in DOMAIN writes[w] : j \in Nat /\ j < n /\ j \in DOMAIN writes'[w] /\ writes'[w][j] = writes[w][j]
    BY SeqDomain DEF OrderInv, TypeOK, Adds
  <1> HIDE DEF n
  <1>3. k \in DOMAIN writes[w] /\ writes'[w][k] = writes[w][k] BY <1>1, <1>2
  <1>4. CASE i \in DOMAIN writes[w] /\ writes'[w][i] = writes[w][i]
    <2>1. Builds(writes[w], k, i) BY <1>3, <1>4 DEF ChainOk
    <2> QED BY <1>2, <1>3, <1>4, <2>1 DEF Builds
  <1>5. CASE i = n /\ writes'[w][i] = o
    <2>1. /\ writes[w][k].next \subseteq o.next
          /\ \A x \in o.next \ writes[w][k].next :
                \/ x = o.by
                \/ \E j \in DOMAIN writes[w] : k < j /\ writes[w][j].kind = "write"
                                               /\ writes[w][j].view = o.view /\ writes[w][j].by = x
      BY <1>3, <1>5
    <2>2. ASSUME NEW x \in o.next \ writes[w][k].next
          PROVE  \E j \in DOMAIN writes'[w] : k < j /\ j <= n /\ writes'[w][j].kind = "write"
                                              /\ writes'[w][j].view = o.view /\ writes'[w][j].by = x
      <3>1. CASE x = o.by BY <1>2, <1>5, <3>1
      <3>2. CASE \E j \in DOMAIN writes[w] : k < j /\ writes[w][j].kind = "write"
                                             /\ writes[w][j].view = o.view /\ writes[w][j].by = x
        BY <1>2, <3>2
      <3> QED BY <2>1, <3>1, <3>2
    <2> QED BY <1>3, <1>5, <2>1, <2>2 DEF Builds
  <1> QED BY <1>1, <1>4, <1>5

LEMMA SaveAdd ==
    ASSUME OrderInv, QueueTypes', NEW w \in Windows, NEW o, Adds(writes[w], writes'[w], o), SaveOk(w),
           row' = row, NEW E, KeepsOut(E), \A e \in E : Strange(e, w),
           \A i \in DOMAIN writes[w] : writes[w][i].kind = "write" =>
              accepted'[w][writes[w][i].view] = accepted[w][writes[w][i].view],
           o.phase = "queued",
           o.kind = "write" /\ o.guard = Unset => Fits(w, o.view, accepted[w][o.view], o.next)',
           Shown(w)' /\ board'[w].draft # Unset =>
              Fits(w, board[w].view, accepted[w][board[w].view], board[w].draft.registry)'
    PROVE  SaveOk(w)'
  <1>1. \A v, base, next : Known(base) /\ Fits(w, v, base, next) /\ (\A e \in E : e \notin next) =>
           Fits(w, v, base, next)'
    BY FitsStays DEF RowMoves
  <1>2. /\ \A v \in 1..MaxVisits : Known(accepted[w][v])
        /\ \A i \in DOMAIN writes[w] : Known(Content(writes[w][i].seen))
    BY SeenBefore
  <1>3. ASSUME NEW i \in DOMAIN writes'[w], writes'[w][i].kind = "write"
        PROVE  /\ writes'[w][i].phase = "queued" /\ writes'[w][i].guard = Unset =>
                     Fits(w, writes[w][i].view, accepted[w][writes[w][i].view], writes[w][i].next)'
               /\ writes'[w][i].phase = "checked" =>
                     Fits(w, writes[w][i].view, Content(writes[w][i].seen), writes[w][i].next)'
    <2>1. CASE writes'[w][i] = o
      <3>1. writes'[w][i].view = o.view /\ writes'[w][i].next = o.next BY <2>1
      <3> QED BY <1>3, <2>1, <3>1
    <2>2. CASE i \in DOMAIN writes[w] /\ writes'[w][i] = writes[w][i]
      <3>1. writes[w][i].view \in 1..MaxVisits /\ \A e \in E : e \notin writes[w][i].next
        BY <1>3, <2>2, OpsKnown
      <3>2. /\ writes'[w][i].view = writes[w][i].view /\ writes'[w][i].next = writes[w][i].next
            /\ accepted'[w][writes'[w][i].view] = accepted[w][writes[w][i].view]
            /\ Content(writes'[w][i].seen) = Content(writes[w][i].seen)
        BY <1>3, <2>2
      <3>3. ASSUME writes'[w][i].phase = "queued", writes'[w][i].guard = Unset
            PROVE  Fits(w, writes[w][i].view, accepted[w][writes[w][i].view], writes[w][i].next)'
        <4>1. Fits(w, writes[w][i].view, accepted[w][writes[w][i].view], writes[w][i].next)
          BY <1>3, <2>2, <3>3 DEF SaveOk
        <4>2. Known(accepted[w][writes[w][i].view]) BY <1>2, <3>1
        <4> QED BY <1>1, <3>1, <3>2, <4>1, <4>2
      <3>4. ASSUME writes'[w][i].phase = "checked"
            PROVE  Fits(w, writes[w][i].view, Content(writes[w][i].seen), writes[w][i].next)'
        <4>1. Fits(w, writes[w][i].view, Content(writes[w][i].seen), writes[w][i].next)
          BY <1>3, <2>2, <3>4 DEF SaveOk
        <4>2. Known(Content(writes[w][i].seen)) BY <1>2, <2>2
        <4> QED BY <1>1, <3>1, <3>2, <4>1, <4>2
      <3> QED BY <3>3, <3>4
    <2> QED BY <2>1, <2>2 DEF Adds
  <1> QED BY <1>3 DEF SaveOk

LEMMA NewPrivate ==
    ASSUME NEW w \in Windows, NEW e, Clear(e), NEW E, KeepsOut(E), OneWindow(w), row' = row, NEW v,
           Aside(e, w, v)'
    PROVE  Private(e, w, v)'
  <1>1. Unseen(e)' BY DEF KeepsOut, Clear, Unseen
  <1>2. \A u \in Windows \ {w} : Strange(e, u)' BY DEF Clear, OneWindow, Strange
  <1> QED BY <1>1, <1>2 DEF Private

\* An edit that nothing holds yet: a new one, or that of the task that ends.
NewEdit(w, e) ==
    /\ Clear(e) /\ e \in 1..MaxInputs /\ task'[w] \in {Unset, task[w]} /\ edits' >= edits
    /\ \/ e = edits' /\ e > edits
       \/ task[w] # Unset /\ e = task[w].edit /\ task'[w] = Unset

LEMMA JoinsOut ==
    ASSUME RegistryConstants, OrderInv, NEW w \in Windows, NEW o, AddsOp(w, o), o.seen = Unset, NEW E,
           board'[w].view = board[w].view, board'[w].registry = board[w].registry, row' = row,
           \A v \in 1..MaxVisits : accepted'[w][v] \in {accepted[w][v], board[w].registry},
           task'[w] \in {Unset, task[w]},
           \A x : Unseen(x) /\ x \notin E =>
              /\ Strange(x, w) /\ o.kind # "promotion" => x \notin o.next
              /\ \/ board'[w].draft = board[w].draft
                 \/ /\ board'[w].draft # Unset
                    /\ board[w].draft = Unset \/ x \notin board[w].draft.registry =>
                          x \notin board'[w].draft.registry
    PROVE  KeepsOut(E)
  <1>1. OneWindow(w) /\ Adds(writes[w], writes'[w], o) /\ answers' = answers BY DEF AddsOp
  <1>2. \A i \in DOMAIN writes'[w] :
           (i \in DOMAIN writes[w] /\ writes'[w][i] = writes[w][i]) \/ writes'[w][i] = o
    BY <1>1 DEF Adds
  <1>3. \A i \in DOMAIN writes'[w] : FromSeen(Content(writes'[w][i].seen)) BY <1>2, SeenBefore
  <1>4. Learns(w) BY <1>1, <1>3, SeenBefore DEF Learns
  <1>5. ASSUME NEW x, Unseen(x), x \notin E
        PROVE  (Strange(x, w) => Strange(x, w)') /\ \A v : Aside(x, w, v) => Aside(x, w, v)'
    BY <1>2, <1>5 DEF Strange, Aside
  <1> QED BY <1>1, <1>4, <1>5, KeepsFrom

-----------------------------------------------------------------------------
(* Boards: edits of the view that is shown, and of others.                   *)

\* An edit e of what the board shows joins the queue.
Extends(w, e, guard) ==
    /\ Admits(w) /\ Joins(w, e, board[w].view, Visible(w) \cup {e}, guard)
    /\ Drafted(w, e, Visible(w) \cup {e})
    /\ \A v \in 1..MaxVisits :
          \/ accepted'[w][v] = accepted[w][v]
          \/ board[w].draft = Unset /\ v = board[w].view /\ accepted'[w][v] = board[w].registry

LEMMA ExtendsFits ==
    ASSUME RegistryConstants, OrderInv, NEW w \in Windows, WindowOk(w), NEW e, Clear(e), NEW guard,
           Extends(w, e, guard), KeepsOut({e}), OneWindow(w), row' = row, Shown(w)
    PROVE  Fits(w, board[w].view, accepted[w][board[w].view], board[w].draft.registry)'
  <1>1. PICK v, base, next : v = board[w].view /\ base = accepted'[w][v] /\ next = Visible(w) \cup {e}
    OBVIOUS
  <1>2. /\ board'[w].view = v /\ accepted'[w][board'[w].view] = base /\ board'[w].draft.registry = next
    BY <1>1 DEF Extends, Drafted
  <1>3. v \in 1..MaxVisits BY <1>1 DEF OrderInv, TypeOK, Board, Shown
  <1>4. Private(e, w, v)'
    <2>1. Aside(e, w, v)' BY <1>2 DEF Aside
    <2> QED BY <2>1, NewPrivate
  <1>5. ASSUME Content(row) = base PROVE base \subseteq next /\ \A x \in next \ base : Private(x, w, v)'
    <2>1. CASE board[w].draft = Unset
      <3>1. Visible(w) = board[w].registry BY <2>1 DEF Visible
      <3>2. base = accepted[w][v] => board[w].registry = base
        BY <1>1, <1>5 DEF WindowOk, TimeOk, Before
      <3>3. board[w].registry = base BY <1>1, <1>3, <3>2 DEF Extends
      <3> QED BY <1>1, <1>4, <3>1, <3>3
    <2>2. CASE board[w].draft # Unset
      <3>1. Visible(w) = board[w].draft.registry /\ base = accepted[w][v]
        BY <1>1, <1>3, <2>2 DEF Visible, Extends
      <3>2. Fits(w, v, base, Visible(w)) /\ e \notin Visible(w)
        BY <1>1, <2>2, <3>1 DEF WindowOk, SaveOk, Clear, Strange
      <3>3. base \subseteq Visible(w) /\ \A x \in Visible(w) \ base : Private(x, w, v)
        BY <1>5, <3>2 DEF Fits
      <3>4. \A x \in Visible(w) \ base : Private(x, w, v)' BY <1>5, <3>2, <3>3, PrivateStays
      <3> QED BY <1>1, <1>4, <3>3, <3>4
    <2> QED BY <2>1, <2>2
  <1>6. Fits(w, v, base, next)' BY <1>5 DEF Fits, Content
  <1> QED BY <1>2, <1>6

LEMMA ExtendsEdits ==
    ASSUME RegistryConstants, OrderInv, OrderInv', EditsInv, NEW w \in Windows, NEW e, NewEdit(w, e),
           NEW guard, Extends(w, e, guard), row' = row
    PROVE  EditsInv'
  <1> DEFINE next == Visible(w) \cup {e}
             view == board[w].view
  <1>1. QueueTypes' /\ TypeOK' /\ WindowOk(w) /\ BlankOk /\ Clear(e)
    BY OrderedTypes DEF OrderInv, TypeOK, QueueTypes, EditsInv, NewEdit
  <1>2. PICK o : /\ AddsOp(w, o) /\ o.kind = "write" /\ o.by = e /\ o.view = view /\ o.next = next
                 /\ o.guard = guard /\ o.seen = Unset /\ o.phase = "queued"
    BY DEF Extends, Joins
  <1>3. OneWindow(w) /\ Adds(writes[w], writes'[w], o) /\ answers' = answers BY <1>2 DEF AddsOp
  <1>4. /\ board'[w].view = view /\ board'[w].registry = board[w].registry
        /\ board'[w].draft # Unset /\ board'[w].draft.by = e /\ board'[w].draft.registry = next
        /\ Shown(w)
        /\ \A v \in 1..MaxVisits :
              \/ accepted'[w][v] = accepted[w][v]
              \/ board[w].draft = Unset /\ v = view /\ accepted'[w][v] = board[w].registry
    BY DEF Extends, Drafted, Admits
  <1>5. view \in 1..MaxVisits BY <1>4 DEF OrderInv, TypeOK, Board, Shown
  <1>6. KeepsOut({e})
    <2>1. ASSUME NEW x, Unseen(x), x \notin {e}
          PROVE  /\ Strange(x, w) /\ o.kind # "promotion" => x \notin o.next
                 /\ board[w].draft = Unset \/ x \notin board[w].draft.registry =>
                       x \notin board'[w].draft.registry
      BY <1>2, <1>4, <2>1 DEF Visible, Unseen, Strange
    <2> QED BY <1>2, <1>4, <2>1, JoinsOut DEF NewEdit
  <1>7. \A i \in DOMAIN writes[w] : Owns(w, i) => board[w].draft # Unset
    BY <1>1, <1>4 DEF WindowOk, LastOk
  <1>8. Strange(e, w) BY <1>1 DEF Clear
  <1> HIDE DEF next, view
  <1>9. PendingOk(w)'
    <2>1. Aside(e, w, o.view)' BY <1>2, <1>4 DEF Aside
    <2>2. Private(o.by, w, o.view)' BY <1>1, <1>2, <1>3, <1>6, <2>1, NewPrivate
    <2>3. \A k \in DOMAIN writes[w] : writes[w][k].kind # "promotion" => o.by \notin writes[w][k].next
      BY <1>2, <1>8 DEF Strange
    <2> QED BY <1>1, <1>3, <1>6, <1>8, <2>2, <2>3, PendingAdd DEF WindowOk
  <1>10. Fits(w, board[w].view, accepted[w][board[w].view], board[w].draft.registry)'
    BY <1>1, <1>3, <1>4, <1>6, ExtendsFits
  <1>11. SaveOk(w)'
    <2>1. ASSUME NEW i \in DOMAIN writes[w], writes[w][i].kind = "write"
          PROVE  accepted'[w][writes[w][i].view] = accepted[w][writes[w][i].view]
      BY <1>4, <1>7, <2>1, OpsKnown DEF Owns, view
    <2>2. Fits(w, o.view, accepted[w][o.view], o.next)'
      <3>1. o.view = board'[w].view /\ o.next = board'[w].draft.registry BY <1>2, <1>4
      <3> QED BY <1>10, <3>1
    <2> QED BY <1>1, <1>2, <1>3, <1>6, <1>8, <1>10, <2>1, <2>2, SaveAdd DEF WindowOk
  <1>12. TimeOk(w)'
    <2>1. NoReloads(w) BY AdmitsNoReload DEF Extends
    <2>2. KnowsStill(w) BY <1>4, <1>5, <2>1 DEF KnowsStill, DraftKept, view
    <2>3. Passes(answers[w], answers'[w], 0) BY <1>3, StayedAnswers DEF OrderInv, TypeOK
    <2> QED BY <1>1, <2>2, <2>3, TimePass DEF WindowOk, RowMoves
  <1>13. ChainOk(w)'
    <2>1. ASSUME NEW k \in DOMAIN writes[w], writes[w][k].kind = "write", writes[w][k].view = view
          PROVE  /\ writes[w][k].next \subseteq next
                 /\ \A x \in next \ writes[w][k].next :
                       \/ x = e
                       \/ \E j \in DOMAIN writes[w] : k < j /\ writes[w][j].kind = "write"
                                                      /\ writes[w][j].view = view /\ writes[w][j].by = x
      <3>1. Owns(w, k) /\ board[w].draft # Unset BY <1>7, <2>1 DEF Owns, view
      <3>2. next = board[w].draft.registry \cup {e} BY <3>1 DEF next, Visible
      <3>3. PICK m \in DOMAIN writes[w] :
               k <= m /\ Owns(w, m) /\ writes[w][m].next = board[w].draft.registry
        BY <1>1, <1>4, <3>1 DEF WindowOk, LastOk
      <3>4. CASE m = k BY <3>2, <3>3, <3>4
      <3>5. CASE m # k
        <4>1. k < m BY <3>3, <3>5, OpsKnown
        <4>2. Builds(writes[w], k, m) BY <1>1, <2>1, <3>3, <4>1 DEF WindowOk, ChainOk, Owns, view
        <4> QED BY <2>1, <3>2, <3>3, <4>2 DEF Builds, Owns, view
      <3> QED BY <3>4, <3>5
    <2>2. board'[w].view = board[w].view BY <1>4 DEF view
    <2> QED BY <1>1, <1>2, <1>3, <2>1, <2>2, ChainAdd DEF WindowOk
  <1>14. LastOk(w)'
    <2>0. PICK n : n = Len(writes[w]) + 1 OBVIOUS
    <2>1. /\ n \in DOMAIN writes'[w] /\ writes'[w][n] = o /\ n \in Nat
          /\ \A i \in DOMAIN writes'[w] : i \in Nat /\ i <= n
      <3>1. Len(writes[w]) \in Nat /\ \A i \in DOMAIN writes'[w] : i \in Nat
        BY <1>1, SeqDomain DEF OrderInv, TypeOK, QueueTypes
      <3> QED BY <1>3, <2>0, <3>1 DEF Adds
    <2>2. Owns(w, n)' /\ writes'[w][n].by = board'[w].draft.by
          /\ writes'[w][n].next = board'[w].draft.registry
      BY <1>2, <1>4, <2>1 DEF Owns
    <2> QED BY <1>4, <2>1, <2>2 DEF LastOk
  <1>15. WindowOk(w)' BY <1>9, <1>11, <1>12, <1>13, <1>14 DEF WindowOk
  <1>16. ASSUME Content(row) = {}
         PROVE  /\ board'[w].registry = {} /\ \A v \in 1..MaxVisits : accepted'[w][v] = {}
                /\ \A i \in DOMAIN answers'[w] : answers'[w][i].result = "ok" => answers'[w][i].registry = {}
    BY <1>1, <1>3, <1>4, <1>16 DEF BlankOk
  <1> QED BY <1>1, <1>3, <1>6, <1>15, <1>16, EditsStep DEF NewEdit, RowMoves, NewsTo, Clear, Unseen

\* An operation joins that is not an edit of what the board shows.
LEMMA AsideEdits ==
    ASSUME RegistryConstants, OrderInv, OrderInv', EditsInv, NEW w \in Windows, NEW o, AddsOp(w, o),
           o.seen = Unset, o.phase = "queued", UNCHANGED <<row, board, accepted>>, NEW E,
           o.kind = "write" => o.guard # Unset /\ o.view # board[w].view,
           \/ o.kind = "promotion" /\ E = {} /\ UNCHANGED <<task, edits>>
           \/ /\ E = {o.by} /\ NewEdit(w, o.by)
              /\ \A x : Unseen(x) /\ Strange(x, w) /\ x # o.by => x \notin o.next
    PROVE  EditsInv'
  <1>1. QueueTypes' /\ TypeOK' /\ WindowOk(w) /\ BlankOk
    BY OrderedTypes DEF OrderInv, TypeOK, QueueTypes, EditsInv
  <1>2. OneWindow(w) /\ Adds(writes[w], writes'[w], o) /\ answers' = answers BY DEF AddsOp
  <1>3. \A e \in E : Clear(e) /\ Strange(e, w) BY DEF NewEdit, Clear
  <1>4. task'[w] \in {Unset, task[w]} /\ edits' >= edits BY DEF NewEdit, OrderInv, TypeOK
  <1>5. KeepsOut(E)
    <2>1. \A x : Unseen(x) /\ x \notin E /\ Strange(x, w) /\ o.kind # "promotion" => x \notin o.next
      OBVIOUS
    <2> QED BY <1>4, <2>1, JoinsOut
  <1>6. PendingOk(w)'
    <2>1. ASSUME Pends(o)
          PROVE  /\ Private(o.by, w, o.view)'
                 /\ \A k \in DOMAIN writes[w] : writes[w][k].kind # "promotion" => o.by \notin writes[w][k].next
      <3>1. o.by \in E /\ Clear(o.by) /\ Strange(o.by, w) BY <1>3, <2>1 DEF Pends
      <3>2. Aside(o.by, w, o.view)' BY <3>1 DEF Aside, Strange
      <3>3. Private(o.by, w, o.view)' BY <1>2, <1>5, <3>1, <3>2, NewPrivate
      <3> QED BY <3>1, <3>3 DEF Strange
    <2> QED BY <1>1, <1>2, <1>3, <1>5, <2>1, PendingAdd DEF WindowOk
  <1>7. SaveOk(w)'
    <2>1. ASSUME Shown(w)', board'[w].draft # Unset
          PROVE  Fits(w, board[w].view, accepted[w][board[w].view], board[w].draft.registry)'
      <3>1. Shown(w) /\ board[w].draft # Unset /\ board[w].view \in 1..MaxVisits
        BY <2>1 DEF Shown, OrderInv, TypeOK, Board
      <3>2. /\ Fits(w, board[w].view, accepted[w][board[w].view], board[w].draft.registry)
            /\ Known(accepted[w][board[w].view]) /\ \A e \in E : e \notin board[w].draft.registry
        BY <1>1, <1>3, <3>1, SeenBefore DEF WindowOk, SaveOk, Strange
      <3>3. \A v, base, next : Known(base) /\ Fits(w, v, base, next) /\ (\A e \in E : e \notin next) =>
               Fits(w, v, base, next)'
        BY <1>5, FitsStays DEF RowMoves
      <3> QED BY <3>2, <3>3
    <2> QED BY <1>1, <1>2, <1>3, <1>5, <2>1, SaveAdd DEF WindowOk
  <1>8. TimeOk(w)'
    <2>1. KnowsStill(w) BY BoardStays DEF NewsBeside
    <2>2. Passes(answers[w], answers'[w], 0) BY <1>2, StayedAnswers DEF OrderInv, TypeOK
    <2> QED BY <1>1, <2>1, <2>2, TimePass DEF WindowOk, RowMoves
  <1>9. ChainOk(w)' BY <1>1, <1>2, ChainAdd DEF WindowOk
  <1>10. LastOk(w)'
    <2> SUFFICES ASSUME NEW i \in DOMAIN writes'[w], Shown(w)', Owns(w, i)'
                 PROVE  /\ board'[w].draft # Unset
                        /\ \E m \in DOMAIN writes'[w] :
                              /\ i <= m /\ Owns(w, m)' /\ writes'[w][m].by = board'[w].draft.by
                              /\ writes'[w][m].next = board'[w].draft.registry
      BY DEF LastOk
    <2>1. i \in DOMAIN writes[w] /\ Owns(w, i) /\ Shown(w) BY <1>2 DEF Adds, Owns, Shown
    <2>2. board[w].draft # Unset BY <1>1, <2>1 DEF WindowOk, LastOk
    <2>3. PICK m \in DOMAIN writes[w] :
             /\ i <= m /\ Owns(w, m) /\ writes[w][m].by = board[w].draft.by
             /\ writes[w][m].next = board[w].draft.registry
      BY <1>1, <2>1 DEF WindowOk, LastOk
    <2>4. m \in DOMAIN writes'[w] /\ writes'[w][m] = writes[w][m] /\ Owns(w, m)'
      BY <1>2, <2>3 DEF Adds, Owns
    <2> QED BY <2>2, <2>3, <2>4
  <1>11. WindowOk(w)' BY <1>6, <1>7, <1>8, <1>9, <1>10 DEF WindowOk
  <1>12. \A e \in E : /\ Clear(e) /\ e \in 1..MaxInputs
                      /\ \/ e = edits' /\ e > edits
                         \/ task[w] # Unset /\ e = task[w].edit /\ task'[w] = Unset
    BY DEF NewEdit
  <1>13. RowMoves /\ (\A u \in Windows \ {w} : NewsTo(u)) /\ \A x \in 1..MaxInputs : Clear(x) => x \notin Content(row')
    BY DEF RowMoves, NewsTo, Clear, Unseen
  <1>14. ASSUME Content(row) = {}
         PROVE  /\ board'[w].registry = {} /\ \A v \in 1..MaxVisits : accepted'[w][v] = {}
                /\ \A i \in DOMAIN answers'[w] : answers'[w][i].result = "ok" => answers'[w][i].registry = {}
    BY <1>1, <1>2, <1>14 DEF BlankOk
  <1> QED BY <1>1, <1>2, <1>4, <1>5, <1>11, <1>12, <1>13, <1>14, EditsStep

-----------------------------------------------------------------------------
(* Boards: the actions of a window.                                          *)

LEMMA ReadEdits ==
    ASSUME RegistryConstants, OrderInv, EditsInv, NEW w \in Windows, NEW r \in Readers,
           Read(w, r) \/ ReadFails(w, r)
    PROVE  EditsInv'
  <1>1. UNCHANGED <<row, board, accepted, task, edits>> BY DEF Read, ReadFails
  <1>2. CASE ReadFails(w, r)
    <2>1. OrderInv' /\ writes' = writes /\ \E x : AddsAnswer(w, x) /\ x.result # "ok"
      BY <1>2, ReadFailsOrdered DEF ReadFails
    <2> QED BY <1>1, <2>1, AnswerEdits
  <1>3. CASE Read(w, r)
    <2>1. /\ OrderInv'
          /\ \/ \E o : Promotes(w, o)
             \/ \E x : AddsAnswer(w, x) /\ writes' = writes /\ x.result = "ok" /\ x.registry = Content(row)
      BY <1>3, ReadOrdered
    <2>2. CASE \E x : AddsAnswer(w, x) /\ writes' = writes /\ x.result = "ok" /\ x.registry = Content(row)
      BY <1>1, <2>1, <2>2, AnswerEdits
    <2>3. CASE \E o : Promotes(w, o)
      <3>1. PICK o : Promotes(w, o) BY <2>3
      <3>2. AddsOp(w, o) /\ o.kind = "promotion" /\ o.seen = Unset /\ o.phase = "queued"
        BY <3>1 DEF Promotes
      <3> QED BY <1>1, <2>1, <3>2, AsideEdits
    <2> QED BY <2>1, <2>2, <2>3
  <1> QED BY <1>2, <1>3

LEMMA CommandEdits ==
    ASSUME RegistryConstants, OrderInv, EditsInv, NEW w \in Windows,
           \/ Check(w) \/ CheckFails(w) \/ Write(w) \/ WriteUnanswered(w) \/ WriteFails(w) \/ Confirm(w)
    PROVE  EditsInv'
  <1>1. edits' = edits BY DEF Check, CheckFails, Write, WriteUnanswered, WriteFails, Confirm
  <1>2. CASE Check(w)
    <2>1. /\ OrderInv'
          /\ \/ \E x : Settles(w, x)
             \/ Goes(w, "checked", row) /\ (Op(w).kind = "write" => Content(row) = Expected(w))
      BY <1>2, CheckOrdered
    <2>2. row' = row /\ Operating(w, "queued") BY <1>2 DEF Check
    <2> QED BY <1>1, <2>1, <2>2, SettledEdits, CheckedEdits
  <1>3. CASE CheckFails(w) \/ WriteFails(w)
    <2>1. row' = row /\ OrderInv' /\ \E x : Settles(w, x)
      BY <1>3, FailedOrdered DEF CheckFails, WriteFails
    <2> QED BY <1>1, <2>1, SettledEdits
  <1>4. CASE Write(w) BY <1>1, <1>4, WriteOrdered, SavedEdits, SettledEdits
  <1>5. CASE WriteUnanswered(w) BY <1>1, <1>5, WriteUnansweredOrdered, SavedEdits
  <1>6. CASE Confirm(w)
    <2>1. row' = row /\ OrderInv' /\ \E x : Settles(w, x) BY <1>6, ConfirmOrdered DEF Confirm
    <2> QED BY <1>1, <2>1, SettledEdits
  <1> QED BY <1>2, <1>3, <1>4, <1>5, <1>6

LEMMA AnsweredEdits ==
    ASSUME RegistryConstants, OrderInv, EditsInv, NEW w \in Windows,
           ReadAnswered(w) \/ OperationAnswered(w)
    PROVE  /\ EditsInv'
           /\ Visible(w) \cap Lasting(w) \cap Lasting(w)' \subseteq Visible(w)'
  <1>1. OrderInv' /\ Takes(w) BY ReadAnsweredOrdered, OperationAnsweredOrdered
  <1>2. row' = row /\ edits' = edits BY DEF ReadAnswered, OperationAnswered
  <1> QED BY <1>1, <1>2, TakesEdits, TakesKeepsShown

\* The board of window w shows what it showed, and more.
ShowsOn(w) == board'[w].view = board[w].view => Visible(w) \subseteq Visible(w)'

LEMMA NextEdit ==
    ASSUME RegistryConstants, OrderInv, EditsInv, NEW w \in Windows, Input, task' = task
    PROVE  NewEdit(w, edits')
  <1>1. edits' \in 1..MaxInputs /\ edits' > edits /\ edits' >= edits /\ edits \in Int
    BY InputCounts DEF OrderInv, TypeOK
  <1>2. \A x \in 1..MaxInputs : x > edits => Clear(x) BY DEF EditsInv, FreshOk
  <1>3. PICK e : e = edits' OBVIOUS
  <1>4. Clear(e) BY <1>1, <1>2, <1>3
  <1>5. NewEdit(w, e) BY <1>1, <1>3, <1>4 DEF NewEdit
  <1> QED BY <1>3, <1>5

LEMMA TaskEdit ==
    ASSUME OrderInv, EditsInv, NEW w \in Windows, task[w] # Unset, task'[w] = Unset, edits' = edits
    PROVE  NewEdit(w, task[w].edit)
  <1>1. Clear(task[w].edit) BY DEF EditsInv, FreshOk
  <1>2. TypeOK /\ edits \in Int BY DEF OrderInv, TypeOK
  <1>3. task[w].edit \in 1..MaxInputs BY <1>2, TaskTyped
  <1>4. edits' >= edits BY <1>2
  <1> QED BY <1>1, <1>3, <1>4 DEF NewEdit

LEMMA EditEdits ==
    ASSUME RegistryConstants, OrderInv, EditsInv, NEW w \in Windows, Edit(w)
    PROVE  EditsInv' /\ ShowsOn(w)
  <1>1. OrderInv' /\ Persisted(w, edits', Visible(w) \cup {edits'}) /\ task' = task BY EditOrdered
  <1>2. row' = row /\ NewEdit(w, edits') BY <1>1, NextEdit DEF Edit
  <1>3. PICK e : e = edits' OBVIOUS
  <1>4. Extends(w, e, Unset) BY <1>1, <1>3 DEF Extends, Persisted
  <1>5. ShowsOn(w) BY <1>4 DEF ShowsOn, Extends, Drafted, Visible
  <1> QED BY <1>1, <1>2, <1>3, <1>4, <1>5, ExtendsEdits

LEMMA FinishDialogEdits ==
    ASSUME RegistryConstants, OrderInv, EditsInv, NEW w \in Windows, FinishDialog(w), ~overtaken'
    PROVE  EditsInv' /\ ShowsOn(w)
  <1>1. /\ OrderInv' /\ task[w] # Unset /\ task'[w] = Unset
        /\ \/ Over(w)
           \/ /\ Persisted(w, task[w].edit, task[w].base \cup {task[w].edit})
              /\ Visible(w) = task[w].base
    BY FinishDialogOrdered
  <1>2. row' = row /\ edits' = edits BY DEF FinishDialog
  <1>3. CASE Over(w)
    <2>1. edits' >= edits BY <1>2 DEF OrderInv, TypeOK
    <2> QED BY <1>1, <1>2, <1>3, <2>1, OverEdits DEF Over, Shows, ShowsOn, Visible
  <1>4. CASE Persisted(w, task[w].edit, task[w].base \cup {task[w].edit}) /\ Visible(w) = task[w].base
    <2>1. Extends(w, task[w].edit, Unset) BY <1>4 DEF Extends, Persisted
    <2>2. NewEdit(w, task[w].edit) BY <1>1, <1>2, TaskEdit
    <2>3. ShowsOn(w) BY <2>1 DEF ShowsOn, Extends, Drafted, Visible
    <2> QED BY <1>1, <1>2, <2>1, <2>2, <2>3, ExtendsEdits
  <1> QED BY <1>1, <1>3, <1>4

LEMMA FinishCapturedEdits ==
    ASSUME RegistryConstants, OrderInv, EditsInv, NEW w \in Windows, FinishCaptured(w)
    PROVE  EditsInv' /\ ShowsOn(w)
  <1>1. OrderInv' /\ task[w] # Unset /\ task'[w] = Unset /\ (Over(w) \/ Captured(w))
    BY FinishCapturedOrdered
  <1>2. row' = row /\ edits' = edits BY DEF FinishCaptured
  <1> DEFINE t == task[w]
  <1>3. CASE Over(w)
    <2>1. edits' >= edits BY <1>2 DEF OrderInv, TypeOK
    <2> QED BY <1>1, <1>2, <1>3, <2>1, OverEdits DEF Over, Shows, ShowsOn, Visible
  <1>4. CASE Captured(w)
    <2>1. NewEdit(w, t.edit) /\ t.base # Unset
      BY <1>1, <1>2, TaskEdit, TaskTyped DEF OrderInv, RegistryConstants
    <2>2. /\ Joins(w, t.edit, t.view, t.base \cup {t.edit}, t.base) /\ accepted' = accepted
          /\ \/ /\ board[w].view = t.view /\ Admits(w) /\ Visible(w) = t.base
                /\ Drafted(w, t.edit, t.base \cup {t.edit})
             \/ board[w].view # t.view /\ board' = board
      BY <1>4 DEF Captured
    <2>3. CASE /\ board[w].view = t.view /\ Admits(w) /\ Visible(w) = t.base
               /\ Drafted(w, t.edit, t.base \cup {t.edit})
      <3>1. Extends(w, t.edit, t.base) BY <2>2, <2>3 DEF Extends
      <3>2. ShowsOn(w) BY <3>1 DEF ShowsOn, Extends, Drafted, Visible
      <3> QED BY <1>1, <1>2, <2>1, <3>1, <3>2, ExtendsEdits
    <2>4. CASE board[w].view # t.view /\ board' = board
      <3>1. PICK o : /\ AddsOp(w, o) /\ o.kind = "write" /\ o.by = t.edit /\ o.view = t.view
                     /\ o.next = t.base \cup {t.edit} /\ o.guard = t.base /\ o.seen = Unset
                     /\ o.phase = "queued"
        BY <2>2 DEF Joins
      <3>2. \A x : Unseen(x) /\ Strange(x, w) /\ x # o.by => x \notin o.next
        BY <1>1, <3>1 DEF Strange
      <3>3. EditsInv' BY <1>1, <1>2, <2>1, <2>2, <2>4, <3>1, <3>2, AsideEdits
      <3> QED BY <2>4, <3>3 DEF ShowsOn, Visible
    <2> QED BY <2>2, <2>3, <2>4
  <1> QED BY <1>1, <1>3, <1>4

LEMMA ImportEdits ==
    ASSUME RegistryConstants, OrderInv, EditsInv, NEW w \in Windows, Import(w)
    PROVE  EditsInv'
  <1>1. /\ OrderInv' /\ UNCHANGED <<row, board, accepted, task>>
        /\ \E o : /\ AddsOp(w, o) /\ o.kind = "import" /\ o.by = edits' /\ o.view = 0
                  /\ o.next = {edits'} /\ o.guard = Unset /\ o.seen = Unset /\ o.phase = "queued"
    BY ImportOrdered
  <1>2. NewEdit(w, edits') BY <1>1, NextEdit DEF Import
  <1>3. PICK o : /\ AddsOp(w, o) /\ o.kind = "import" /\ o.by = edits' /\ o.next = {edits'}
                 /\ o.seen = Unset /\ o.phase = "queued"
    BY <1>1
  <1>4. NewEdit(w, o.by) /\ \A x : x # o.by => x \notin o.next BY <1>2, <1>3
  <1> QED BY <1>1, <1>3, <1>4, AsideEdits

\* A task begins with what the board shows, and an edit of its own.
LEMMA BeginEdits ==
    ASSUME RegistryConstants, OrderInv, EditsInv, NEW w \in Windows, NEW kind \in {"dialog", "captured"},
           Begin(w, kind)
    PROVE  EditsInv'
  <1>1. /\ OrderInv' /\ TaskMoves(w) /\ edits' = edits + 1
        /\ task'[w] # Unset /\ task'[w].base = Visible(w) /\ task'[w].edit = edits'
    BY BeginOrdered
  <1>2. row' = row /\ task[w] = Unset /\ edits \in Int /\ edits' > edits /\ edits' \in 1..MaxInputs
    BY InputCounts DEF Begin, OrderInv, TypeOK
  <1>3. TypeOK' /\ QueueTypes' /\ OneWindow(w) /\ Shows(w)
    BY <1>1, OrderedTypes DEF OrderInv, TypeOK, QueueTypes, TaskMoves, Shows
  <1>4. FreshOk /\ BlankOk /\ WindowOk(w) /\ RowMoves /\ \A u \in Windows : NewsTo(u)
    BY <1>2 DEF EditsInv, RowMoves, NewsTo
  <1>5. KeepsOut({})
    <2>1. Learns(w) BY <1>1, SeenBefore DEF Learns, TaskMoves
    <2>2. ASSUME NEW x, Unseen(x)
          PROVE  (Strange(x, w) => Strange(x, w)') /\ \A v : Aside(x, w, v) => Aside(x, w, v)'
      <3>1. Strange(x, w) => x \notin Visible(w) BY <2>2 DEF Strange, Visible, Unseen
      <3> QED BY <1>1, <3>1 DEF Strange, Aside, TaskMoves
    <2> QED BY <1>3, <2>1, <2>2, KeepsFrom
  <1>6. WindowOk(w)'
    <2>1. writes[w] \in Seq(Operation) /\ answers[w] \in Seq(Answers) BY DEF OrderInv, TypeOK
    <2>2. Calm(w) BY <1>1, <1>2, <1>3, <2>1, StayedOps, StayedAnswers DEF TaskMoves, Calm
    <2> QED BY <1>3, <1>4, <1>5, <2>2, CalmWindow
  <1>7. ASSUME NEW u \in Windows \ {w} PROVE WindowOk(u)'
    <2>1. WindowOk(u) /\ NewsTo(u) /\ u \in Windows BY <1>4 DEF EditsInv
    <2> QED BY <1>1, <1>4, <1>5, <2>1, WindowStays DEF TaskMoves
  <1>8. BlankOk'
    <2>1. Content(row) = {} =>
             /\ board'[w].registry = {}
             /\ \A v \in 1..MaxVisits : accepted'[w][v] = {}
             /\ \A i \in DOMAIN answers'[w] : answers'[w][i].result = "ok" => answers'[w][i].registry = {}
      BY <1>1, <1>4 DEF BlankOk, TaskMoves
    <2> QED BY <1>3, <1>4, <1>5, <2>1, BlankStays
  <1>9. \A x : Clear(x) => Clear(x)'
    <2>1. \A x : Clear(x) => x \notin Content(row') BY <1>2 DEF Clear, Unseen
    <2> QED BY <1>5, <2>1, ClearStays
  <1>10. PICK e : e = edits' OBVIOUS
  <1>11. Clear(e)' /\ \A x \in 1..MaxInputs : x > e => Clear(x)'
    <2>1. \A x \in 1..MaxInputs : x > edits => Clear(x) BY <1>4 DEF FreshOk
    <2>2. Clear(e) BY <1>2, <1>10, <2>1
    <2>3. \A x \in 1..MaxInputs : x > e => x > edits BY <1>2, <1>10
    <2> QED BY <1>9, <2>1, <2>2, <2>3
  <1>12. ASSUME NEW u \in Windows \ {w}, task'[u] # Unset
         PROVE  /\ task[u] # Unset /\ task'[u] = task[u] /\ task[u].edit \in Int /\ task[u].edit <= edits
                /\ Clear(task[u].edit)'
    <2>1. task'[u] = task[u] /\ u \in Windows /\ TypeOK BY <1>3 DEF OneWindow, OrderInv
    <2>2. task[u].edit \in 1..MaxInputs BY <1>12, <2>1, TaskTyped
    <2>3. PICK x : x = task[u].edit OBVIOUS
    <2>4. x <= edits /\ Clear(x) BY <1>4, <1>12, <2>1, <2>3 DEF FreshOk
    <2>5. x = task'[u].edit /\ Clear(x)' BY <1>9, <2>1, <2>3, <2>4
    <2> QED BY <1>12, <2>1, <2>2, <2>3, <2>4, <2>5
  <1>13. FreshOk'
    <2>1. \A x \in 1..MaxInputs : x > edits' => Clear(x)' BY <1>10, <1>11
    <2>2. \A u \in Windows : task'[u] # Unset =>
             task'[u].edit <= edits' /\ \E x : x = task'[u].edit /\ Clear(x)'
      BY <1>1, <1>2, <1>10, <1>11, <1>12
    <2>3. \A u, v \in Windows :
             task'[u] # Unset /\ task'[v] # Unset /\ task'[v].edit = task'[u].edit => v = u
      <3>1. \A u, v \in Windows : task[u] # Unset /\ task[v] # Unset /\ task[v].edit = task[u].edit => v = u
        BY <1>4 DEF FreshOk
      <3>2. \A u \in Windows \ {w} : task'[u] # Unset => task'[u].edit # edits' BY <1>2, <1>12
      <3> QED BY <1>1, <1>12, <3>1, <3>2
    <2> QED BY <2>1, <2>2, <2>3 DEF FreshOk
  <1> QED BY <1>6, <1>7, <1>8, <1>13 DEF EditsInv

-----------------------------------------------------------------------------
(* Boards: every step.                                                       *)

\* What the board shows, and the row holds or a write will save, stays.
Onward(w) ==
    board'[w].view = board[w].view =>
        Visible(w) \cap Lasting(w) \cap Lasting(w)' \subseteq Visible(w)'

\* What a step of window w does.
StepOk(w) ==
    /\ OrderInv' /\ OneWindow(w)
    /\ row' = row \/ Saved(w)
    /\ ~overtaken' => ~overtaken
    /\ (EditsInv /\ ~overtaken') => (EditsInv' /\ Onward(w))

LEMMA ShownStays ==
    ASSUME NEW w, Shows(w) \/ board' = board \/ ShowsOn(w) PROVE Onward(w)
  <1>1. board'[w].view = board[w].view => Visible(w) \subseteq Visible(w)'
    BY DEF Shows, ShowsOn, Visible
  <1> QED BY <1>1 DEF Onward

LEMMA ReadStep ==
    ASSUME RegistryConstants, OrderInv, NEW w \in Windows, NEW r \in Readers,
           Read(w, r) \/ ReadFails(w, r)
    PROVE  StepOk(w)
  <1>1. row' = row /\ board' = board /\ overtaken' = overtaken BY DEF Read, ReadFails
  <1>2. OrderInv' /\ OneWindow(w) BY ReadOrdered, ReadFailsOrdered DEF Promotes, AddsOp, AddsAnswer
  <1>3. EditsInv => EditsInv' BY ReadEdits
  <1> QED BY <1>1, <1>2, <1>3, ShownStays DEF StepOk

LEMMA AnsweredStep ==
    ASSUME RegistryConstants, OrderInv, NEW w \in Windows, ReadAnswered(w) \/ OperationAnswered(w)
    PROVE  StepOk(w)
  <1>1. row' = row /\ overtaken' = overtaken BY DEF ReadAnswered, OperationAnswered
  <1>2. OrderInv' /\ OneWindow(w) BY ReadAnsweredOrdered, OperationAnsweredOrdered DEF Takes
  <1>3. EditsInv => EditsInv' /\ Onward(w) BY AnsweredEdits DEF Onward
  <1> QED BY <1>1, <1>2, <1>3 DEF StepOk

LEMMA CommandStep ==
    ASSUME RegistryConstants, OrderInv, NEW w \in Windows,
           \/ Check(w) \/ CheckFails(w) \/ Write(w) \/ WriteUnanswered(w) \/ WriteFails(w) \/ Confirm(w)
    PROVE  StepOk(w)
  <1>1. board' = board /\ overtaken' = overtaken
    BY DEF Check, CheckFails, Write, WriteUnanswered, WriteFails, Confirm
  <1>2. EditsInv => EditsInv' BY CommandEdits
  <1>3. OrderInv' /\ OneWindow(w) /\ (row' = row \/ Saved(w))
    <2>1. CASE Check(w) BY <2>1, CheckOrdered DEF Check, Settles, Goes, Works
    <2>2. CASE CheckFails(w) \/ WriteFails(w)
      BY <2>2, FailedOrdered DEF CheckFails, WriteFails, Settles, Works
    <2>3. CASE Write(w) BY <2>3, WriteOrdered DEF Saved, Settles, Goes, Works
    <2>4. CASE WriteUnanswered(w) BY <2>4, WriteUnansweredOrdered DEF Saved, Settles, Goes, Works
    <2>5. CASE Confirm(w) BY <2>5, ConfirmOrdered DEF Confirm, Settles, Works
    <2> QED BY <2>1, <2>2, <2>3, <2>4, <2>5
  <1> QED BY <1>1, <1>2, <1>3, ShownStays DEF StepOk

LEMMA BoardStep ==
    ASSUME RegistryConstants, OrderInv, NEW w \in Windows,
           \/ HearCommit(w) \/ Focus(w) \/ Reload(w) \/ Enter(w) \/ Leave(w)
    PROVE  StepOk(w)
  <1>1. row' = row /\ overtaken' = overtaken /\ edits' >= edits /\ TypeOK
    BY InputCounts DEF HearCommit, Focus, Reload, Enter, Leave, OrderInv, TypeOK
  <1>2. CASE HearCommit(w) \/ Focus(w) \/ Reload(w)
    <2>1. OrderInv' /\ Stays(w) /\ Shows(w) BY <1>2, HearCommitOrdered, FocusOrdered, ReloadOrdered
    <2>2. EditsInv => EditsInv' BY <1>1, <2>1, StaysEdits
    <2> QED BY <1>1, <2>1, <2>2, ShownStays DEF StepOk, Stays
  <1>3. CASE Enter(w)
    <2>1. OrderInv' /\ Empties(w) /\ board'[w].view > board[w].visits BY <1>3, EnterOrdered
    <2>2. board'[w].view # board[w].view
      <3>1. board[w].view = 0 /\ board[w].visits \in Nat
        BY <1>1, <1>3 DEF Enter, Shown, TypeOK, Board
      <3> QED BY <2>1, <3>1
    <2>3. EditsInv => EditsInv' BY <1>3, EnterEdits
    <2> QED BY <1>1, <2>1, <2>2, <2>3 DEF StepOk, Onward, Empties, Stays
  <1>4. CASE Leave(w)
    <2>1. OrderInv' /\ Empties(w) /\ board'[w].view # board[w].view
      <3>1. board[w].view # 0 BY <1>4 DEF Leave, Shown
      <3> QED BY <1>4, <3>1, LeaveOrdered
    <2>2. EditsInv => EditsInv' BY <1>4, LeaveEdits
    <2> QED BY <1>1, <2>1, <2>2 DEF StepOk, Onward, Empties, Stays
  <1> QED BY <1>2, <1>3, <1>4

LEMMA EditStep ==
    ASSUME RegistryConstants, OrderInv, NEW w \in Windows, Import(w) \/ Edit(w)
    PROVE  StepOk(w)
  <1>1. row' = row /\ overtaken' = overtaken BY DEF Import, Edit
  <1>2. CASE Import(w)
    <2>1. OrderInv' /\ board' = board /\ OneWindow(w) BY <1>2, ImportOrdered DEF AddsOp
    <2>2. EditsInv => EditsInv' BY <1>2, ImportEdits
    <2> QED BY <1>1, <2>1, <2>2, ShownStays DEF StepOk
  <1>3. CASE Edit(w)
    <2>1. OrderInv' /\ OneWindow(w) BY <1>3, EditOrdered DEF Persisted, Joins, AddsOp
    <2>2. EditsInv => EditsInv' /\ ShowsOn(w) BY <1>3, EditEdits
    <2> QED BY <1>1, <2>1, <2>2, ShownStays DEF StepOk
  <1> QED BY <1>2, <1>3

LEMMA TaskStep ==
    ASSUME RegistryConstants, OrderInv, NEW w \in Windows,
           \/ FinishDialog(w) \/ FinishCaptured(w)
           \/ \E kind \in {"dialog", "captured"} : Begin(w, kind)
    PROVE  StepOk(w)
  <1>1. CASE FinishDialog(w)
    <2>1. OrderInv' /\ OneWindow(w) BY <1>1, FinishDialogOrdered DEF Over, Persisted, Joins, AddsOp
    <2>2. row' = row /\ (~overtaken' => ~overtaken) BY <1>1 DEF FinishDialog
    <2>3. (EditsInv /\ ~overtaken') => (EditsInv' /\ ShowsOn(w)) BY <1>1, FinishDialogEdits
    <2> QED BY <2>1, <2>2, <2>3, ShownStays DEF StepOk
  <1>2. CASE FinishCaptured(w)
    <2>1. OrderInv' /\ OneWindow(w) BY <1>2, FinishCapturedOrdered DEF Over, Captured, Joins, AddsOp
    <2>2. row' = row /\ overtaken' = overtaken BY <1>2 DEF FinishCaptured
    <2>3. EditsInv => (EditsInv' /\ ShowsOn(w)) BY <1>2, FinishCapturedEdits
    <2> QED BY <2>1, <2>2, <2>3, ShownStays DEF StepOk
  <1>3. ASSUME NEW kind \in {"dialog", "captured"}, Begin(w, kind) PROVE StepOk(w)
    <2>1. OrderInv' /\ TaskMoves(w) BY <1>3, BeginOrdered
    <2>2. row' = row /\ overtaken' = overtaken BY <1>3 DEF Begin
    <2>3. EditsInv => EditsInv' BY <1>3, BeginEdits
    <2> QED BY <2>1, <2>2, <2>3, ShownStays DEF StepOk, TaskMoves
  <1> QED BY <1>1, <1>2, <1>3

\* Every step is a commit elsewhere or a step of one window.
LEMMA AnyStep ==
    ASSUME RegistryConstants, OrderInv, Next
    PROVE  CommitElsewhere \/ \E w \in Windows : StepOk(w)
  <1> SUFFICES ASSUME ~CommitElsewhere PROVE \E w \in Windows : StepOk(w) OBVIOUS
  <1>1. PICK w \in Windows :
           \/ \E r \in Readers : Read(w, r) \/ ReadFails(w, r)
           \/ ReadAnswered(w) \/ OperationAnswered(w) \/ HearCommit(w)
           \/ Check(w) \/ CheckFails(w) \/ Write(w) \/ WriteUnanswered(w) \/ WriteFails(w) \/ Confirm(w)
           \/ Enter(w) \/ Leave(w) \/ Focus(w) \/ Reload(w) \/ Import(w)
           \/ Edit(w) \/ FinishDialog(w) \/ FinishCaptured(w)
           \/ \E kind \in {"dialog", "captured"} : Begin(w, kind)
    BY DEF Next
  <1>2. StepOk(w) BY <1>1, ReadStep, AnsweredStep, CommandStep, BoardStep, EditStep, TaskStep
  <1> QED BY <1>2

LEMMA NothingMoves ==
    ASSUME OrderInv, UNCHANGED vars PROVE OrderInv' /\ (EditsInv => EditsInv')
  <1>1. OrderInv'
    BY DEF vars, OrderInv, TypeOK, OpsOk, DoneOk, ViewOk, ReloadOk, Reloads, Owns, Op, Shown
  <1>2. ASSUME EditsInv PROVE EditsInv'
    <2>1. RowMoves /\ \A u \in Windows : NewsTo(u) BY DEF vars, RowMoves, NewsTo
    <2>2. KeepsOut({}) BY DEF vars, KeepsOut, Unseen, Strange, Aside, Content
    <2>3. ASSUME NEW u \in Windows PROVE WindowOk(u)'
      <3>1. WindowOk(u) /\ NewsTo(u) BY <1>2, <2>1 DEF EditsInv
      <3> QED BY <2>1, <2>2, <3>1, WindowStays DEF vars
    <2>4. \A x : Clear(x) => Clear(x)' BY DEF vars, Clear, Unseen, Strange, Content
    <2>5. FreshOk' /\ BlankOk'
      <3>1. FreshOk /\ BlankOk BY <1>2 DEF EditsInv
      <3>2. FreshOk' BY <3>1 DEF vars, FreshOk, Clear, Unseen, Strange, Content
      <3>3. BlankOk' BY <2>4, <3>1 DEF vars, BlankOk, Content
      <3> QED BY <3>2, <3>3
    <2> QED BY <2>3, <2>5 DEF EditsInv
  <1> QED BY <1>1, <1>2

LEMMA FirstBoards ==
    ASSUME RegistryConstants, Init PROVE BoardsInv
  <1>1. /\ row \in {Unset, {}} /\ Content(row) = {} /\ migrated \in BOOLEAN
        /\ \A w \in Windows : board[w] \in {EmptyBoard(0, 0), LoadedBoard}
        /\ board \in [Windows -> {EmptyBoard(0, 0), LoadedBoard}]
        /\ accepted = [w \in Windows |-> [v \in 1..MaxVisits |-> {}]]
        /\ writes = [w \in Windows |-> <<>>] /\ answers = [w \in Windows |-> <<>>]
        /\ events = [w \in Windows |-> 0] /\ task = [w \in Windows |-> Unset]
        /\ overtaken = FALSE /\ edits = 0 /\ failures = 0
    BY DEF Init, Content
  <1>2. /\ MaxVisits \in Nat \ {0} /\ MaxInputs \in Nat /\ MaxFailures \in Nat
        /\ {} \in Registry /\ 1 \in 1..MaxVisits
    BY DEF RegistryConstants, Registry
  <1>3. \A b \in {EmptyBoard(0, 0), LoadedBoard} :
           /\ b \in Board /\ b.view \in {0, b.visits} /\ b.registry = {} /\ b.draft = Unset
           /\ "reload" \notin b.reads
    <2>1. 0 \in 0..MaxVisits /\ 1 \in 0..MaxVisits BY <1>2
    <2>2. PICK c : c = EmptyBoard(1, 1) OBVIOUS
    <2>3. /\ EmptyBoard(0, 0) \in Board /\ EmptyBoard(0, 0).view = 0
          /\ EmptyBoard(0, 0).registry = {} /\ EmptyBoard(0, 0).draft = Unset
          /\ "reload" \notin EmptyBoard(0, 0).reads
      BY <1>2, <2>1 DEF EmptyBoard, Board, Readers
    <2>4. c \in Board /\ c.view = 1 /\ c.visits = 1 /\ c.registry = {} /\ c.draft = Unset
      BY <1>2, <2>1, <2>2 DEF EmptyBoard, Board, Readers
    <2>5. LoadedBoard = [c EXCEPT !.ready = TRUE, !.reads = {}] BY <2>2 DEF LoadedBoard
    <2>6. /\ LoadedBoard \in Board /\ LoadedBoard.view = 1 /\ LoadedBoard.visits = 1
          /\ LoadedBoard.registry = {} /\ LoadedBoard.draft = Unset /\ LoadedBoard.reads = {}
      BY <2>4, <2>5 DEF Board
    <2> QED BY <2>3, <2>6
  <1>4. TypeOK
    <2>1. board \in [Windows -> Board] BY <1>1, <1>3
    <2>2. /\ <<>> \in Seq(Operation) /\ <<>> \in Seq(Answers)
          /\ [v \in 1..MaxVisits |-> {}] \in [1..MaxVisits -> Registry]
      BY <1>2
    <2>3. row \in {Unset} \cup Registry BY <1>1, <1>2
    <2>4. edits \in 0..MaxInputs /\ failures \in 0..MaxFailures BY <1>1, <1>2
    <2> QED BY <1>1, <2>1, <2>2, <2>3, <2>4 DEF TypeOK
  <1>5. ASSUME NEW w \in Windows
        PROVE  /\ writes[w] = <<>> /\ answers[w] = <<>> /\ DOMAIN writes[w] = {} /\ DOMAIN answers[w] = {}
               /\ task[w] = Unset /\ board[w].registry = {} /\ board[w].draft = Unset
               /\ board[w].view \in {0, board[w].visits} /\ "reload" \notin board[w].reads
               /\ \A v \in 1..MaxVisits : accepted[w][v] = {}
    BY <1>1, <1>3
  <1>6. OrderInv BY <1>4, <1>5 DEF OrderInv, OpsOk, DoneOk, ViewOk, ReloadOk
  <1>7. \A x : Clear(x) BY <1>1, <1>5 DEF Clear, Unseen, Strange
  <1>8. FreshOk /\ BlankOk BY <1>5, <1>7 DEF FreshOk, BlankOk
  <1>9. ASSUME NEW w \in Windows PROVE WindowOk(w)
    <2>1. Shown(w) => board[w].view \in 1..MaxVisits BY <1>1, <1>3, <1>4 DEF Shown, TypeOK, Board
    <2>2. TimeOk(w) BY <1>5, <2>1 DEF TimeOk, Before
    <2>3. PendingOk(w) /\ SaveOk(w) /\ ChainOk(w) /\ LastOk(w)
      BY <1>5 DEF PendingOk, SaveOk, ChainOk, LastOk
    <2> QED BY <2>2, <2>3 DEF WindowOk
  <1> QED BY <1>6, <1>8, <1>9 DEF BoardsInv, EditsInv

LEMMA NextBoards ==
    ASSUME RegistryConstants, BoardsInv, [Next]_vars PROVE BoardsInv'
  <1>1. OrderInv /\ (overtaken \/ EditsInv) BY DEF BoardsInv
  <1>2. CASE UNCHANGED vars
    <2>1. overtaken' = overtaken BY <1>2 DEF vars
    <2> QED BY <1>1, <1>2, <2>1, NothingMoves DEF BoardsInv
  <1>3. CASE CommitElsewhere
    <2>1. OrderInv' /\ overtaken' = overtaken BY <1>1, <1>3, ElsewhereOrdered
    <2>2. EditsInv => EditsInv' BY <1>1, <1>3, ElsewhereEdits
    <2> QED BY <1>1, <2>1, <2>2 DEF BoardsInv
  <1>4. CASE \E w \in Windows : StepOk(w) BY <1>1, <1>4 DEF StepOk, BoardsInv
  <1> QED BY <1>1, <1>2, <1>3, <1>4, AnyStep

LEMMA SavedStep ==
    ASSUME RegistryConstants, BoardsInv, [Next]_vars
    PROVE  [\/ overtaken
            \/ Content(row) \subseteq Content(row')
            \/ edits' # edits
            \/ \E w \in DOMAIN writes :
                  Operating(w, "checked") /\ Op(w).kind = "import" /\ row' = Op(w).next]_row
  <1> SUFFICES ASSUME row' # row, ~overtaken, ~(Content(row) \subseteq Content(row')), edits' = edits
               PROVE  \E w \in DOMAIN writes :
                         Operating(w, "checked") /\ Op(w).kind = "import" /\ row' = Op(w).next
    OBVIOUS
  <1>1. OrderInv /\ EditsInv /\ DOMAIN writes = Windows BY DEF BoardsInv, OrderInv, TypeOK
  <1>2. Next BY DEF vars
  <1>3. ~CommitElsewhere
    <2>1. CommitElsewhere => edits' # edits
      BY <1>1, InputCounts DEF CommitElsewhere, OrderInv, TypeOK
    <2> QED BY <2>1
  <1>4. PICK w \in Windows : Saved(w) BY <1>1, <1>2, <1>3, AnyStep DEF StepOk
  <1>5. /\ Operating(w, "checked") /\ row' = Op(w).next
        /\ Op(w).kind = "write" => Content(row) \subseteq Content(row')
        /\ Op(w).kind = "promotion" => row = Unset
    BY <1>1, <1>4, SavesOwn DEF Saved
  <1>6. Op(w).kind \in {"write", "import", "promotion"} BY <1>1, <1>5, AtWork DEF Operation
  <1>7. Op(w).kind # "promotion" BY <1>5 DEF Content
  <1> QED BY <1>1, <1>5, <1>6, <1>7

LEMMA ShownStep ==
    ASSUME RegistryConstants, BoardsInv, [Next]_vars
    PROVE  [\A w \in DOMAIN board :
               board[w].view = board'[w].view /\ ~overtaken'
                  => Visible(w) \cap Lasting(w) \cap Lasting(w)' \subseteq Visible(w)']_board
  <1> SUFFICES ASSUME board' # board, NEW u \in Windows, board[u].view = board'[u].view, ~overtaken'
               PROVE  Visible(u) \cap Lasting(u) \cap Lasting(u)' \subseteq Visible(u)'
    BY DEF BoardsInv, OrderInv, TypeOK
  <1>1. OrderInv /\ (overtaken \/ EditsInv) BY DEF BoardsInv
  <1>2. Next /\ ~CommitElsewhere BY DEF vars, CommitElsewhere
  <1>3. PICK w \in Windows : StepOk(w) BY <1>1, <1>2, AnyStep
  <1>4. CASE u = w BY <1>1, <1>3, <1>4 DEF StepOk, Onward
  <1>5. CASE u # w BY <1>3, <1>5 DEF StepOk, OneWindow, Visible
  <1> QED BY <1>4, <1>5

\* Every variable of the boards keeps its type: project-storage.ts,
\* project-board-registry-writer.svelte.ts.
THEOREM BoardsTypeCorrect == ASSUME RegistryConstants PROVE Spec => []TypeOK
  <1>1. Init => BoardsInv BY FirstBoards
  <1>2. BoardsInv /\ [Next]_vars => BoardsInv' BY NextBoards
  <1>3. BoardsInv => TypeOK BY DEF BoardsInv, OrderInv
  <1> QED BY <1>1, <1>2, <1>3, PTL DEF Spec

\* No save drops what was committed since its editor looked, and no late answer, reread,
\* notification or older save takes back an edit that a board shows
\* (saveProjectRegistryNow and its callers in project-storage.ts).
THEOREM EditsStay == ASSUME RegistryConstants PROVE Spec => EditsSurvive
  <1>1. Init => BoardsInv BY FirstBoards
  <1>2. BoardsInv /\ [Next]_vars => BoardsInv' BY NextBoards
  <1>3. BoardsInv /\ [Next]_vars =>
           [\/ overtaken
            \/ Content(row) \subseteq Content(row')
            \/ edits' # edits
            \/ \E w \in DOMAIN writes :
                  Operating(w, "checked") /\ Op(w).kind = "import" /\ row' = Op(w).next]_row
    BY SavedStep
  <1>4. BoardsInv /\ [Next]_vars =>
           [\A w \in DOMAIN board :
               board[w].view = board'[w].view /\ ~overtaken'
                  => Visible(w) \cap Lasting(w) \cap Lasting(w)' \subseteq Visible(w)']_board
    BY ShownStep
  <1> QED
    BY <1>1, <1>2, <1>3, <1>4, PTL DEF Spec, EditsSurvive, SavedEditsSurvive, BoardNeverGoesBack
=============================================================================
