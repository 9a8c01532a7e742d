-------------------------- MODULE QueuePanelProofs --------------------------
(***************************************************************************)
(* Proofs about QueuePanel, for any number of work orders and calls under   *)
(* way, whatever is answered late, dropped or fails: its buttons are        *)
(* disabled exactly as long as what they began is under way (BusyInv), the  *)
(* identifiers of runs stay with their orders (IdsInv), and the display     *)
(* follows the clicks and goes back only to what a call about the order     *)
(* has brought (DisplayInv).                                                *)
(***************************************************************************)
EXTENDS QueuePanel, FiniteSetTheorems, TLAPS

IsPanel(p) ==
    /\ p = [at |-> p.at, list |-> p.list, shown |-> p.shown, editing |-> p.editing,
            estimate |-> p.estimate, refreshing |-> p.refreshing, reading |-> p.reading,
            writing |-> p.writing, cancelling |-> p.cancelling, previewing |-> p.previewing]
    /\ p.refreshing \in BOOLEAN /\ p.reading \in BOOLEAN /\ p.writing \in BOOLEAN
    /\ p.cancelling \in BOOLEAN /\ p.previewing \in BOOLEAN
IsCall(c) ==
    /\ c = [kind |-> c.kind, o |-> c.o, base |-> c.base, at |-> c.at, id |-> c.id,
            token |-> c.token, path |-> c.path, mine |-> c.mine, sel |-> c.sel,
            same |-> c.same, seen |-> c.seen, result |-> c.result]
    /\ c.mine \in BOOLEAN /\ c.sel \in BOOLEAN
IsRefresh(r) ==
    /\ r = [at |-> r.at, mine |-> r.mine, same |-> r.same, recover |-> r.recover,
            cards |-> r.cards, stale |-> r.stale, seen |-> r.seen, fixed |-> r.fixed,
            failed |-> r.failed, frees |-> r.frees, run |-> r.run]
    /\ r.mine \in BOOLEAN

\* What is under way for the page: calls of some kinds, refreshes that end one, reads
\* and previews of the present selection.
Own(cs, kinds) == {c \in cs : c.mine /\ c.kind \in kinds}
Ends(rs, frees) == {r \in rs : r.mine /\ r.frees = frees}
Chosen(cs, kind) == {c \in cs : c.kind = kind /\ c.sel}
AtMostOne(S) == \A x, y \in S : x = y

\* A flag is set exactly as long as its one call, or the one refresh that ends it, is there.
Exact(flag, cs, rs, kinds, frees) ==
    /\ flag = (Own(cs, kinds) # {} \/ Ends(rs, frees) # {})
    /\ AtMostOne(Own(cs, kinds))
    /\ Own(cs, kinds) = {} \/ Ends(rs, frees) = {}

Shapes(p, cs, rs) ==
    /\ IsPanel(p) /\ (\A c \in cs : IsCall(c)) /\ (\A r \in rs : IsRefresh(r))
    /\ \A c \in cs : (c.mine => p.at = "here") /\ (c.sel => c.mine)
    /\ \A r \in rs : r.mine => p.at = "here"
Buttons(p, cs, rs) ==
    /\ Exact(p.writing, cs, rs, WriteKinds, "writing")
    /\ Exact(p.cancelling, cs, rs, {"cancel"}, "cancelling")
Refreshing(p, rs) == p.refreshing = (Mine(rs) # {}) /\ AtMostOne(Mine(rs))
Selection(p, cs) ==
    /\ p.reading = (Chosen(cs, "read") # {}) /\ AtMostOne(Chosen(cs, "read"))
    /\ p.previewing = (Chosen(cs, "preview") # {}) /\ AtMostOne(Chosen(cs, "preview"))

PageOK(p, cs, rs) ==
    Shapes(p, cs, rs) /\ Buttons(p, cs, rs) /\ Refreshing(p, rs) /\ Selection(p, cs)

USE DEF WriteKinds

-----------------------------------------------------------------------------
(* What a step may do to the page                                            *)

SameFlags(p, q) ==
    /\ IsPanel(q) /\ q.at = p.at /\ q.refreshing = p.refreshing /\ q.reading = p.reading
    /\ q.writing = p.writing /\ q.cancelling = p.cancelling /\ q.previewing = p.previewing

\* The page shows something else.
LEMMA Redisplayed ==
    ASSUME NEW p, NEW q, NEW cs, NEW rs, PageOK(p, cs, rs), SameFlags(p, q)
    PROVE  PageOK(q, cs, rs)
  BY DEF PageOK, SameFlags, Shapes, Buttons, Refreshing, Selection

\* A call that goes on is of the same kind, and for the same page and selection.
Continues(c, d) ==
    IsCall(d) /\ d.kind = c.kind /\ d.mine = c.mine /\ d.sel = c.sel /\ d.o = c.o /\ d.id = c.id

\* Answers that a step makes too late: none, or all of a kind, and then the page does
\* not wait for any.
SelAs(f, cs, kind) == \A c \in cs : c.kind = kind => f[c].sel = c.sel
SelNone(f, cs, kind) == \A c \in cs : c.kind = kind => ~f[c].sel
Settled(q, p) ==
    /\ IsPanel(q) /\ q.at = p.at /\ q.refreshing = p.refreshing
    /\ q.writing = p.writing /\ q.cancelling = p.cancelling

\* All calls go on as f says.
Image(f, S) == {f[c] : c \in S}
LEMMA CallsBecome ==
    ASSUME NEW p, NEW q, NEW cs, NEW rs, NEW ds, PageOK(p, cs, rs), Settled(q, p),
           NEW f \in [cs -> ds], ds = Image(f, cs),
           \A c \in cs : /\ IsCall(f[c]) /\ f[c].kind = c.kind /\ f[c].mine = c.mine
                         /\ f[c].sel => c.sel,
           \/ q.reading = p.reading /\ SelAs(f, cs, "read")
           \/ q.reading = FALSE /\ SelNone(f, cs, "read"),
           \/ q.previewing = p.previewing /\ SelAs(f, cs, "preview")
           \/ q.previewing = FALSE /\ SelNone(f, cs, "preview")
    PROVE  PageOK(q, ds, rs)
  <1>1. Shapes(q, ds, rs) BY DEF PageOK, Shapes, Image, Settled
  <1>2. ASSUME NEW kinds
        PROVE  /\ (Own(ds, kinds) # {}) = (Own(cs, kinds) # {})
               /\ AtMostOne(Own(cs, kinds)) => AtMostOne(Own(ds, kinds))
    BY DEF Own, Image, AtMostOne
  <1>3. ASSUME NEW kind, SelAs(f, cs, kind)
        PROVE  /\ (Chosen(ds, kind) # {}) = (Chosen(cs, kind) # {})
               /\ AtMostOne(Chosen(cs, kind)) => AtMostOne(Chosen(ds, kind))
    BY <1>3 DEF Chosen, Image, AtMostOne, SelAs
  <1>4. ASSUME NEW kind, SelNone(f, cs, kind) PROVE Chosen(ds, kind) = {}
    BY <1>4 DEF Chosen, Image, SelNone
  <1> HIDE DEF Image, SelAs, SelNone
  <1>5. Buttons(q, ds, rs) BY <1>2 DEF PageOK, Buttons, Exact, Settled
  <1>6. Selection(q, ds) BY <1>3, <1>4 DEF PageOK, Selection, AtMostOne
  <1>7. Refreshing(q, rs) BY DEF PageOK, Refreshing, Settled
  <1> QED BY <1>1, <1>5, <1>6, <1>7 DEF PageOK

LEMMA Moves ==
    ASSUME NEW p, NEW cs, NEW rs, PageOK(p, cs, rs), NEW c \in cs, NEW d, Continues(c, d)
    PROVE  PageOK(p, (cs \ {c}) \cup {d}, rs)
  <1> DEFINE ds == (cs \ {c}) \cup {d}
             f == [x \in cs |-> IF x = c THEN d ELSE x]
  <1>1. f \in [cs -> ds] /\ ds = Image(f, cs) BY DEF Image
  <1>2. \A x \in cs : IsCall(f[x]) /\ f[x].kind = x.kind /\ f[x].mine = x.mine /\ f[x].sel = x.sel
    BY DEF Continues, PageOK, Shapes
  <1>3. Settled(p, p) BY DEF Settled, PageOK, Shapes
  <1> HIDE DEF f, ds
  <1>4. SelAs(f, cs, "read") /\ SelAs(f, cs, "preview") BY <1>2 DEF SelAs
  <1>5. \A x \in cs : /\ IsCall(f[x]) /\ f[x].kind = x.kind /\ f[x].mine = x.mine
                      /\ f[x].sel => x.sel
    BY <1>2
  <1>6. p.reading = p.reading /\ p.previewing = p.previewing OBVIOUS
  <1>7. PageOK(p, ds, rs) BY <1>1, <1>3, <1>4, <1>5, <1>6, CallsBecome
  <1> QED BY <1>7 DEF ds

LEMMA SameCleared ==
    ASSUME NEW c, IsCall(c), NEW d, d = [c EXCEPT !.same = FALSE]
    PROVE  Continues(c, d)
  BY DEF IsCall, Continues
LEMMA SelCleared ==
    ASSUME NEW c, IsCall(c), NEW d, d = [c EXCEPT !.sel = FALSE]
    PROVE  IsCall(d) /\ d.kind = c.kind /\ d.mine = c.mine /\ ~d.sel
  BY DEF IsCall

LEMMA CallsReassigned ==
    ASSUME NEW p, NEW cs, NEW rs, PageOK(p, cs, rs)
    PROVE  PageOK(p, Reassigned(cs), rs)
  <1> DEFINE f == [x \in cs |-> [x EXCEPT !.same = FALSE]]
  <1>1. f \in [cs -> Reassigned(cs)] /\ Reassigned(cs) = Image(f, cs) BY DEF Image, Reassigned
  <1>2. \A x \in cs : IsCall(f[x]) /\ f[x].kind = x.kind /\ f[x].mine = x.mine /\ f[x].sel = x.sel
    <2> SUFFICES ASSUME NEW x \in cs PROVE Continues(x, f[x]) BY DEF Continues
    <2> QED BY SameCleared DEF PageOK, Shapes
  <1>3. Settled(p, p) BY DEF Settled, PageOK, Shapes
  <1> HIDE DEF f
  <1>4. SelAs(f, cs, "read") /\ SelAs(f, cs, "preview") BY <1>2 DEF SelAs
  <1>5. \A x \in cs : /\ IsCall(f[x]) /\ f[x].kind = x.kind /\ f[x].mine = x.mine
                      /\ f[x].sel => x.sel
    BY <1>2
  <1>6. p.reading = p.reading /\ p.previewing = p.previewing OBVIOUS
  <1> QED BY <1>1, <1>3, <1>4, <1>5, <1>6, CallsBecome

\* The selection is reset, the page waits for no read and no preview.
LEMMA CallsSuperseded ==
    ASSUME NEW p, NEW q, NEW cs, NEW rs, PageOK(p, cs, rs), Settled(q, p),
           q.reading = FALSE, q.previewing = FALSE
    PROVE  PageOK(q, Superseded(cs), rs)
  <1> DEFINE f == [x \in cs |-> [x EXCEPT !.sel = FALSE]]
  <1>1. f \in [cs -> Superseded(cs)] /\ Superseded(cs) = Image(f, cs) BY DEF Image, Superseded
  <1>2. \A x \in cs : IsCall(f[x]) /\ f[x].kind = x.kind /\ f[x].mine = x.mine /\ ~f[x].sel
    <2> SUFFICES ASSUME NEW x \in cs
                 PROVE  IsCall(f[x]) /\ f[x].kind = x.kind /\ f[x].mine = x.mine /\ ~f[x].sel
      OBVIOUS
    <2> QED BY SelCleared DEF PageOK, Shapes
  <1> HIDE DEF f
  <1>3. SelNone(f, cs, "read") /\ SelNone(f, cs, "preview") BY <1>2 DEF SelNone
  <1> QED BY <1>1, <1>2, <1>3, CallsBecome

\* A preview is closed, the page waits for none.
LEMMA PreviewIsClosed ==
    ASSUME NEW p, NEW q, NEW cs, NEW rs, PageOK(p, cs, rs), Settled(q, p),
           q.reading = p.reading, q.previewing = FALSE
    PROVE  PageOK(q, PreviewClosed(cs), rs)
  <1> DEFINE f == [x \in cs |-> IF x.kind = "preview" THEN [x EXCEPT !.sel = FALSE] ELSE x]
  <1>1. f \in [cs -> PreviewClosed(cs)] /\ PreviewClosed(cs) = Image(f, cs)
    BY DEF Image, PreviewClosed
  <1>2. \A x \in cs : /\ IsCall(f[x]) /\ f[x].kind = x.kind /\ f[x].mine = x.mine
                      /\ IF x.kind = "preview" THEN ~f[x].sel ELSE f[x].sel = x.sel
    <2> SUFFICES ASSUME NEW x \in cs
                 PROVE  /\ IsCall(f[x]) /\ f[x].kind = x.kind /\ f[x].mine = x.mine
                        /\ IF x.kind = "preview" THEN ~f[x].sel ELSE f[x].sel = x.sel
      OBVIOUS
    <2>1. CASE x.kind = "preview" BY <2>1, SelCleared DEF PageOK, Shapes
    <2>2. CASE x.kind # "preview" BY <2>2 DEF PageOK, Shapes
    <2> QED BY <2>1, <2>2
  <1> HIDE DEF f
  <1>3. SelAs(f, cs, "read") /\ SelNone(f, cs, "preview") BY <1>2 DEF SelNone, SelAs
  <1>4. \A x \in cs : /\ IsCall(f[x]) /\ f[x].kind = x.kind /\ f[x].mine = x.mine
                      /\ f[x].sel => x.sel
    BY <1>2
  <1> QED BY <1>1, <1>3, <1>4, CallsBecome

\* A call is over, and the page does not wait for it any more.
LEMMA CallEnds ==
    ASSUME NEW p, NEW q, NEW cs, NEW rs, PageOK(p, cs, rs), NEW c \in cs,
           IsPanel(q), q.at = p.at, q.refreshing = p.refreshing,
           q.writing = (p.writing /\ ~(c.mine /\ c.kind \in WriteKinds)),
           q.cancelling = (p.cancelling /\ ~(c.mine /\ c.kind = "cancel")),
           q.reading = (p.reading /\ ~(c.sel /\ c.kind = "read")),
           q.previewing = (p.previewing /\ ~(c.sel /\ c.kind = "preview"))
    PROVE  PageOK(q, cs \ {c}, rs)
  <1> DEFINE ds == cs \ {c}
  <1>1. Shapes(q, ds, rs) /\ Refreshing(q, rs) BY DEF PageOK, Shapes, Refreshing
  <1>2. ASSUME NEW kinds, AtMostOne(Own(cs, kinds))
        PROVE  /\ AtMostOne(Own(ds, kinds))
               /\ c.mine /\ c.kind \in kinds => Own(cs, kinds) # {} /\ Own(ds, kinds) = {}
               /\ ~(c.mine /\ c.kind \in kinds) => Own(ds, kinds) = Own(cs, kinds)
    BY <1>2 DEF Own, AtMostOne
  <1>3. ASSUME NEW kind, AtMostOne(Chosen(cs, kind))
        PROVE  /\ AtMostOne(Chosen(ds, kind))
               /\ c.sel /\ c.kind = kind => Chosen(ds, kind) = {}
               /\ ~(c.sel /\ c.kind = kind) => Chosen(ds, kind) = Chosen(cs, kind)
    BY <1>3 DEF Chosen, AtMostOne
  <1> HIDE DEF ds
  <1>4. Exact(q.writing, ds, rs, WriteKinds, "writing") BY <1>2 DEF PageOK, Buttons, Exact
  <1>5. Exact(q.cancelling, ds, rs, {"cancel"}, "cancelling")
    <2>1. AtMostOne(Own(cs, {"cancel"})) BY DEF PageOK, Buttons, Exact
    <2>2. c.kind \in {"cancel"} <=> c.kind = "cancel" OBVIOUS
    <2> QED BY <1>2, <2>1, <2>2 DEF PageOK, Buttons, Exact
  <1>6. Selection(q, ds) BY <1>3 DEF PageOK, Selection
  <1> QED BY <1>1, <1>4, <1>5, <1>6 DEF PageOK, Buttons, ds

\* One that no button and no selection waits for.
LEMMA LateCallEnds ==
    ASSUME NEW p, NEW cs, NEW rs, PageOK(p, cs, rs), NEW c \in cs, ~c.mine
    PROVE  PageOK(p, cs \ {c}, rs)
  <1>1. ~c.sel /\ IsPanel(p) BY DEF PageOK, Shapes
  <1> QED BY <1>1, CallEnds DEF IsPanel

\* A call that a button waits for leaves it to a refresh to enable the button.
Frees(c) == IF c.kind = "cancel" THEN "cancelling" ELSE "writing"
LEMMA CallEndsInRefresh ==
    ASSUME NEW p, NEW q, NEW cs, NEW rs, PageOK(p, cs, rs), NEW c \in cs, c.mine,
           c.kind \in WriteKinds \cup {"cancel"}, p.refreshing = FALSE,
           NEW r, IsRefresh(r), r.mine, r.frees = Frees(c),
           IsPanel(q), q.at = p.at, q.refreshing = TRUE, q.reading = p.reading,
           q.writing = p.writing, q.cancelling = p.cancelling, q.previewing = p.previewing
    PROVE  PageOK(q, cs \ {c}, rs \cup {r})
  <1> DEFINE ds == cs \ {c}  ss == rs \cup {r}
  <1>1. Shapes(q, ds, ss) BY DEF PageOK, Shapes
  <1>2. Mine(rs) = {} BY DEF PageOK, Refreshing
  <1>3. Mine(ss) = {r} BY <1>2 DEF Mine
  <1>4. Refreshing(q, ss) BY <1>3 DEF Refreshing, AtMostOne
  <1>5. ASSUME NEW frees
        PROVE Ends(rs, frees) = {} /\ Ends(ss, frees) = IF r.frees = frees THEN {r} ELSE {}
    BY <1>2 DEF Ends, Mine
  <1>6. ASSUME NEW kinds, AtMostOne(Own(cs, kinds))
        PROVE  /\ AtMostOne(Own(ds, kinds))
               /\ c.kind \in kinds => Own(cs, kinds) # {} /\ Own(ds, kinds) = {}
               /\ c.kind \notin kinds => Own(ds, kinds) = Own(cs, kinds)
    BY <1>6 DEF Own, AtMostOne
  <1>7. ASSUME NEW kind, kind \in {"read", "preview"} PROVE Chosen(ds, kind) = Chosen(cs, kind)
    BY <1>7 DEF Chosen
  <1> HIDE DEF ds, ss
  <1>8. Exact(q.writing, ds, ss, WriteKinds, "writing")
    BY <1>5, <1>6 DEF PageOK, Buttons, Exact, Frees
  <1>9. Exact(q.cancelling, ds, ss, {"cancel"}, "cancelling")
    <2>1. AtMostOne(Own(cs, {"cancel"})) BY DEF PageOK, Buttons, Exact
    <2>2. c.kind \in {"cancel"} <=> c.kind = "cancel" OBVIOUS
    <2> QED BY <1>5, <1>6, <2>1, <2>2 DEF PageOK, Buttons, Exact, Frees
  <1>10. Selection(q, ds) BY <1>7 DEF PageOK, Selection
  <1> QED BY <1>1, <1>4, <1>8, <1>9, <1>10 DEF PageOK, Buttons, ds, ss

\* The page asks for something, and waits for it.
LEMMA CallBegins ==
    ASSUME NEW p, NEW q, NEW cs, NEW rs, PageOK(p, cs, rs), p.at = "here",
           NEW c, IsCall(c), c.mine, c.sel,
           \/ c.kind \in WriteKinds /\ p.writing = FALSE /\ q.writing = TRUE
           \/ c.kind \notin WriteKinds /\ q.writing = p.writing,
           \/ c.kind = "cancel" /\ p.cancelling = FALSE /\ q.cancelling = TRUE
           \/ c.kind # "cancel" /\ q.cancelling = p.cancelling,
           \/ c.kind = "read" /\ p.reading = FALSE /\ q.reading = TRUE
           \/ c.kind # "read" /\ q.reading = p.reading,
           \/ c.kind = "preview" /\ p.previewing = FALSE /\ q.previewing = TRUE
           \/ c.kind # "preview" /\ q.previewing = p.previewing,
           IsPanel(q), q.at = p.at, q.refreshing = p.refreshing
    PROVE  PageOK(q, cs \cup {c}, rs)
  <1> DEFINE ds == cs \cup {c}
  <1>1. Shapes(q, ds, rs) /\ Refreshing(q, rs) BY DEF PageOK, Shapes, Refreshing
  <1>2. ASSUME NEW kinds
        PROVE Own(ds, kinds) = Own(cs, kinds) \cup (IF c.kind \in kinds THEN {c} ELSE {})
    BY DEF Own
  <1>3. ASSUME NEW kind
        PROVE Chosen(ds, kind) = Chosen(cs, kind) \cup (IF c.kind = kind THEN {c} ELSE {})
    BY DEF Chosen
  <1> HIDE DEF ds
  <1>4. Exact(q.writing, ds, rs, WriteKinds, "writing")
    BY <1>2 DEF PageOK, Buttons, Exact, AtMostOne
  <1>5. Exact(q.cancelling, ds, rs, {"cancel"}, "cancelling")
    <2>2. c.kind \in {"cancel"} <=> c.kind = "cancel" OBVIOUS
    <2> QED BY <1>2, <2>2 DEF PageOK, Buttons, Exact, AtMostOne
  <1>6. Selection(q, ds) BY <1>3, ZenonT(60) DEF PageOK, Selection, AtMostOne
  <1> QED BY <1>1, <1>4, <1>5, <1>6 DEF PageOK, Buttons, ds

\* A refresh begins that enables nothing.
LEMMA RefreshBegins ==
    ASSUME NEW p, NEW q, NEW cs, NEW rs, PageOK(p, cs, rs), p.at = "here", p.refreshing = FALSE,
           NEW r, IsRefresh(r), r.mine, r.frees = "nothing",
           IsPanel(q), q.at = p.at, q.refreshing = TRUE, q.reading = p.reading,
           q.writing = p.writing, q.cancelling = p.cancelling, q.previewing = p.previewing
    PROVE  PageOK(q, cs, rs \cup {r})
  <1> DEFINE ss == rs \cup {r}
  <1>1. Shapes(q, cs, ss) /\ Selection(q, cs) BY DEF PageOK, Shapes, Selection
  <1>2. Mine(rs) = {} BY DEF PageOK, Refreshing
  <1>3. Mine(ss) = {r} BY <1>2 DEF Mine
  <1>4. Refreshing(q, ss) BY <1>3 DEF Refreshing, AtMostOne
  <1>5. Ends(ss, "writing") = Ends(rs, "writing") /\ Ends(ss, "cancelling") = Ends(rs, "cancelling")
    BY DEF Ends
  <1> HIDE DEF ss
  <1>6. Buttons(q, cs, ss) BY <1>5 DEF PageOK, Buttons, Exact
  <1> QED BY <1>1, <1>4, <1>6 DEF PageOK, ss

\* Refreshes that go on, for the same page and to enable the same button.
LEMMA RefreshesContinue ==
    ASSUME NEW p, NEW cs, NEW rs, NEW ss, PageOK(p, cs, rs),
           NEW f \in [rs -> ss], ss = Image(f, rs),
           \A r \in rs : IsRefresh(f[r]) /\ f[r].mine = r.mine /\ f[r].frees = r.frees
    PROVE  PageOK(p, cs, ss)
  <1>1. Shapes(p, cs, ss) BY DEF PageOK, Shapes, Image
  <1>2. ASSUME NEW frees
        PROVE  (Ends(ss, frees) # {}) = (Ends(rs, frees) # {})
    BY DEF Ends, Image
  <1>3. /\ (Mine(ss) # {}) = (Mine(rs) # {})
        /\ AtMostOne(Mine(rs)) => AtMostOne(Mine(ss))
    BY DEF Mine, Image, AtMostOne
  <1> HIDE DEF Image
  <1>4. Buttons(p, cs, ss) BY <1>2 DEF PageOK, Buttons, Exact
  <1>5. Refreshing(p, ss) BY <1>3 DEF PageOK, Refreshing
  <1> QED BY <1>1, <1>4, <1>5 DEF PageOK

LEMMA RefreshMoves ==
    ASSUME NEW p, NEW cs, NEW rs, PageOK(p, cs, rs), NEW r \in rs, NEW s, IsRefresh(s),
           s.mine = r.mine, s.frees = r.frees
    PROVE  PageOK(p, cs, (rs \ {r}) \cup {s})
  <1> DEFINE ss == (rs \ {r}) \cup {s}
             f == [x \in rs |-> IF x = r THEN s ELSE x]
  <1>1. f \in [rs -> ss] /\ ss = Image(f, rs) BY DEF Image
  <1>2. \A x \in rs : IsRefresh(f[x]) /\ f[x].mine = x.mine /\ f[x].frees = x.frees
    BY DEF PageOK, Shapes
  <1> HIDE DEF f, ss
  <1>3. PageOK(p, cs, ss) BY <1>1, <1>2, RefreshesContinue
  <1> QED BY <1>3 DEF ss

LEMMA RefreshSameCleared ==
    ASSUME NEW r, IsRefresh(r), NEW s, s = [r EXCEPT !.same = FALSE]
    PROVE  IsRefresh(s) /\ s.mine = r.mine /\ s.frees = r.frees
  BY DEF IsRefresh

LEMMA RefreshesReassigned ==
    ASSUME NEW p, NEW cs, NEW rs, PageOK(p, cs, rs)
    PROVE  PageOK(p, cs, Reassigned(rs))
  <1> DEFINE f == [x \in rs |-> [x EXCEPT !.same = FALSE]]
  <1>1. f \in [rs -> Reassigned(rs)] /\ Reassigned(rs) = Image(f, rs) BY DEF Image, Reassigned
  <1>2. \A x \in rs : IsRefresh(f[x]) /\ f[x].mine = x.mine /\ f[x].frees = x.frees
    <2> SUFFICES ASSUME NEW x \in rs
                 PROVE  IsRefresh(f[x]) /\ f[x].mine = x.mine /\ f[x].frees = x.frees
      OBVIOUS
    <2> QED BY RefreshSameCleared DEF PageOK, Shapes
  <1> HIDE DEF f
  <1> QED BY <1>1, <1>2, RefreshesContinue

\* A refresh is over, and has enabled the button that waited for it.
LEMMA RefreshEnds ==
    ASSUME NEW p, NEW q, NEW cs, NEW rs, PageOK(p, cs, rs), NEW r \in rs,
           IsPanel(q), q.at = p.at, q.reading = p.reading, q.previewing = p.previewing,
           q.refreshing = (p.refreshing /\ ~r.mine),
           q.writing = (p.writing /\ ~(r.mine /\ r.frees = "writing")),
           q.cancelling = (p.cancelling /\ ~(r.mine /\ r.frees = "cancelling"))
    PROVE  PageOK(q, cs, rs \ {r})
  <1> DEFINE ss == rs \ {r}
  <1>1. Shapes(q, cs, ss) /\ Selection(q, cs) BY DEF PageOK, Shapes, Selection
  <1>2. /\ AtMostOne(Mine(rs)) /\ AtMostOne(Mine(ss))
        /\ r.mine => Mine(rs) # {} /\ Mine(ss) = {}
        /\ ~r.mine => Mine(ss) = Mine(rs)
    BY DEF PageOK, Refreshing, Mine, AtMostOne
  <1>3. Refreshing(q, ss) BY <1>2 DEF PageOK, Refreshing
  <1>4. ASSUME NEW frees
        PROVE  /\ r.mine /\ r.frees = frees => Ends(rs, frees) # {} /\ Ends(ss, frees) = {}
               /\ ~(r.mine /\ r.frees = frees) => Ends(ss, frees) = Ends(rs, frees)
    BY <1>2 DEF Ends, Mine
  <1> HIDE DEF ss
  <1>5. Buttons(q, cs, ss) BY <1>4 DEF PageOK, Buttons, Exact
  <1> QED BY <1>1, <1>3, <1>5 DEF PageOK, ss

-----------------------------------------------------------------------------
(* The steps                                                                 *)

BusyInv == PageOK(panel, calls, refreshes)

LEMMA NewCallIsCall ==
    ASSUME NEW kind, NEW o, NEW base, NEW at, NEW c, c = NewCall(kind, o, base, at)
    PROVE  IsCall(c) /\ c.kind = kind /\ c.mine /\ c.sel /\ c.o = o /\ c.id = inputs'
  BY DEF NewCall, IsCall

LEMMA NewRefreshIsRefresh ==
    ASSUME NEW p, NEW frees, NEW run, NEW r, r = NewRefresh(p, frees, run)
    PROVE  IsRefresh(r) /\ r.mine /\ r.frees = frees /\ r.run = run
  BY DEF NewRefresh, IsRefresh

LEMMA PanelReleased ==
    ASSUME NEW p, IsPanel(p), NEW frees, NEW q, q = Released(p, frees)
    PROVE  /\ IsPanel(q) /\ q.at = p.at /\ q.reading = p.reading /\ q.previewing = p.previewing
           /\ q.refreshing = p.refreshing
           /\ q.writing = (p.writing /\ frees # "writing")
           /\ q.cancelling = (p.cancelling /\ frees # "cancelling")
  BY DEF IsPanel, Released

LEMMA PanelRefreshing ==
    ASSUME NEW p, IsPanel(p), NEW q, q = [p EXCEPT !.refreshing = TRUE]
    PROVE  /\ IsPanel(q) /\ q.at = p.at /\ q.reading = p.reading
           /\ q.previewing = p.previewing /\ q.refreshing = TRUE
           /\ q.writing = p.writing /\ q.cancelling = p.cancelling
  BY DEF IsPanel

LEMMA EmptyPanelIsPanel ==
    ASSUME NEW at, NEW p, p = EmptyPanel(at)
    PROVE  /\ IsPanel(p) /\ p.at = at /\ p.refreshing = FALSE /\ p.reading = FALSE
           /\ p.writing = FALSE /\ p.cancelling = FALSE /\ p.previewing = FALSE
  BY DEF IsPanel, EmptyPanel

LEMMA InitBusy == ASSUME Init PROVE BusyInv
  <1> DEFINE p == EmptyPanel("here")  q == [p EXCEPT !.refreshing = TRUE]
             r == NewRefresh(p, "nothing", Null)
  <1>1. panel = q /\ calls = {} /\ refreshes = {r} BY DEF Init
  <1>2. /\ IsPanel(q) /\ q.at = "here" /\ q.refreshing = TRUE /\ q.reading = FALSE
        /\ q.writing = FALSE /\ q.cancelling = FALSE /\ q.previewing = FALSE
    <2>1. IsPanel(p) /\ p.at = "here" /\ p.reading = FALSE /\ p.writing = FALSE
          /\ p.cancelling = FALSE /\ p.previewing = FALSE
      BY EmptyPanelIsPanel
    <2> HIDE DEF p
    <2> QED BY <2>1, PanelRefreshing, ZenonT(60)
  <1>3. IsRefresh(r) /\ r.mine /\ r.frees = "nothing" BY NewRefreshIsRefresh
  <1> HIDE DEF p, q, r
  <1>4. Mine({r}) = {r} /\ Ends({r}, "writing") = {} /\ Ends({r}, "cancelling") = {}
    BY <1>3 DEF Mine, Ends
  <1>5. Shapes(q, {}, {r}) BY <1>2, <1>3 DEF Shapes
  <1>6. Buttons(q, {}, {r}) /\ Selection(q, {})
    BY <1>2, <1>4 DEF Buttons, Exact, Own, Selection, Chosen, AtMostOne
  <1>7. Refreshing(q, {r}) BY <1>2, <1>4 DEF Refreshing, AtMostOne
  <1> QED BY <1>1, <1>5, <1>6, <1>7 DEF BusyInv, PageOK

\* The caller of a refresh has ended.
LEMMA ThenRefreshed ==
    ASSUME NEW p, NEW rs, NEW cs, NEW c \in cs, NEW run, PageOK(p, cs, rs), c.mine,
           c.kind \in WriteKinds \cup {"cancel"}, ThenRefresh(p, rs, Frees(c), run)
    PROVE  PageOK(panel', cs \ {c}, refreshes')
  <1>1. IsPanel(p) /\ c.mine BY DEF PageOK, Shapes
  <1>2. CASE p.refreshing
    <2>1. panel' = Released(p, Frees(c)) /\ refreshes' = rs BY <1>2 DEF ThenRefresh
    <2> HIDE DEF ThenRefresh
    <2>2. /\ IsPanel(panel') /\ panel'.at = p.at /\ panel'.reading = p.reading
          /\ panel'.previewing = p.previewing /\ panel'.refreshing = p.refreshing
          /\ panel'.writing = (p.writing /\ Frees(c) # "writing")
          /\ panel'.cancelling = (p.cancelling /\ Frees(c) # "cancelling")
      BY <1>1, <2>1, PanelReleased
    <2>3. (Frees(c) = "writing") = (c.kind \in WriteKinds) /\ (Frees(c) = "cancelling") = (c.kind = "cancel")
      BY DEF Frees
    <2>4. c.kind # "read" /\ c.kind # "preview" OBVIOUS
    <2>5. /\ panel'.writing = (p.writing /\ ~(c.mine /\ c.kind \in WriteKinds))
          /\ panel'.cancelling = (p.cancelling /\ ~(c.mine /\ c.kind = "cancel"))
          /\ panel'.reading = (p.reading /\ ~(c.sel /\ c.kind = "read"))
          /\ panel'.previewing = (p.previewing /\ ~(c.sel /\ c.kind = "preview"))
      BY <1>1, <2>2, <2>3, <2>4 DEF IsPanel
    <2>6. PageOK(panel', cs \ {c}, rs) BY <2>2, <2>5, CallEnds
    <2> QED BY <2>1, <2>6
  <1>3. CASE ~p.refreshing
    <2> DEFINE r == NewRefresh(p, Frees(c), run)
    <2>1. panel' = [p EXCEPT !.refreshing = TRUE] /\ refreshes' = rs \cup {r}
      BY <1>3 DEF ThenRefresh
    <2>2. /\ IsPanel(panel') /\ panel'.at = p.at /\ panel'.reading = p.reading
          /\ panel'.previewing = p.previewing /\ panel'.refreshing = TRUE
          /\ panel'.writing = p.writing /\ panel'.cancelling = p.cancelling
      BY <1>1, <2>1, PanelRefreshing
    <2>3. IsRefresh(r) /\ r.mine /\ r.frees = Frees(c) BY NewRefreshIsRefresh
    <2>4. p.refreshing = FALSE BY <1>1, <1>3 DEF IsPanel
    <2> HIDE DEF r
    <2>5. PageOK(panel', cs \ {c}, rs \cup {r}) BY <2>2, <2>3, <2>4, CallEndsInRefresh
    <2> QED BY <2>1, <2>5
  <1> QED BY <1>2, <1>3

-----------------------------------------------------------------------------
(* What users do                                                             *)

LEMMA PanelDeselected ==
    ASSUME NEW p, IsPanel(p), NEW q, q = Deselected(p)
    PROVE  Settled(q, p) /\ q.reading = FALSE /\ q.previewing = FALSE
  BY DEF Deselected, Settled, IsPanel

LEMMA PanelEstimateClosed ==
    ASSUME NEW p, IsPanel(p), NEW q, q = [p EXCEPT !.estimate = Null, !.previewing = FALSE]
    PROVE  Settled(q, p) /\ q.reading = p.reading /\ q.previewing = FALSE
  BY DEF Settled, IsPanel

LEMMA ClickBusy == ASSUME BusyInv, NEW o \in Orders, Click(o) PROVE BusyInv'
  <1> DEFINE q == Deselected(panel)  c == NewCall("read", o, Null, "native")
  <1>1. IsPanel(panel) /\ PageOK(panel, calls, refreshes) BY DEF BusyInv, PageOK, Shapes
  <1>2. Settled(q, panel) /\ q.reading = FALSE /\ q.previewing = FALSE BY <1>1, PanelDeselected
  <1>3. PageOK(q, Superseded(calls), refreshes) BY <1>1, <1>2, CallsSuperseded
  <1>4. IsCall(c) /\ c.kind = "read" /\ c.mine /\ c.sel BY NewCallIsCall
  <1>5. q.at = "here" /\ refreshes' = refreshes BY <1>2 DEF Click, Input, Here, Settled
  <1>6. \/ panel' = q /\ calls' = Superseded(calls)
        \/ panel' = [q EXCEPT !.reading = TRUE] /\ calls' = Superseded(calls) \cup {c}
    BY DEF Click
  <1> HIDE DEF q, c
  <1>7. CASE panel' = q /\ calls' = Superseded(calls) BY <1>3, <1>5, <1>7 DEF BusyInv
  <1>8. CASE panel' = [q EXCEPT !.reading = TRUE] /\ calls' = Superseded(calls) \cup {c}
    <2>1. /\ IsPanel(panel') /\ panel'.at = q.at /\ panel'.refreshing = q.refreshing
          /\ panel'.writing = q.writing /\ panel'.cancelling = q.cancelling
          /\ panel'.reading = TRUE /\ panel'.previewing = q.previewing
      BY <1>2, <1>8 DEF IsPanel, Settled
    <2>2. PageOK(panel', Superseded(calls) \cup {c}, refreshes)
      BY <1>2, <1>3, <1>4, <1>5, <2>1, CallBegins
    <2> QED BY <1>5, <1>8, <2>2 DEF BusyInv
  <1> QED BY <1>6, <1>7, <1>8

LEMMA WritesBusy ==
    ASSUME BusyInv, Here, NEW kind \in WriteKinds, NEW o, NEW base, NEW at,
           Writes(kind, o, base, at)
    PROVE  BusyInv'
  <1> DEFINE c == NewCall(kind, o, base, at)
  <1>1. PageOK(panel, calls, refreshes) /\ IsPanel(panel) /\ panel.at = "here"
    BY DEF BusyInv, PageOK, Shapes, Here
  <1>2. IsCall(c) /\ c.kind = kind /\ c.mine /\ c.sel BY NewCallIsCall
  <1>3. /\ panel' = [panel EXCEPT !.writing = TRUE] /\ calls' = calls \cup {c}
        /\ refreshes' = refreshes /\ panel.writing = FALSE
    BY <1>1 DEF Writes, IsPanel
  <1> HIDE DEF c
  <1>4. /\ IsPanel(panel') /\ panel'.at = panel.at /\ panel'.refreshing = panel.refreshing
        /\ panel'.writing = TRUE /\ panel'.cancelling = panel.cancelling
        /\ panel'.reading = panel.reading /\ panel'.previewing = panel.previewing
    BY <1>1, <1>3 DEF IsPanel
  <1>5. c.kind # "cancel" /\ c.kind # "read" /\ c.kind # "preview" BY <1>2
  <1>6. PageOK(panel', calls \cup {c}, refreshes) BY <1>1, <1>2, <1>3, <1>4, <1>5, CallBegins
  <1> QED BY <1>3, <1>6 DEF BusyInv

LEMMA PreviewBusy == ASSUME BusyInv, Preview PROVE BusyInv'
  <1> DEFINE c == NewCall("preview", panel.shown.o, panel.shown.w, "answer")
  <1>1. PageOK(panel, calls, refreshes) /\ IsPanel(panel) /\ panel.at = "here"
    BY DEF BusyInv, PageOK, Shapes, Here, Preview
  <1>2. IsCall(c) /\ c.kind = "preview" /\ c.mine /\ c.sel BY NewCallIsCall
  <1>3. /\ panel' = [panel EXCEPT !.previewing = TRUE] /\ calls' = calls \cup {c}
        /\ refreshes' = refreshes /\ panel.previewing = FALSE
    BY <1>1 DEF Preview, IsPanel
  <1> HIDE DEF c
  <1>4. /\ IsPanel(panel') /\ panel'.at = panel.at /\ panel'.refreshing = panel.refreshing
        /\ panel'.writing = panel.writing /\ panel'.cancelling = panel.cancelling
        /\ panel'.reading = panel.reading /\ panel'.previewing = TRUE
    BY <1>1, <1>3 DEF IsPanel
  <1>5. PageOK(panel', calls \cup {c}, refreshes) BY <1>1, <1>2, <1>3, <1>4, CallBegins
  <1> QED BY <1>3, <1>5 DEF BusyInv

LEMMA ClosePreviewBusy == ASSUME BusyInv, ClosePreview PROVE BusyInv'
  <1>1. PageOK(panel, calls, refreshes) /\ IsPanel(panel) BY DEF BusyInv, PageOK, Shapes
  <1>2. /\ panel' = [panel EXCEPT !.estimate = Null, !.previewing = FALSE]
        /\ calls' = PreviewClosed(calls) /\ refreshes' = refreshes
    BY DEF ClosePreview
  <1>3. Settled(panel', panel) /\ panel'.reading = panel.reading /\ panel'.previewing = FALSE
    BY <1>1, <1>2, PanelEstimateClosed
  <1> QED BY <1>1, <1>2, <1>3, PreviewIsClosed DEF BusyInv

LEMMA TokenSet ==
    ASSUME NEW c, IsCall(c), NEW token, NEW d, d = [c EXCEPT !.token = token]
    PROVE  Continues(c, d)
  BY DEF IsCall, Continues

LEMMA ConfirmBusy == ASSUME BusyInv, Confirm PROVE BusyInv'
  <1> DEFINE q == [panel EXCEPT !.estimate = Null, !.previewing = FALSE]
             c == NewCall("execute", panel.shown.o, panel.shown.w, "context")
             d == [c EXCEPT !.token = panel.estimate]
  <1>1. PageOK(panel, calls, refreshes) /\ IsPanel(panel) /\ panel.at = "here"
    BY DEF BusyInv, PageOK, Shapes, Here, Confirm, Input
  <1>2. /\ panel' = [panel EXCEPT !.writing = TRUE, !.estimate = Null, !.previewing = FALSE]
        /\ calls' = PreviewClosed(calls) \cup {d}
        /\ refreshes' = refreshes /\ panel.writing = FALSE
    BY <1>1 DEF Confirm, IsPanel
  <1>3. IsCall(c) /\ c.kind = "execute" /\ c.mine /\ c.sel BY NewCallIsCall
  <1>4. Settled(q, panel) /\ q.reading = panel.reading /\ q.previewing = FALSE
    BY <1>1, PanelEstimateClosed
  <1>5. /\ IsPanel(panel') /\ panel'.at = panel.at /\ panel'.refreshing = panel.refreshing
        /\ panel'.writing = TRUE /\ panel'.cancelling = panel.cancelling
        /\ panel'.reading = panel.reading /\ panel'.previewing = FALSE
    BY <1>1, <1>2 DEF IsPanel
  <1> HIDE DEF q, c
  <1>6. IsCall(d) /\ d.kind = "execute" /\ d.mine /\ d.sel BY <1>3, TokenSet DEF Continues
  <1> HIDE DEF d
  <1>7. PageOK(q, PreviewClosed(calls), refreshes) BY <1>1, <1>4, PreviewIsClosed
  <1>8. /\ q.at = "here" /\ q.writing = FALSE /\ q.refreshing = panel.refreshing
        /\ q.cancelling = panel.cancelling
    BY <1>1, <1>2, <1>4 DEF Settled
  <1>9. PageOK(panel', PreviewClosed(calls) \cup {d}, refreshes)
    BY <1>1, <1>4, <1>5, <1>6, <1>7, <1>8, CallBegins
  <1> QED BY <1>2, <1>9 DEF BusyInv

LEMMA CancelBusy == ASSUME BusyInv, Cancel PROVE BusyInv'
  <1> DEFINE c == NewCall("cancel", panel.shown.o, panel.shown.w, "native")
             d == [c EXCEPT !.token = ids[c.o]]
  <1>1. PageOK(panel, calls, refreshes) /\ IsPanel(panel) /\ panel.at = "here"
    BY DEF BusyInv, PageOK, Shapes, Here, Cancel, Input
  <1>2. /\ panel' = [panel EXCEPT !.cancelling = TRUE] /\ calls' = calls \cup {d}
        /\ refreshes' = refreshes /\ panel.cancelling = FALSE
    BY <1>1 DEF Cancel, IsPanel
  <1>3. IsCall(c) /\ c.kind = "cancel" /\ c.mine /\ c.sel BY NewCallIsCall
  <1>4. /\ IsPanel(panel') /\ panel'.at = panel.at /\ panel'.refreshing = panel.refreshing
        /\ panel'.writing = panel.writing /\ panel'.cancelling = TRUE
        /\ panel'.reading = panel.reading /\ panel'.previewing = panel.previewing
    BY <1>1, <1>2 DEF IsPanel
  <1> HIDE DEF c
  <1>5. IsCall(d) /\ d.kind = "cancel" /\ d.mine /\ d.sel BY <1>3, TokenSet DEF Continues
  <1> HIDE DEF d
  <1>6. PageOK(panel', calls \cup {d}, refreshes) BY <1>1, <1>2, <1>4, <1>5, CallBegins
  <1> QED BY <1>2, <1>6 DEF BusyInv

LEMMA EditDialogBusy == ASSUME BusyInv, OpenEdit \/ CloseEdit PROVE BusyInv'
  <1>1. PageOK(panel, calls, refreshes) /\ IsPanel(panel) BY DEF BusyInv, PageOK, Shapes
  <1>2. PICK dialog : panel' = [panel EXCEPT !.editing = dialog] BY DEF OpenEdit, CloseEdit
  <1>3. SameFlags(panel, panel') BY <1>1, <1>2 DEF SameFlags, IsPanel
  <1> QED BY <1>1, <1>3, Redisplayed DEF BusyInv, OpenEdit, CloseEdit

LEMMA RefreshBusy == ASSUME BusyInv, Refresh PROVE BusyInv'
  <1> DEFINE r == NewRefresh(panel, "nothing", Null)
  <1>1. PageOK(panel, calls, refreshes) /\ IsPanel(panel) /\ panel.at = "here"
    BY DEF BusyInv, PageOK, Shapes, Here, Refresh
  <1>2. /\ panel' = [panel EXCEPT !.refreshing = TRUE] /\ refreshes' = refreshes \cup {r}
        /\ calls' = calls /\ panel.refreshing = FALSE
    BY <1>1 DEF Refresh, IsPanel
  <1>3. IsRefresh(r) /\ r.mine /\ r.frees = "nothing" BY NewRefreshIsRefresh
  <1>4. /\ IsPanel(panel') /\ panel'.at = panel.at /\ panel'.reading = panel.reading
        /\ panel'.previewing = panel.previewing /\ panel'.refreshing = TRUE
        /\ panel'.writing = panel.writing /\ panel'.cancelling = panel.cancelling
    BY <1>1, <1>2, PanelRefreshing
  <1> HIDE DEF r
  <1>5. PageOK(panel', calls, refreshes \cup {r}) BY <1>1, <1>2, <1>3, <1>4, RefreshBegins
  <1> QED BY <1>2, <1>5 DEF BusyInv

\* Nothing that is under way is of the page any more.
LEMMA LeftBusy ==
    ASSUME NEW p, NEW cs, NEW rs, IsPanel(p), \A c \in cs : IsCall(c) /\ ~c.mine /\ ~c.sel,
           \A r \in rs : IsRefresh(r) /\ ~r.mine,
           p.refreshing = FALSE, p.reading = FALSE, p.writing = FALSE,
           p.cancelling = FALSE, p.previewing = FALSE
    PROVE  PageOK(p, cs, rs)
  <1>1. Mine(rs) = {} /\ Ends(rs, "writing") = {} /\ Ends(rs, "cancelling") = {} BY DEF Mine, Ends
  <1>2. Own(cs, WriteKinds) = {} /\ Own(cs, {"cancel"}) = {} BY DEF Own
  <1>3. Chosen(cs, "read") = {} /\ Chosen(cs, "preview") = {} BY DEF Chosen
  <1> QED BY <1>1, <1>2, <1>3 DEF PageOK, Shapes, Buttons, Exact, Refreshing, Selection, AtMostOne

LEMMA CallLeft ==
    ASSUME NEW c, IsCall(c), NEW d, d = [c EXCEPT !.mine = FALSE, !.sel = FALSE, !.same = FALSE]
    PROVE  IsCall(d) /\ ~d.mine /\ ~d.sel /\ d.kind = c.kind /\ d.id = c.id /\ d.o = c.o
  BY DEF IsCall

LEMMA RefreshLeft ==
    ASSUME NEW r, IsRefresh(r), NEW s, s = [r EXCEPT !.mine = FALSE, !.same = FALSE]
    PROVE  IsRefresh(s) /\ ~s.mine /\ s.run = r.run
  BY DEF IsRefresh

LEMMA LeaveBusy == ASSUME BusyInv, NEW at, Leave(at) PROVE BusyInv'
  <1>1. \A c \in calls' : IsCall(c) /\ ~c.mine /\ ~c.sel
    BY CallLeft DEF BusyInv, PageOK, Shapes, Leave
  <1>2. \A r \in refreshes' : IsRefresh(r) /\ ~r.mine
    BY RefreshLeft DEF BusyInv, PageOK, Shapes, Leave
  <1>3. /\ IsPanel(panel') /\ panel'.refreshing = FALSE /\ panel'.reading = FALSE
        /\ panel'.writing = FALSE /\ panel'.cancelling = FALSE /\ panel'.previewing = FALSE
    BY EmptyPanelIsPanel DEF Leave
  <1> QED BY <1>1, <1>2, <1>3, LeftBusy DEF BusyInv

LEMMA ReturnBusy == ASSUME BusyInv, Return PROVE BusyInv'
  <1> DEFINE p == EmptyPanel("here")  r == NewRefresh(p, "nothing", Null)
  <1>1. /\ panel' = [p EXCEPT !.refreshing = TRUE] /\ refreshes' = refreshes \cup {r}
        /\ calls' = calls
    BY DEF Return
  <1>2. /\ IsPanel(p) /\ p.at = "here" /\ p.refreshing = FALSE /\ p.reading = FALSE
        /\ p.writing = FALSE /\ p.cancelling = FALSE /\ p.previewing = FALSE
    BY EmptyPanelIsPanel
  <1>3. IsRefresh(r) /\ r.mine /\ r.frees = "nothing" BY NewRefreshIsRefresh
  <1> HIDE DEF p, r
  <1>4. /\ \A c \in calls : IsCall(c) /\ ~c.mine /\ ~c.sel
        /\ \A s \in refreshes : IsRefresh(s) /\ ~s.mine
    BY DEF BusyInv, PageOK, Shapes, Return, Here
  <1>5. PageOK(p, calls, refreshes) BY <1>2, <1>4, LeftBusy
  <1>6. /\ IsPanel(panel') /\ panel'.at = p.at /\ panel'.reading = p.reading
        /\ panel'.previewing = p.previewing /\ panel'.refreshing = TRUE
        /\ panel'.writing = p.writing /\ panel'.cancelling = p.cancelling
    BY <1>1, <1>2, PanelRefreshing
  <1>7. PageOK(panel', calls, refreshes \cup {r}) BY <1>2, <1>3, <1>5, <1>6, RefreshBegins
  <1> QED BY <1>1, <1>7 DEF BusyInv

LEMMA UserBusy == ASSUME BusyInv, User PROVE BusyInv'
  <1>1. ASSUME NEW o \in Orders, Create(o) \/ Delete(o) PROVE BusyInv'
    BY <1>1, WritesBusy DEF Create, Delete, Input
  <1>2. ASSUME Complete \/ SubmitEdit PROVE BusyInv'
    BY <1>2, WritesBusy DEF Complete, SubmitEdit, Input
  <1> QED BY <1>1, <1>2, ClickBusy, PreviewBusy, ClosePreviewBusy, ConfirmBusy, CancelBusy,
             EditDialogBusy, LeaveBusy, ReturnBusy DEF User

-----------------------------------------------------------------------------
(* What calls come to                                                        *)

LEMMA MovedBusy ==
    ASSUME BusyInv, NEW c \in calls, NEW d, Continues(c, d), Moved(c, d),
           panel' = panel, refreshes' = refreshes
    PROVE  BusyInv'
  BY Moves DEF BusyInv, Moved

LEMMA CallGoesTo ==
    ASSUME NEW c, IsCall(c), NEW at, NEW d, d = [c EXCEPT !.at = at]
    PROVE  Continues(c, d)
  BY DEF IsCall, Continues
LEMMA CallGetsResult ==
    ASSUME NEW c, IsCall(c), NEW at, NEW result, NEW d, d = [c EXCEPT !.at = at, !.result = result]
    PROVE  Continues(c, d)
  BY DEF IsCall, Continues
LEMMA CallHasSeen ==
    ASSUME NEW c, IsCall(c), NEW at, NEW seen, NEW d, d = [c EXCEPT !.at = at, !.seen = seen]
    PROVE  Continues(c, d)
  BY DEF IsCall, Continues

\* A step at the native side: the page does not notice.
NativeStep(c) ==
    \/ ReadAtNative(c) \/ RunBegins(c) \/ RunEnds(c)
    \/ CancelAtNative(c) \/ CancelReads(c) \/ CancelMarks(c) \/ SaveChecks(c) \/ Save(c)

LEMMA NativeMoves ==
    ASSUME NEW c \in calls, IsCall(c), NativeStep(c)
    PROVE  /\ panel' = panel /\ refreshes' = refreshes /\ ids' = ids /\ inputs' = inputs
           /\ clicked' = clicked
           /\ \E d : Moved(c, d) /\ Continues(c, d)
  <1>1. CASE ReadAtNative(c) BY <1>1, CallGetsResult DEF ReadAtNative
  <1>2. CASE RunBegins(c) BY <1>2, CallGoesTo DEF RunBegins
  <1>3. CASE RunEnds(c) BY <1>3, CallGetsResult, CallGoesTo DEF RunEnds
  <1>4. CASE CancelAtNative(c) BY <1>4, CallGoesTo DEF CancelAtNative
  <1>5. CASE CancelReads(c) BY <1>5, CallHasSeen, CallGoesTo DEF CancelReads
  <1>6. CASE CancelMarks(c) BY <1>6, CallGetsResult, CallGoesTo DEF CancelMarks
  <1>7. CASE SaveChecks(c) BY <1>7, CallHasSeen, CallGoesTo DEF SaveChecks
  <1>8. CASE Save(c) BY <1>8, CallGetsResult, CallGoesTo DEF Save
  <1> QED BY <1>1, <1>2, <1>3, <1>4, <1>5, <1>6, <1>7, <1>8 DEF NativeStep

LEMMA NativeBusy == ASSUME BusyInv, NEW c \in calls, NativeStep(c) PROVE BusyInv'
  <1>1. IsCall(c) BY DEF BusyInv, PageOK, Shapes
  <1> QED BY <1>1, NativeMoves, MovedBusy

LEMMA ReadAnswersBusy == ASSUME BusyInv, NEW c \in calls, ReadAnswers(c) PROVE BusyInv'
  <1>1. PageOK(panel, calls, refreshes) /\ IsPanel(panel) /\ IsCall(c) /\ (c.sel => c.mine)
    BY DEF BusyInv, PageOK, Shapes
  <1>2. c.kind = "read" BY DEF ReadAnswers
  <1>3. /\ IsPanel(panel') /\ panel'.at = panel.at /\ panel'.refreshing = panel.refreshing
        /\ panel'.writing = panel.writing /\ panel'.cancelling = panel.cancelling
        /\ panel'.reading = (panel.reading /\ ~c.sel)
        /\ panel'.previewing = panel.previewing
    <2>1. CASE c.mine /\ c.sel /\ c.result # Null
      <3>1. panel' = [panel EXCEPT !.shown = Display(c.o, c.result, TRUE), !.reading = FALSE]
        BY <2>1 DEF ReadAnswers
      <3> QED BY <1>1, <2>1, <3>1 DEF IsPanel
    <2>2. CASE ~(c.mine /\ c.sel /\ c.result # Null)
      <3>1. panel' = [panel EXCEPT !.reading = @ /\ ~(c.mine /\ c.sel)] BY <2>2 DEF ReadAnswers
      <3> QED BY <1>1, <2>2, <3>1 DEF IsPanel
    <2> QED BY <2>1, <2>2
  <1>4. /\ panel'.writing = (panel.writing /\ ~(c.mine /\ c.kind \in WriteKinds))
        /\ panel'.cancelling = (panel.cancelling /\ ~(c.mine /\ c.kind = "cancel"))
        /\ panel'.reading = (panel.reading /\ ~(c.sel /\ c.kind = "read"))
        /\ panel'.previewing = (panel.previewing /\ ~(c.sel /\ c.kind = "preview"))
    BY <1>1, <1>2, <1>3 DEF IsPanel
  <1>5. PageOK(panel', calls \ {c}, refreshes) BY <1>1, <1>3, <1>4, CallEnds
  <1>6. \/ calls' = calls \ {c} /\ refreshes' = refreshes
        \/ calls' = Reassigned(calls \ {c}) /\ refreshes' = Reassigned(refreshes)
    BY DEF ReadAnswers
  <1> QED BY <1>5, <1>6, CallsReassigned, RefreshesReassigned DEF BusyInv

LEMMA PreviewAnswersBusy == ASSUME BusyInv, NEW c \in calls, PreviewAnswers(c) PROVE BusyInv'
  <1>1. PageOK(panel, calls, refreshes) /\ IsPanel(panel) /\ IsCall(c) /\ (c.sel => c.mine)
    BY DEF BusyInv, PageOK, Shapes
  <1>2. c.kind = "preview" /\ calls' = calls \ {c} /\ refreshes' = refreshes BY DEF PreviewAnswers
  <1>3. PICK estimate :
           panel' = [panel EXCEPT !.estimate = estimate, !.previewing = @ /\ ~(c.mine /\ c.sel)]
    BY DEF PreviewAnswers
  <1>4. /\ IsPanel(panel') /\ panel'.at = panel.at /\ panel'.refreshing = panel.refreshing
        /\ panel'.writing = panel.writing /\ panel'.cancelling = panel.cancelling
        /\ panel'.reading = panel.reading
        /\ panel'.previewing = (panel.previewing /\ ~(c.mine /\ c.sel))
    BY <1>1, <1>3 DEF IsPanel
  <1>5. /\ panel'.writing = (panel.writing /\ ~(c.mine /\ c.kind \in WriteKinds))
        /\ panel'.cancelling = (panel.cancelling /\ ~(c.mine /\ c.kind = "cancel"))
        /\ panel'.reading = (panel.reading /\ ~(c.sel /\ c.kind = "read"))
        /\ panel'.previewing = (panel.previewing /\ ~(c.sel /\ c.kind = "preview"))
    BY <1>1, <1>2, <1>4 DEF IsPanel
  <1>6. PageOK(panel', calls \ {c}, refreshes) BY <1>1, <1>4, <1>5, CallEnds
  <1> QED BY <1>2, <1>6 DEF BusyInv

LEMMA RunSendsBusy == ASSUME BusyInv, NEW c \in calls, RunSends(c) PROVE BusyInv'
  <1> DEFINE d == [c EXCEPT !.at = "native"]  cs == (calls \ {c}) \cup {d}
  <1>1. PageOK(panel, calls, refreshes) /\ IsPanel(panel) /\ IsCall(c)
    BY DEF BusyInv, PageOK, Shapes
  <1>2. Continues(c, d) BY <1>1, CallGoesTo
  <1>3. \/ panel' = panel /\ calls' = cs /\ refreshes' = refreshes
        \/ /\ panel' = [panel EXCEPT !.shown.w = [c.base EXCEPT !.status = "running"]]
           /\ calls' = Reassigned(cs) /\ refreshes' = Reassigned(refreshes)
    BY DEF RunSends, Moved
  <1> HIDE DEF d
  <1>4. PageOK(panel, cs, refreshes) BY <1>1, <1>2, Moves
  <1> HIDE DEF cs
  <1>5. CASE panel' = panel /\ calls' = cs /\ refreshes' = refreshes BY <1>4, <1>5 DEF BusyInv
  <1>6. CASE /\ panel' = [panel EXCEPT !.shown.w = [c.base EXCEPT !.status = "running"]]
             /\ calls' = Reassigned(cs) /\ refreshes' = Reassigned(refreshes)
    <2>1. SameFlags(panel, panel') BY <1>1, <1>6 DEF SameFlags, IsPanel
    <2>2. PageOK(panel', cs, refreshes) BY <1>4, <2>1, Redisplayed
    <2> QED BY <1>6, <2>2, CallsReassigned, RefreshesReassigned DEF BusyInv
  <1> QED BY <1>3, <1>5, <1>6

\* An answer that the page shows, or not, and that a refresh follows.
LEMMA AnsweredBusy ==
    ASSUME BusyInv, NEW c \in calls, c.mine, c.kind \in WriteKinds \cup {"cancel"},
           NEW p, SameFlags(panel, p), NEW rs, rs \in {refreshes, Reassigned(refreshes)},
           NEW run, ThenRefresh(p, rs, Frees(c), run),
           calls' \in {calls \ {c}, Reassigned(calls \ {c})}
    PROVE  BusyInv'
  <1>1. PageOK(p, calls, rs) BY Redisplayed, RefreshesReassigned DEF BusyInv
  <1>2. PageOK(panel', calls \ {c}, refreshes') BY <1>1, ThenRefreshed
  <1> QED BY <1>2, CallsReassigned DEF BusyInv

LEMMA Unchanged == BusyInv => SameFlags(panel, panel)
  BY DEF BusyInv, PageOK, Shapes, SameFlags

LEMMA ShownChanges ==
    ASSUME NEW p, IsPanel(p), NEW w, NEW q, q = [p EXCEPT !.shown.w = w] \/ q = [p EXCEPT !.shown = w]
    PROVE  SameFlags(p, q)
  BY DEF IsPanel, SameFlags

LEMMA EditShown ==
    ASSUME NEW p, IsPanel(p), NEW d, NEW q, q = [p EXCEPT !.shown = d, !.editing = Null]
    PROVE  SameFlags(p, q)
  BY DEF IsPanel, SameFlags

LEMMA LateAnswerBusy ==
    ASSUME BusyInv, NEW c \in calls, ~c.mine, panel' = panel, refreshes' = refreshes,
           calls' = calls \ {c}
    PROVE  BusyInv'
  BY LateCallEnds DEF BusyInv

LEMMA RunAnswersBusy == ASSUME BusyInv, NEW c \in calls, RunAnswers(c) PROVE BusyInv'
  <1> DEFINE run == [o |-> c.o, id |-> c.id]
             w == IF c.result = Null THEN c.base ELSE c.result
             p == [panel EXCEPT !.shown.w = w]
  <1>1. c.kind = "execute" /\ c.kind \in WriteKinds /\ IsPanel(panel) /\ Frees(c) = "writing"
    BY DEF RunAnswers, BusyInv, PageOK, Shapes, Frees
  <1>2. \/ ~c.mine /\ calls' = calls \ {c} /\ panel' = panel /\ refreshes' = refreshes
        \/ /\ c.mine /\ calls' = Reassigned(calls \ {c})
           /\ ThenRefresh(p, Reassigned(refreshes), Frees(c), run)
        \/ /\ c.mine /\ calls' = calls \ {c} /\ ThenRefresh(panel, refreshes, Frees(c), run)
    BY <1>1 DEF RunAnswers
  <1>3. SameFlags(panel, p) BY <1>1, ShownChanges
  <1> HIDE DEF run, p
  <1> QED BY <1>1, <1>2, <1>3, LateAnswerBusy, AnsweredBusy, Unchanged

\* A call that failed enables its button itself.
LEMMA FailedBusy ==
    ASSUME BusyInv, NEW c \in calls, c.mine, c.kind \in WriteKinds \cup {"cancel"},
           calls' = calls \ {c}, panel' = Released(panel, Frees(c)), refreshes' = refreshes
    PROVE  BusyInv'
  <1>1. PageOK(panel, calls, refreshes) /\ IsPanel(panel) BY DEF BusyInv, PageOK, Shapes
  <1>2. /\ IsPanel(panel') /\ panel'.at = panel.at /\ panel'.reading = panel.reading
        /\ panel'.previewing = panel.previewing /\ panel'.refreshing = panel.refreshing
        /\ panel'.writing = (panel.writing /\ Frees(c) # "writing")
        /\ panel'.cancelling = (panel.cancelling /\ Frees(c) # "cancelling")
    BY <1>1, PanelReleased
  <1>3. /\ panel'.writing = (panel.writing /\ ~(c.mine /\ c.kind \in WriteKinds))
        /\ panel'.cancelling = (panel.cancelling /\ ~(c.mine /\ c.kind = "cancel"))
        /\ panel'.reading = (panel.reading /\ ~(c.sel /\ c.kind = "read"))
        /\ panel'.previewing = (panel.previewing /\ ~(c.sel /\ c.kind = "preview"))
    BY <1>1, <1>2 DEF Frees, IsPanel
  <1>4. PageOK(panel', calls \ {c}, refreshes) BY <1>1, <1>2, <1>3, CallEnds
  <1> QED BY <1>4 DEF BusyInv

LEMMA CancelAnswersBusy == ASSUME BusyInv, NEW c \in calls, CancelAnswers(c) PROVE BusyInv'
  <1> DEFINE p == [panel EXCEPT !.shown = Display(c.o, c.result, PathKnown(panel))]
  <1>1. c.kind = "cancel" /\ IsPanel(panel) /\ Frees(c) = "cancelling"
    BY DEF CancelAnswers, BusyInv, PageOK, Shapes, Frees
  <1>2. \/ ~c.mine /\ calls' = calls \ {c} /\ panel' = panel /\ refreshes' = refreshes
        \/ /\ c.mine /\ calls' = calls \ {c} /\ panel' = Released(panel, Frees(c))
           /\ refreshes' = refreshes
        \/ /\ c.mine /\ calls' = Reassigned(calls \ {c})
           /\ ThenRefresh(p, Reassigned(refreshes), Frees(c), Null)
        \/ /\ c.mine /\ calls' = calls \ {c} /\ ThenRefresh(panel, refreshes, Frees(c), Null)
    BY <1>1 DEF CancelAnswers
  <1>3. SameFlags(panel, p) BY <1>1, ShownChanges
  <1>4. c.kind \in WriteKinds \cup {"cancel"} BY <1>1
  <1> HIDE DEF p
  <1> QED BY <1>2, <1>3, <1>4, LateAnswerBusy, FailedBusy, AnsweredBusy, Unchanged

LEMMA SaveAnswersBusy == ASSUME BusyInv, NEW c \in calls, SaveAnswers(c) PROVE BusyInv'
  <1> DEFINE p == Shows(panel, c)
  <1>1. /\ c.kind \in {"complete", "edit", "create"} /\ IsPanel(panel) /\ Frees(c) = "writing"
        /\ c.kind \in WriteKinds \cup {"cancel"}
    BY DEF SaveAnswers, BusyInv, PageOK, Shapes, Frees
  <1>2. \/ ~c.mine /\ calls' = calls \ {c} /\ panel' = panel /\ refreshes' = refreshes
        \/ /\ c.mine /\ calls' = calls \ {c} /\ panel' = Released(panel, Frees(c))
           /\ refreshes' = refreshes
        \/ /\ c.mine /\ calls' = Reassigned(calls \ {c})
           /\ ThenRefresh(p, Reassigned(refreshes), Frees(c), Null)
        \/ /\ c.mine /\ calls' = calls \ {c} /\ ThenRefresh(panel, refreshes, Frees(c), Null)
    BY <1>1 DEF SaveAnswers
  <1>3. SameFlags(panel, p)
    <2>1. \/ p = [panel EXCEPT !.shown = Display(c.o, c.result, PathKnown(panel))]
          \/ p = [panel EXCEPT !.shown = Display(c.o, c.result, TRUE), !.editing = Null]
          \/ p = panel
      BY <1>1 DEF Shows
    <2> HIDE DEF p
    <2> QED BY <1>1, <2>1, ShownChanges, EditShown, Unchanged
  <1> HIDE DEF p
  <1> QED BY <1>1, <1>2, <1>3, LateAnswerBusy, FailedBusy, AnsweredBusy, Unchanged

LEMMA WritingEnds ==
    ASSUME NEW p, IsPanel(p), NEW q, q = [p EXCEPT !.writing = FALSE]
    PROVE  /\ IsPanel(q) /\ q.at = p.at /\ q.reading = p.reading /\ q.previewing = p.previewing
           /\ q.refreshing = p.refreshing /\ q.writing = FALSE /\ q.cancelling = p.cancelling
  BY DEF IsPanel
LEMMA ListShrinks ==
    ASSUME NEW p, IsPanel(p), NEW o, NEW q, q = [p EXCEPT !.list[o] = Null]
    PROVE  SameFlags(p, q)
  BY DEF IsPanel, SameFlags
LEMMA DisplayGone ==
    ASSUME NEW p, IsPanel(p), NEW q,
           q = [p EXCEPT !.shown = Null, !.estimate = Null, !.previewing = FALSE]
    PROVE  Settled(q, p) /\ q.reading = p.reading /\ q.previewing = FALSE
  BY DEF Settled, IsPanel

LEMMA DeleteAnswersBusy == ASSUME BusyInv, NEW c \in calls, DeleteAnswers(c) PROVE BusyInv'
  <1> DEFINE p == [panel EXCEPT !.writing = FALSE]
             q == [p EXCEPT !.list[c.o] = Null]
             s == [q EXCEPT !.shown = Null, !.estimate = Null, !.previewing = FALSE]
             cs == calls \ {c}
  <1>1. PageOK(panel, calls, refreshes) /\ IsPanel(panel) /\ c.kind = "delete"
    BY DEF BusyInv, PageOK, Shapes, DeleteAnswers
  <1>2. \/ ~c.mine /\ panel' = panel /\ calls' = cs
        \/ c.mine /\ panel' = p /\ calls' = cs
        \/ c.mine /\ panel' = q /\ calls' = cs
        \/ c.mine /\ panel' = s /\ calls' = PreviewClosed(Reassigned(cs))
    BY DEF DeleteAnswers
  <1>3. refreshes' \in {refreshes, Reassigned(refreshes)} BY DEF DeleteAnswers
  <1>4. /\ IsPanel(p) /\ p.at = panel.at /\ p.refreshing = panel.refreshing
        /\ p.reading = panel.reading /\ p.previewing = panel.previewing
        /\ p.writing = FALSE /\ p.cancelling = panel.cancelling
    BY <1>1, WritingEnds
  <1> HIDE DEF p
  <1>5. SameFlags(p, q) BY <1>4, ListShrinks
  <1>6. IsPanel(q) BY <1>5 DEF SameFlags
  <1> HIDE DEF q
  <1>7. Settled(s, q) /\ s.reading = q.reading /\ s.previewing = FALSE BY <1>6, DisplayGone
  <1> HIDE DEF s
  <1>8. ASSUME c.mine PROVE PageOK(p, cs, refreshes) /\ PageOK(q, cs, refreshes)
    <2>1. /\ p.writing = (panel.writing /\ ~(c.mine /\ c.kind \in WriteKinds))
          /\ p.cancelling = (panel.cancelling /\ ~(c.mine /\ c.kind = "cancel"))
          /\ p.reading = (panel.reading /\ ~(c.sel /\ c.kind = "read"))
          /\ p.previewing = (panel.previewing /\ ~(c.sel /\ c.kind = "preview"))
      BY <1>1, <1>4, <1>8 DEF IsPanel
    <2>2. PageOK(p, cs, refreshes) BY <1>1, <1>4, <2>1, CallEnds
    <2> HIDE DEF cs
    <2> QED BY <1>5, <2>2, Redisplayed
  <1>9. PageOK(panel', calls', refreshes)
    <2>1. CASE ~c.mine /\ panel' = panel /\ calls' = cs BY <1>1, <2>1, LateCallEnds
    <2>2. CASE c.mine /\ panel' \in {p, q} /\ calls' = cs BY <1>8, <2>2
    <2>3. CASE c.mine /\ panel' = s /\ calls' = PreviewClosed(Reassigned(cs))
      <3> HIDE DEF cs
      <3>1. PageOK(q, Reassigned(cs), refreshes) BY <1>8, <2>3, CallsReassigned
      <3>2. PageOK(s, PreviewClosed(Reassigned(cs)), refreshes) BY <1>7, <3>1, PreviewIsClosed
      <3> QED BY <2>3, <3>2
    <2> QED BY <1>2, <2>1, <2>2, <2>3
  <1> QED BY <1>3, <1>9, RefreshesReassigned DEF BusyInv

-----------------------------------------------------------------------------
(* What refreshes come to                                                    *)

\* A refresh that goes on, for the same page, to end the same call.
RefreshGoesOn(r, s) == IsRefresh(s) /\ s.mine = r.mine /\ s.frees = r.frees /\ s.run = r.run

LEMMA RefreshFailed ==
    ASSUME NEW r, IsRefresh(r), NEW s, s = [r EXCEPT !.at = "answer", !.failed = TRUE]
    PROVE  RefreshGoesOn(r, s)
  BY DEF IsRefresh, RefreshGoesOn
LEMMA RefreshHasRead ==
    ASSUME NEW r, IsRefresh(r), NEW at, NEW cards, NEW stale, NEW s,
           s = [r EXCEPT !.at = at, !.cards = cards, !.stale = stale]
    PROVE  RefreshGoesOn(r, s)
  BY DEF IsRefresh, RefreshGoesOn
LEMMA RefreshHasStale ==
    ASSUME NEW r, IsRefresh(r), NEW at, NEW stale, NEW s,
           s = [r EXCEPT !.at = at, !.stale = stale]
    PROVE  RefreshGoesOn(r, s)
  BY DEF IsRefresh, RefreshGoesOn
LEMMA RefreshHasSeen ==
    ASSUME NEW r, IsRefresh(r), NEW at, NEW seen, NEW s,
           s = [r EXCEPT !.at = at, !.seen = seen]
    PROVE  RefreshGoesOn(r, s)
  BY DEF IsRefresh, RefreshGoesOn
LEMMA RefreshHasMarked ==
    ASSUME NEW r, IsRefresh(r), NEW at, NEW stale, NEW fixed, NEW s,
           s = [r EXCEPT !.at = at, !.stale = stale, !.seen = Null, !.fixed = fixed]
    PROVE  RefreshGoesOn(r, s)
  BY DEF IsRefresh, RefreshGoesOn
LEMMA RefreshHasCards ==
    ASSUME NEW r, IsRefresh(r), NEW at, NEW cards, NEW s,
           s = [r EXCEPT !.at = at, !.cards = cards]
    PROVE  RefreshGoesOn(r, s)
  BY DEF IsRefresh, RefreshGoesOn

\* A step of a refresh before it answers: the page does not notice.
InnerStep(r) ==
    \/ RefreshFails(r) \/ RefreshReads(r) \/ RefreshInspects(r)
    \/ (\E o \in Orders : RefreshReadsStale(r, o))
    \/ RefreshMarks(r) \/ RefreshRereads(r)

LEMMA InnerMoves ==
    ASSUME NEW r \in refreshes, IsRefresh(r), InnerStep(r)
    PROVE  /\ panel' = panel /\ calls' = calls /\ ids' = ids /\ inputs' = inputs
           /\ clicked' = clicked
           /\ \E s : Goes(r, s) /\ RefreshGoesOn(r, s)
  <1>0. panel' = panel /\ calls' = calls /\ ids' = ids /\ inputs' = inputs /\ clicked' = clicked
    BY DEF InnerStep, RefreshFails, RefreshReads, RefreshInspects, RefreshReadsStale, RefreshMarks,
      RefreshRereads, OnlyRefreshes
  <1>1. CASE RefreshFails(r) BY <1>0, <1>1, RefreshFailed DEF RefreshFails
  <1>2. CASE RefreshReads(r) BY <1>0, <1>2, RefreshHasRead DEF RefreshReads
  <1>3. CASE RefreshInspects(r) BY <1>0, <1>3, RefreshHasStale DEF RefreshInspects
  <1>4. ASSUME NEW o \in Orders, RefreshReadsStale(r, o)
        PROVE  \E s : Goes(r, s) /\ RefreshGoesOn(r, s)
    <2>1. CASE file[o].status = "running" BY <1>4, <2>1, RefreshHasSeen DEF RefreshReadsStale
    <2>2. CASE file[o].status # "running" BY <1>4, <2>2, RefreshHasStale DEF RefreshReadsStale
    <2> QED BY <2>1, <2>2
  <1>5. CASE RefreshMarks(r)
    <2>1. PICK at, stale, fixed :
             Goes(r, [r EXCEPT !.at = at, !.stale = stale, !.seen = Null, !.fixed = fixed])
      BY <1>5 DEF RefreshMarks
    <2> QED BY <1>0, <2>1, RefreshHasMarked
  <1>6. CASE RefreshRereads(r)
    <2>1. PICK cards : Goes(r, [r EXCEPT !.at = "answer", !.cards = cards])
      BY <1>6 DEF RefreshRereads
    <2> QED BY <1>0, <2>1, RefreshHasCards
  <1> QED BY <1>0, <1>1, <1>2, <1>3, <1>4, <1>5, <1>6 DEF InnerStep

LEMMA InnerBusy == ASSUME BusyInv, NEW r \in refreshes, InnerStep(r) PROVE BusyInv'
  <1>1. PageOK(panel, calls, refreshes) /\ IsRefresh(r) BY DEF BusyInv, PageOK, Shapes
  <1>2. panel' = panel /\ calls' = calls BY <1>1, InnerMoves
  <1>3. PICK s : Goes(r, s) /\ RefreshGoesOn(r, s) BY <1>1, InnerMoves
  <1>4. IsRefresh(s) /\ s.mine = r.mine /\ s.frees = r.frees BY <1>3 DEF RefreshGoesOn
  <1>5. PageOK(panel, calls, (refreshes \ {r}) \cup {s}) BY <1>1, <1>4, RefreshMoves
  <1> QED BY <1>2, <1>3, <1>5 DEF BusyInv, Goes

LEMMA RefreshOver ==
    ASSUME NEW p, IsPanel(p), NEW q, q = [p EXCEPT !.refreshing = FALSE]
    PROVE  /\ IsPanel(q) /\ q.at = p.at /\ q.reading = p.reading
           /\ q.previewing = p.previewing /\ q.refreshing = FALSE
           /\ q.writing = p.writing /\ q.cancelling = p.cancelling
  BY DEF IsPanel
LEMMA ListChanges ==
    ASSUME NEW p, IsPanel(p), NEW cards, NEW q, q = [p EXCEPT !.list = cards]
    PROVE  SameFlags(p, q)
  BY DEF IsPanel, SameFlags

LEMMA RefreshAnswersBusy == ASSUME BusyInv, NEW r \in refreshes, RefreshAnswers(r) PROVE BusyInv'
  <1> DEFINE o == [panel EXCEPT !.refreshing = FALSE]
             p == Released(o, r.frees)
             q == [p EXCEPT !.list = r.cards]
             rs == refreshes \ {r}
  <1>1. PageOK(panel, calls, refreshes) /\ IsPanel(panel) /\ IsRefresh(r)
    BY DEF BusyInv, PageOK, Shapes
  <1>2. /\ IsPanel(o) /\ o.at = panel.at /\ o.reading = panel.reading
        /\ o.previewing = panel.previewing /\ o.refreshing = FALSE
        /\ o.writing = panel.writing /\ o.cancelling = panel.cancelling
    BY <1>1, RefreshOver
  <1>3. \/ ~r.mine /\ panel' = panel /\ calls' = calls /\ refreshes' = rs
        \/ r.mine /\ panel' \in {p, q} /\ calls' = calls /\ refreshes' = rs
        \/ /\ r.mine /\ \E w : panel' = [q EXCEPT !.shown.w = w]
           /\ calls' = Reassigned(calls) /\ refreshes' = Reassigned(rs)
    <2>1. CASE ~r.mine BY <2>1 DEF RefreshAnswers
    <2>2. CASE r.mine /\ (r.failed \/ Recovered(r) = {}) BY <2>2 DEF RefreshAnswers
    <2>3. CASE r.mine /\ ~(r.failed \/ Recovered(r) = {})
      <3>1. \E f \in Recovered(r) : panel' = [q EXCEPT !.shown.w = f.w] BY <2>3 DEF RefreshAnswers
      <3>2. calls' = Reassigned(calls) /\ refreshes' = Reassigned(rs) BY <2>3 DEF RefreshAnswers
      <3> HIDE DEF q, rs
      <3> QED BY <2>3, <3>1, <3>2
    <2> QED BY <2>1, <2>2, <2>3
  <1> HIDE DEF o
  <1>4. /\ IsPanel(p) /\ p.at = o.at /\ p.reading = o.reading /\ p.previewing = o.previewing
        /\ p.refreshing = o.refreshing
        /\ p.writing = (o.writing /\ r.frees # "writing")
        /\ p.cancelling = (o.cancelling /\ r.frees # "cancelling")
    BY <1>2, PanelReleased
  <1> HIDE DEF p
  <1>5. SameFlags(p, q) BY <1>4, ListChanges
  <1>6. IsPanel(q) BY <1>5 DEF SameFlags
  <1> HIDE DEF q
  <1>7. CASE ~r.mine /\ panel' = panel /\ calls' = calls /\ refreshes' = rs
    <2>1. /\ panel.refreshing = (panel.refreshing /\ ~r.mine)
          /\ panel.writing = (panel.writing /\ ~(r.mine /\ r.frees = "writing"))
          /\ panel.cancelling = (panel.cancelling /\ ~(r.mine /\ r.frees = "cancelling"))
      BY <1>1, <1>7 DEF IsPanel
    <2>2. PageOK(panel, calls, refreshes \ {r}) BY <1>1, <2>1, RefreshEnds
    <2> QED BY <1>7, <2>2 DEF BusyInv
  <1>8. ASSUME r.mine PROVE PageOK(p, calls, rs) /\ PageOK(q, calls, rs)
    <2>1. /\ p.refreshing = (panel.refreshing /\ ~r.mine)
          /\ p.writing = (panel.writing /\ ~(r.mine /\ r.frees = "writing"))
          /\ p.cancelling = (panel.cancelling /\ ~(r.mine /\ r.frees = "cancelling"))
      BY <1>2, <1>4, <1>8 DEF IsPanel
    <2>2. p.at = panel.at /\ p.reading = panel.reading /\ p.previewing = panel.previewing
      BY <1>2, <1>4
    <2>3. PageOK(p, calls, refreshes \ {r}) BY <1>1, <1>4, <2>1, <2>2, RefreshEnds
    <2> QED BY <1>5, <2>3, Redisplayed
  <1> HIDE DEF rs
  <1>9. CASE r.mine /\ panel' \in {p, q} /\ calls' = calls /\ refreshes' = rs
    BY <1>8, <1>9 DEF BusyInv
  <1>10. CASE /\ r.mine /\ \E w : panel' = [q EXCEPT !.shown.w = w]
              /\ calls' = Reassigned(calls) /\ refreshes' = Reassigned(rs)
    <2>1. SameFlags(q, panel') BY <1>6, <1>10, ShownChanges
    <2>2. PageOK(panel', calls, rs) BY <1>8, <1>10, <2>1, Redisplayed
    <2> QED BY <1>10, <2>2, CallsReassigned, RefreshesReassigned DEF BusyInv
  <1> QED BY <1>3, <1>7, <1>9, <1>10

-----------------------------------------------------------------------------
(* The buttons are exact                                                     *)

LEMMA NextBusy == BusyInv /\ [Next]_vars => BusyInv'
  <1> SUFFICES ASSUME BusyInv, [Next]_vars PROVE BusyInv' OBVIOUS
  <1>1. CASE UNCHANGED vars BY <1>1 DEF vars, BusyInv
  <1>2. ASSUME NEW o \in Orders, Outside(o) PROVE BusyInv' BY <1>2 DEF Outside, BusyInv
  <1>3. ASSUME NEW c \in calls, CallStep(c) PROVE BusyInv'
    BY <1>3, NativeBusy, ReadAnswersBusy, PreviewAnswersBusy, RunSendsBusy, RunAnswersBusy,
      CancelAnswersBusy, SaveAnswersBusy, DeleteAnswersBusy DEF CallStep, NativeStep
  <1>4. ASSUME NEW r \in refreshes, RefreshStep(r) PROVE BusyInv'
    BY <1>4, InnerBusy, RefreshAnswersBusy DEF RefreshStep, InnerStep
  <1> QED BY <1>1, <1>2, <1>3, <1>4, UserBusy, RefreshBusy DEF Next

LEMMA AtMostOneIsOne == ASSUME NEW S, AtMostOne(S) PROVE IsFiniteSet(S) /\ Cardinality(S) <= 1
  <1>1. CASE S = {} BY <1>1, FS_EmptySet
  <1>2. CASE S # {}
    <2>1. PICK x : x \in S BY <1>2
    <2>2. S = {x} BY <2>1 DEF AtMostOne
    <2>3. IsFiniteSet({x}) /\ Cardinality({x}) = 1 BY FS_Singleton
    <2> QED BY <2>2, <2>3
  <1> QED BY <1>1, <1>2

LEMMA BusyIsExactHolds == BusyInv => BusyIsExact
  <1> SUFFICES ASSUME BusyInv PROVE BusyIsExact OBVIOUS
  <1>1. /\ Keeping(WriteKinds, "writing") = Own(calls, WriteKinds) \cup Ends(refreshes, "writing")
        /\ Keeping({"cancel"}, "cancelling") = Own(calls, {"cancel"}) \cup Ends(refreshes, "cancelling")
    BY DEF Keeping, Own, Ends, Mine
  <1>2. AtMostOne(Ends(refreshes, "writing")) /\ AtMostOne(Ends(refreshes, "cancelling"))
    BY DEF BusyInv, PageOK, Refreshing, AtMostOne, Mine, Ends
  <1>3. /\ panel.writing = (Keeping(WriteKinds, "writing") # {})
        /\ panel.cancelling = (Keeping({"cancel"}, "cancelling") # {})
        /\ AtMostOne(Keeping(WriteKinds, "writing"))
        /\ AtMostOne(Keeping({"cancel"}, "cancelling"))
    <2>1. ASSUME NEW flag, NEW kinds, NEW frees, Exact(flag, calls, refreshes, kinds, frees),
                 AtMostOne(Ends(refreshes, frees)), NEW K,
                 K = Own(calls, kinds) \cup Ends(refreshes, frees)
          PROVE  flag = (K # {}) /\ AtMostOne(K)
      BY <2>1 DEF Exact, AtMostOne
    <2> QED BY <1>1, <1>2, <2>1 DEF BusyInv, PageOK, Buttons
  <1>4. panel.refreshing = (Mine(refreshes) # {}) /\ AtMostOne(Mine(refreshes))
    BY DEF BusyInv, PageOK, Refreshing
  <1>5. /\ panel.reading = (\E c \in calls : c.kind = "read" /\ c.sel)
        /\ panel.previewing = (\E c \in calls : c.kind = "preview" /\ c.sel)
    BY DEF BusyInv, PageOK, Selection, Chosen
  <1> QED BY <1>3, <1>4, <1>5, AtMostOneIsOne DEF BusyIsExact

\* The buttons of the queue panel are disabled exactly as long as what they began, or the
\* refresh that ends it, is under way for the page that is shown, and there is at most one
\* of each: whatever is answered late, dropped or fails, and however often it is left.
THEOREM ButtonsAreExact == Spec => []BusyIsExact
  <1>1. Init => BusyInv BY InitBusy
  <1> QED BY <1>1, NextBusy, BusyIsExactHolds, PTL DEF Spec

-----------------------------------------------------------------------------
(* The identifiers of runs: no two runs under way share one, and a refresh   *)
(* that is to forget one was asked for when its run had answered.            *)

Runs(cs) == {c \in cs : c.kind = "execute"}
IdsOK(cs, rs, n) ==
    /\ \A c \in Runs(cs) : c.id \in Nat /\ c.id <= n
    /\ \A c, d \in Runs(cs) : c.id = d.id => c = d
    /\ \A r \in rs : r.run # Null =>
          r.run.id \in Nat /\ r.run.id <= n /\ \A c \in Runs(cs) : c.id # r.run.id

LEMMA FewerIds ==
    ASSUME NEW cs, NEW rs, NEW n, IdsOK(cs, rs, n), NEW ds \in SUBSET cs, NEW ss \in SUBSET rs
    PROVE  IdsOK(ds, ss, n)
  BY DEF IdsOK, Runs

LEMMA LaterIds ==
    ASSUME NEW cs, NEW rs, NEW n \in Nat, IdsOK(cs, rs, n), NEW m \in Nat, n <= m
    PROVE  IdsOK(cs, rs, m)
  BY DEF IdsOK, Runs

LEMMA IdsOfCalls ==
    ASSUME NEW cs, NEW rs, NEW n, IdsOK(cs, rs, n), NEW ds, NEW f \in [cs -> ds],
           ds = Image(f, cs), \A c \in cs : f[c].kind = c.kind /\ f[c].id = c.id
    PROVE  IdsOK(ds, rs, n)
  <1>1. \A d \in Runs(ds) : \E c \in Runs(cs) : d = f[c] /\ d.id = c.id BY DEF Runs, Image
  <1>2. \A d \in Runs(ds) : d.id \in Nat /\ d.id <= n BY <1>1 DEF IdsOK
  <1>3. ASSUME NEW d \in Runs(ds), NEW e \in Runs(ds), d.id = e.id PROVE d = e
    <2>1. PICK c \in Runs(cs) : d = f[c] /\ d.id = c.id BY <1>1
    <2>2. PICK b \in Runs(cs) : e = f[b] /\ e.id = b.id BY <1>1
    <2>3. c = b BY <1>3, <2>1, <2>2 DEF IdsOK
    <2> QED BY <2>1, <2>2, <2>3
  <1>4. ASSUME NEW r \in rs, r.run # Null
        PROVE  r.run.id \in Nat /\ r.run.id <= n /\ \A d \in Runs(ds) : d.id # r.run.id
    BY <1>1, <1>4 DEF IdsOK
  <1> HIDE DEF Runs, Image
  <1>5. \A d, e \in Runs(ds) : d.id = e.id => d = e BY <1>3
  <1>6. \A r \in rs : r.run # Null =>
           r.run.id \in Nat /\ r.run.id <= n /\ \A d \in Runs(ds) : d.id # r.run.id
    BY <1>4
  <1> QED BY <1>2, <1>5, <1>6 DEF IdsOK

LEMMA IdsOfRefreshes ==
    ASSUME NEW cs, NEW rs, NEW n, IdsOK(cs, rs, n), NEW ss,
           \A s \in ss : s.run = Null \/ \E r \in rs : s.run = r.run
    PROVE  IdsOK(cs, ss, n)
  BY DEF IdsOK

LEMMA IdsOfOther ==
    ASSUME NEW cs, NEW rs, NEW n, IdsOK(cs, rs, n), NEW c, c.kind # "execute"
    PROVE  IdsOK(cs \cup {c}, rs, n)
  <1>1. Runs(cs \cup {c}) = Runs(cs) BY DEF Runs
  <1> QED BY <1>1 DEF IdsOK

LEMMA IdOfNewRun ==
    ASSUME NEW cs, NEW rs, NEW n \in Nat, IdsOK(cs, rs, n), NEW c, c.id = n + 1
    PROVE  IdsOK(cs \cup {c}, rs, n + 1)
  <1> DEFINE R == Runs(cs)  S == Runs(cs \cup {c})
  <1>1. \A d \in S : d \in R \/ d = c BY DEF Runs
  <1>2. \A d \in R : d.id \in Nat /\ d.id <= n BY DEF IdsOK
  <1>3. \A d, e \in R : d.id = e.id => d = e BY DEF IdsOK
  <1>4. \A r \in rs : r.run # Null =>
           r.run.id \in Nat /\ r.run.id <= n /\ \A d \in R : d.id # r.run.id
    BY DEF IdsOK
  <1> HIDE DEF R, S
  <1>5. \A d \in R : d.id <= n + 1 /\ d.id # n + 1 BY <1>2
  <1>6. \A d \in S : d.id \in Nat /\ d.id <= n + 1 BY <1>1, <1>2, <1>5
  <1>7. \A d, e \in S : d.id = e.id => d = e BY <1>1, <1>3, <1>5
  <1>8. ASSUME NEW r \in rs, r.run # Null
        PROVE  /\ r.run.id \in Nat /\ r.run.id <= n + 1
               /\ \A d \in S : d.id # r.run.id
    <2>1. r.run.id \in Nat /\ r.run.id <= n /\ \A d \in R : d.id # r.run.id BY <1>4, <1>8
    <2>2. r.run.id # n + 1 /\ r.run.id <= n + 1 BY <2>1
    <2> QED BY <1>1, <2>1, <2>2
  <1>9. \A r \in rs : r.run # Null =>
           r.run.id \in Nat /\ r.run.id <= n + 1 /\ \A d \in S : d.id # r.run.id
    BY <1>8
  <1> QED BY <1>6, <1>7, <1>9 DEF IdsOK, S

LEMMA IdsReassigned ==
    ASSUME NEW cs, NEW rs, NEW n, IdsOK(cs, rs, n), \A c \in cs : IsCall(c)
    PROVE  IdsOK(Reassigned(cs), rs, n)
  <1> DEFINE f == [x \in cs |-> [x EXCEPT !.same = FALSE]]
  <1>1. f \in [cs -> Reassigned(cs)] /\ Reassigned(cs) = Image(f, cs) BY DEF Image, Reassigned
  <1>2. \A x \in cs : f[x].kind = x.kind /\ f[x].id = x.id BY DEF IsCall
  <1> HIDE DEF f
  <1> QED BY <1>1, <1>2, IdsOfCalls

LEMMA IdsSuperseded ==
    ASSUME NEW cs, NEW rs, NEW n, IdsOK(cs, rs, n), \A c \in cs : IsCall(c)
    PROVE  IdsOK(Superseded(cs), rs, n)
  <1> DEFINE f == [x \in cs |-> [x EXCEPT !.sel = FALSE]]
  <1>1. f \in [cs -> Superseded(cs)] /\ Superseded(cs) = Image(f, cs) BY DEF Image, Superseded
  <1>2. \A x \in cs : f[x].kind = x.kind /\ f[x].id = x.id BY DEF IsCall
  <1> HIDE DEF f
  <1> QED BY <1>1, <1>2, IdsOfCalls

LEMMA IdsPreviewClosed ==
    ASSUME NEW cs, NEW rs, NEW n, IdsOK(cs, rs, n), \A c \in cs : IsCall(c)
    PROVE  IdsOK(PreviewClosed(cs), rs, n)
  <1> DEFINE f == [x \in cs |-> IF x.kind = "preview" THEN [x EXCEPT !.sel = FALSE] ELSE x]
  <1>1. f \in [cs -> PreviewClosed(cs)] /\ PreviewClosed(cs) = Image(f, cs)
    BY DEF Image, PreviewClosed
  <1>2. \A x \in cs : f[x].kind = x.kind /\ f[x].id = x.id BY DEF IsCall
  <1> HIDE DEF f
  <1> QED BY <1>1, <1>2, IdsOfCalls

LEMMA IdsLeft ==
    ASSUME NEW cs, NEW rs, NEW n, IdsOK(cs, rs, n), \A c \in cs : IsCall(c)
    PROVE  IdsOK({[c EXCEPT !.mine = FALSE, !.sel = FALSE, !.same = FALSE] : c \in cs}, rs, n)
  <1> DEFINE ds == {[c EXCEPT !.mine = FALSE, !.sel = FALSE, !.same = FALSE] : c \in cs}
             f == [x \in cs |-> [x EXCEPT !.mine = FALSE, !.sel = FALSE, !.same = FALSE]]
  <1>1. f \in [cs -> ds] /\ ds = Image(f, cs) BY DEF Image
  <1>2. \A x \in cs : f[x].kind = x.kind /\ f[x].id = x.id
    <2> SUFFICES ASSUME NEW x \in cs PROVE f[x].kind = x.kind /\ f[x].id = x.id OBVIOUS
    <2> QED BY CallLeft
  <1> HIDE DEF f
  <1> HIDE DEF ds
  <1>3. IdsOK(ds, rs, n) BY <1>1, <1>2, IdsOfCalls
  <1> QED BY <1>3 DEF ds

LEMMA IdsMove ==
    ASSUME NEW cs, NEW rs, NEW n, IdsOK(cs, rs, n), NEW c \in cs, NEW d,
           d.kind = c.kind, d.id = c.id
    PROVE  IdsOK((cs \ {c}) \cup {d}, rs, n)
  <1> DEFINE ds == (cs \ {c}) \cup {d}
             f == [x \in cs |-> IF x = c THEN d ELSE x]
  <1>1. f \in [cs -> ds] /\ ds = Image(f, cs) BY DEF Image
  <1>2. \A x \in cs : f[x].kind = x.kind /\ f[x].id = x.id OBVIOUS
  <1> HIDE DEF f, ds
  <1>3. IdsOK(ds, rs, n) BY <1>1, <1>2, IdsOfCalls
  <1> QED BY <1>3 DEF ds

IdsInv ==
    /\ IdsOK(calls, refreshes, inputs) /\ inputs \in Nat
    /\ ids = [o \in Orders |-> ids[o]]

\* What a step may do to the identifiers.
KeepsIds ==
    \A o \in Orders :
        ids[o] \in Executing /\ ids'[o] # ids[o]
            => ids'[o] = inputs' \/ ids[o] \notin Executing' \/ panel'.at = "closed"

LEMMA SameIds ==
    ASSUME IdsInv, ids' = ids, inputs' = inputs \/ inputs' = inputs + 1,
           IdsOK(calls', refreshes', inputs)
    PROVE  IdsInv' /\ KeepsIds
  <1>1. inputs \in Nat /\ inputs' \in Nat /\ inputs <= inputs' BY DEF IdsInv
  <1>2. IdsOK(calls', refreshes', inputs') BY <1>1, LaterIds
  <1> QED BY <1>1, <1>2 DEF IdsInv, KeepsIds

LEMMA Forgets ==
    ASSUME NEW js, js = [o \in Orders |-> js[o]], NEW run, NEW is, is = Forget(js, run)
    PROVE  /\ is = [o \in Orders |-> is[o]]
           /\ \A o \in Orders : is[o] # js[o] => run # Null /\ js[o] = run.id
  BY DEF Forget

LEMMA Forgotten ==
    ASSUME IdsInv, NEW run, ids' = Forget(ids, run), inputs' = inputs,
           IdsOK(calls', refreshes', inputs), run # Null => run.id \notin Executing'
    PROVE  IdsInv' /\ KeepsIds
  <1>1. /\ ids' = [o \in Orders |-> ids'[o]]
        /\ \A o \in Orders : ids'[o] # ids[o] => run # Null /\ ids[o] = run.id
    BY Forgets DEF IdsInv
  <1> QED BY <1>1 DEF IdsInv, KeepsIds

LEMMA RefreshesKeepRuns ==
    ASSUME NEW rs, \A r \in rs : IsRefresh(r), NEW s \in Reassigned(rs)
    PROVE  \E r \in rs : s.run = r.run
  <1>1. PICK r \in rs : s = [r EXCEPT !.same = FALSE] BY DEF Reassigned
  <1>2. s.run = r.run BY <1>1 DEF IsRefresh
  <1> QED BY <1>2

\* Calls that go on, with the refreshes as they are or compared anew.
LEMMA IdsAmong ==
    ASSUME NEW cs, NEW rs, NEW n, IdsOK(cs, rs, n), \A c \in cs : IsCall(c),
           \A r \in rs : IsRefresh(r), NEW ds \in {cs, Reassigned(cs)},
           NEW ss \in {rs, Reassigned(rs)}
    PROVE  IdsOK(ds, ss, n)
  <1>1. IdsOK(ds, rs, n) BY IdsReassigned
  <1>2. \A s \in ss : s.run = Null \/ \E r \in rs : s.run = r.run BY RefreshesKeepRuns
  <1> QED BY <1>1, <1>2, IdsOfRefreshes

LEMMA ShapesHold ==
    BusyInv => (\A c \in calls : IsCall(c)) /\ (\A r \in refreshes : IsRefresh(r))
  BY DEF BusyInv, PageOK, Shapes

LEMMA IdsWithout ==
    ASSUME BusyInv, IdsInv, NEW c \in calls, NEW ds \in {calls \ {c}, Reassigned(calls \ {c})},
           NEW ss \in {refreshes, Reassigned(refreshes)}
    PROVE  IdsOK(ds, ss, inputs)
  <1>1. IdsOK(calls \ {c}, refreshes, inputs) BY FewerIds DEF IdsInv
  <1>2. (\A d \in calls \ {c} : IsCall(d)) /\ (\A r \in refreshes : IsRefresh(r)) BY ShapesHold
  <1> DEFINE cs == calls \ {c}
  <1> HIDE DEF cs
  <1>3. IdsOK(cs, refreshes, inputs) /\ (\A d \in cs : IsCall(d)) /\ ds \in {cs, Reassigned(cs)}
    BY <1>1, <1>2 DEF cs
  <1> QED BY <1>2, <1>3, IdsAmong

\* A new refresh that is to forget no run.
LEMMA IdsWithRefresh ==
    ASSUME NEW cs, NEW rs, NEW n, IdsOK(cs, rs, n), NEW p, NEW frees
    PROVE  IdsOK(cs, rs \cup {NewRefresh(p, frees, Null)}, n)
  <1> DEFINE r == NewRefresh(p, frees, Null)
  <1>1. r.run = Null BY NewRefreshIsRefresh
  <1> HIDE DEF r
  <1>2. \A s \in rs \cup {r} : s.run = Null \/ \E q \in rs : s.run = q.run BY <1>1
  <1>3. IdsOK(cs, rs \cup {r}, n) BY <1>2, IdsOfRefreshes
  <1> QED BY <1>3 DEF r

LEMMA AnsweredIds ==
    ASSUME BusyInv, IdsInv, NEW c \in calls, NEW p, NEW frees,
           NEW rs \in {refreshes, Reassigned(refreshes)},
           ThenRefresh(p, rs, frees, Null), inputs' = inputs,
           calls' \in {calls \ {c}, Reassigned(calls \ {c})}
    PROVE  IdsInv' /\ KeepsIds
  <1>1. IdsOK(calls', rs, inputs) BY IdsWithout
  <1>2. ids' = ids /\ (refreshes' = rs \/ refreshes' = rs \cup {NewRefresh(p, frees, Null)})
    BY DEF ThenRefresh, Forget
  <1>3. IdsOK(calls', refreshes', inputs) BY <1>1, <1>2, IdsWithRefresh
  <1> QED BY <1>2, <1>3, SameIds

LEMMA RunAnswersIds == ASSUME BusyInv, IdsInv, NEW c \in calls, RunAnswers(c) PROVE IdsInv' /\ KeepsIds
  <1> DEFINE run == [o |-> c.o, id |-> c.id]
             w == IF c.result = Null THEN c.base ELSE c.result
             q == [panel EXCEPT !.shown.w = w]
  <1>1. c \in Runs(calls) /\ inputs' = inputs BY DEF RunAnswers, Runs
  <1>2. /\ calls' \in {calls \ {c}, Reassigned(calls \ {c})}
        /\ \/ refreshes' = refreshes /\ ids' = Forget(ids, run)
           \/ \E p \in {panel, q}, rs \in {refreshes, Reassigned(refreshes)} :
                ThenRefresh(p, rs, "writing", run)
    BY DEF RunAnswers
  <1>3. run.id = c.id OBVIOUS
  <1> HIDE DEF run, q
  <1>4. /\ \/ ids' = Forget(ids, run) /\ refreshes' \in {refreshes, Reassigned(refreshes)}
           \/ /\ ids' = ids
              /\ \E p, rs : /\ rs \in {refreshes, Reassigned(refreshes)}
                            /\ refreshes' = rs \cup {NewRefresh(p, "writing", run)}
    BY <1>2 DEF ThenRefresh
  <1>5. \A d \in Runs(calls') : d.id # c.id
    <2>1. \A d \in Runs(calls \ {c}) : d \in Runs(calls) /\ d # c BY DEF Runs
    <2>2. \A d \in Runs(calls \ {c}) : d.id # c.id BY <1>1, <2>1 DEF IdsInv, IdsOK
    <2>3. \A d \in Reassigned(calls \ {c}) : \E e \in calls \ {c} : d.kind = e.kind /\ d.id = e.id
      BY ShapesHold, SameCleared DEF Reassigned, Continues
    <2>4. \A d \in Runs(Reassigned(calls \ {c})) : d.id # c.id BY <2>2, <2>3 DEF Runs
    <2> QED BY <1>2, <2>2, <2>4
  <1>6. c.id \notin Executing' BY <1>5 DEF Executing, Runs
  <1>7. CASE ids' = Forget(ids, run) /\ refreshes' \in {refreshes, Reassigned(refreshes)}
    <2>1. IdsOK(calls', refreshes', inputs) BY <1>2, <1>7, IdsWithout
    <2> QED BY <1>1, <1>3, <1>6, <1>7, <2>1, Forgotten
  <1>8. CASE /\ ids' = ids
             /\ \E p, rs : /\ rs \in {refreshes, Reassigned(refreshes)}
                           /\ refreshes' = rs \cup {NewRefresh(p, "writing", run)}
    <2>1. PICK p, rs : /\ rs \in {refreshes, Reassigned(refreshes)}
                       /\ refreshes' = rs \cup {NewRefresh(p, "writing", run)}
      BY <1>8
    <2> DEFINE r == NewRefresh(p, "writing", run)
    <2>2. r.run = run BY NewRefreshIsRefresh
    <2> HIDE DEF r
    <2>3. IdsOK(calls', rs, inputs) BY <1>2, <2>1, IdsWithout
    <2>4. r.run.id = c.id /\ c.id \in Nat /\ c.id <= inputs BY <1>1, <1>3, <2>2 DEF IdsInv, IdsOK
    <2>5. IdsOK(calls', rs \cup {r}, inputs) BY <1>5, <2>3, <2>4 DEF IdsOK
    <2> QED BY <1>1, <1>8, <2>1, <2>5, SameIds DEF r
  <1> QED BY <1>4, <1>7, <1>8

LEMMA RefreshAnswersIds ==
    ASSUME BusyInv, IdsInv, NEW r \in refreshes, RefreshAnswers(r)
    PROVE  IdsInv' /\ KeepsIds
  <1> DEFINE rs == refreshes \ {r}
  <1>1. ids' = Forget(ids, r.run) /\ inputs' = inputs BY DEF RefreshAnswers
  <1>2. calls' \in {calls, Reassigned(calls)} /\ refreshes' \in {rs, Reassigned(rs)}
    BY DEF RefreshAnswers
  <1>3. IdsOK(calls, rs, inputs) /\ (\A c \in calls : IsCall(c)) /\ (\A s \in rs : IsRefresh(s))
    BY ShapesHold, FewerIds DEF IdsInv
  <1> HIDE DEF rs
  <1>4. IdsOK(calls', refreshes', inputs) BY <1>2, <1>3, IdsAmong
  <1>5. r.run # Null => \A c \in Runs(calls) : c.id # r.run.id BY DEF IdsInv, IdsOK
  <1>6. \A d \in Reassigned(calls) : \E c \in calls : d.kind = c.kind /\ d.id = c.id
    BY ShapesHold, SameCleared DEF Reassigned, Continues
  <1>7. \A d \in Runs(calls') : \E c \in Runs(calls) : d.id = c.id BY <1>2, <1>6 DEF Runs
  <1>8. r.run # Null => r.run.id \notin Executing' BY <1>5, <1>7 DEF Executing, Runs
  <1> QED BY <1>1, <1>4, <1>8, Forgotten

\* Anything else that a user asks for has no identifier to keep.
LEMMA BegunIds ==
    ASSUME IdsInv, NEW cs, IdsOK(cs, refreshes, inputs), NEW c, c.kind # "execute",
           calls' = cs \cup {c}, refreshes' = refreshes, ids' = ids,
           inputs' = inputs \/ inputs' = inputs + 1
    PROVE  IdsInv' /\ KeepsIds
  <1>1. IdsOK(calls', refreshes', inputs) BY IdsOfOther
  <1> QED BY <1>1, SameIds

LEMMA WritesIds ==
    ASSUME IdsInv, NEW kind \in WriteKinds \ {"execute"}, NEW o, NEW base, NEW at,
           Writes(kind, o, base, at), inputs' = inputs + 1
    PROVE  IdsInv' /\ KeepsIds
  <1> DEFINE c == NewCall(kind, o, base, at)
  <1>1. c.kind # "execute" BY NewCallIsCall
  <1>2. calls' = calls \cup {c} /\ refreshes' = refreshes /\ ids' = ids BY DEF Writes
  <1> HIDE DEF c
  <1> QED BY <1>1, <1>2, BegunIds DEF IdsInv

LEMMA ClickIds == ASSUME BusyInv, IdsInv, NEW o \in Orders, Click(o) PROVE IdsInv' /\ KeepsIds
  <1> DEFINE c == NewCall("read", o, Null, "native")
  <1>1. IdsOK(Superseded(calls), refreshes, inputs) BY ShapesHold, IdsSuperseded DEF IdsInv
  <1>2. c.kind # "execute" BY NewCallIsCall
  <1>3. /\ calls' = Superseded(calls) \/ calls' = Superseded(calls) \cup {c}
        /\ refreshes' = refreshes /\ ids' = ids /\ inputs' = inputs + 1
    BY DEF Click, Input
  <1> HIDE DEF c
  <1> QED BY <1>1, <1>2, <1>3, BegunIds, SameIds

LEMMA PreviewIds == ASSUME IdsInv, Preview PROVE IdsInv' /\ KeepsIds
  <1> DEFINE c == NewCall("preview", panel.shown.o, panel.shown.w, "answer")
  <1>1. c.kind # "execute" BY NewCallIsCall
  <1>2. calls' = calls \cup {c} /\ refreshes' = refreshes /\ ids' = ids /\ inputs' = inputs
    BY DEF Preview
  <1> HIDE DEF c
  <1> QED BY <1>1, <1>2, BegunIds DEF IdsInv

LEMMA CancelIds == ASSUME IdsInv, Cancel PROVE IdsInv' /\ KeepsIds
  <1> DEFINE c == NewCall("cancel", panel.shown.o, panel.shown.w, "native")
             d == [c EXCEPT !.token = ids[c.o]]
  <1>1. IsCall(c) /\ c.kind = "cancel" BY NewCallIsCall
  <1>2. calls' = calls \cup {d} /\ refreshes' = refreshes /\ ids' = ids /\ inputs' = inputs + 1
    BY DEF Cancel, Input
  <1> HIDE DEF c
  <1>3. d.kind # "execute" BY <1>1, TokenSet DEF Continues
  <1> HIDE DEF d
  <1> QED BY <1>2, <1>3, BegunIds DEF IdsInv

LEMMA ConfirmIds == ASSUME BusyInv, IdsInv, Confirm PROVE IdsInv' /\ KeepsIds
  <1> DEFINE c == NewCall("execute", panel.shown.o, panel.shown.w, "context")
             d == [c EXCEPT !.token = panel.estimate]
  <1>1. IsCall(c) /\ c.id = inputs' BY NewCallIsCall
  <1>2. /\ calls' = PreviewClosed(calls) \cup {d} /\ refreshes' = refreshes
        /\ inputs' = inputs + 1 /\ ids' = [ids EXCEPT ![panel.shown.o] = inputs']
    BY DEF Confirm, Input
  <1> HIDE DEF c
  <1>3. d.id = inputs + 1 BY <1>1, <1>2, TokenSet DEF Continues
  <1> HIDE DEF d
  <1>4. IdsOK(PreviewClosed(calls), refreshes, inputs) /\ inputs \in Nat
    BY ShapesHold, IdsPreviewClosed DEF IdsInv
  <1>5. IdsOK(calls', refreshes', inputs') BY <1>2, <1>3, <1>4, IdOfNewRun
  <1>6. ids' = [o \in Orders |-> ids'[o]] BY <1>2 DEF IdsInv
  <1>7. KeepsIds BY <1>2 DEF KeepsIds, IdsInv
  <1> QED BY <1>2, <1>4, <1>5, <1>6, <1>7 DEF IdsInv

LEMMA LeaveIds == ASSUME BusyInv, IdsInv, NEW at, Leave(at) PROVE IdsInv' /\ KeepsIds
  <1> DEFINE cs == {[c EXCEPT !.mine = FALSE, !.sel = FALSE, !.same = FALSE] : c \in calls}
  <1>1. calls' = cs /\ inputs' = inputs + 1 /\ panel' = EmptyPanel(at) /\ ids' = Kept(at)
    BY DEF Leave, Input
  <1>2. \A s \in refreshes' : \E r \in refreshes : s.run = r.run
    BY ShapesHold, RefreshLeft DEF Leave
  <1>3. IdsOK(cs, refreshes, inputs) BY ShapesHold, IdsLeft DEF IdsInv
  <1> HIDE DEF cs
  <1>4. IdsOK(calls', refreshes', inputs) BY <1>1, <1>2, <1>3, IdsOfRefreshes
  <1>5. panel'.at = at BY <1>1, EmptyPanelIsPanel
  <1>6. CASE at = "closed"
    <2>1. inputs' \in Nat /\ inputs \in Nat /\ inputs <= inputs' BY <1>1 DEF IdsInv
    <2>2. IdsOK(calls', refreshes', inputs') BY <1>4, <2>1, LaterIds
    <2>3. ids' = [o \in Orders |-> Null] BY <1>1, <1>6 DEF Kept
    <2>4. ids' = [o \in Orders |-> ids'[o]] BY <2>3
    <2> QED BY <1>5, <1>6, <2>1, <2>2, <2>4 DEF IdsInv, KeepsIds
  <1>7. CASE at # "closed" BY <1>1, <1>4, <1>7, SameIds DEF Kept
  <1> QED BY <1>6, <1>7

LEMMA ReturnIds == ASSUME IdsInv, Return \/ Refresh PROVE IdsInv' /\ KeepsIds
  <1>1. PICK p : refreshes' = refreshes \cup {NewRefresh(p, "nothing", Null)} BY DEF Return, Refresh
  <1>2. calls' = calls /\ ids' = ids /\ inputs' = inputs BY DEF Return, Refresh
  <1>3. IdsOK(calls', refreshes', inputs) BY <1>1, <1>2, IdsWithRefresh DEF IdsInv
  <1> QED BY <1>2, <1>3, SameIds

LEMMA UserIds == ASSUME BusyInv, IdsInv, User PROVE IdsInv' /\ KeepsIds
  <1>1. ASSUME NEW o \in Orders, Create(o) \/ Delete(o) PROVE IdsInv' /\ KeepsIds
    BY <1>1, WritesIds DEF Create, Delete, Input
  <1>2. ASSUME Complete \/ SubmitEdit PROVE IdsInv' /\ KeepsIds
    BY <1>2, WritesIds DEF Complete, SubmitEdit, Input
  <1>3. ASSUME OpenEdit \/ CloseEdit PROVE IdsInv' /\ KeepsIds
    BY <1>3, SameIds DEF OpenEdit, CloseEdit, Input, IdsInv
  <1>4. ASSUME ClosePreview PROVE IdsInv' /\ KeepsIds
    <2>1. IdsOK(PreviewClosed(calls), refreshes, inputs) BY ShapesHold, IdsPreviewClosed DEF IdsInv
    <2> QED BY <1>4, <2>1, SameIds DEF ClosePreview
  <1> QED BY <1>1, <1>2, <1>3, <1>4, ClickIds, PreviewIds, ConfirmIds, CancelIds, LeaveIds,
             ReturnIds DEF User

LEMMA NativeIds == ASSUME BusyInv, IdsInv, NEW c \in calls, NativeStep(c) PROVE IdsInv' /\ KeepsIds
  <1>1. /\ refreshes' = refreshes /\ ids' = ids /\ inputs' = inputs
        /\ \E d : Moved(c, d) /\ Continues(c, d)
    BY ShapesHold, NativeMoves
  <1>2. PICK d : Moved(c, d) /\ Continues(c, d) BY <1>1
  <1>3. IdsOK((calls \ {c}) \cup {d}, refreshes, inputs) BY <1>2, IdsMove DEF IdsInv, Continues
  <1> QED BY <1>1, <1>2, <1>3, SameIds DEF Moved

LEMMA EndedIds ==
    ASSUME BusyInv, IdsInv, NEW c \in calls, ids' = ids, inputs' = inputs,
           calls' \in {calls \ {c}, Reassigned(calls \ {c}), PreviewClosed(Reassigned(calls \ {c}))},
           refreshes' \in {refreshes, Reassigned(refreshes)}
    PROVE  IdsInv' /\ KeepsIds
  <1> DEFINE ds == Reassigned(calls \ {c})
  <1>1. /\ IdsOK(calls \ {c}, refreshes', inputs)
        /\ IdsOK(ds, refreshes', inputs)
    BY IdsWithout
  <1>2. \A d \in ds : IsCall(d) BY ShapesHold, SameCleared DEF Reassigned, Continues
  <1> HIDE DEF ds
  <1>3. IdsOK(PreviewClosed(ds), refreshes', inputs) BY <1>1, <1>2, IdsPreviewClosed
  <1>4. IdsOK(calls', refreshes', inputs) BY <1>1, <1>3 DEF ds
  <1> QED BY <1>4, SameIds

LEMMA RunSendsIds == ASSUME BusyInv, IdsInv, NEW c \in calls, RunSends(c) PROVE IdsInv' /\ KeepsIds
  <1> DEFINE d == [c EXCEPT !.at = "native"]  cs == (calls \ {c}) \cup {d}
  <1>1. calls' \in {cs, Reassigned(cs)} /\ refreshes' \in {refreshes, Reassigned(refreshes)}
    BY DEF RunSends, Moved
  <1>2. ids' = ids /\ inputs' = inputs BY DEF RunSends
  <1>3. Continues(c, d) BY ShapesHold, CallGoesTo
  <1> HIDE DEF d
  <1>4. IdsOK(cs, refreshes, inputs) BY <1>3, IdsMove DEF IdsInv, Continues
  <1>5. (\A x \in cs : IsCall(x)) /\ (\A r \in refreshes : IsRefresh(r))
    BY <1>3, ShapesHold DEF Continues
  <1> HIDE DEF cs
  <1>6. IdsOK(calls', refreshes', inputs) BY <1>1, <1>4, <1>5, IdsAmong
  <1> QED BY <1>2, <1>6, SameIds

LEMMA InnerIds == ASSUME BusyInv, IdsInv, NEW r \in refreshes, InnerStep(r) PROVE IdsInv' /\ KeepsIds
  <1>1. /\ calls' = calls /\ ids' = ids /\ inputs' = inputs
        /\ \E s : Goes(r, s) /\ RefreshGoesOn(r, s)
    BY ShapesHold, InnerMoves
  <1>2. PICK s : Goes(r, s) /\ RefreshGoesOn(r, s) BY <1>1
  <1>3. \A t \in refreshes' : \E q \in refreshes : t.run = q.run BY <1>2 DEF Goes, RefreshGoesOn
  <1>4. IdsOK(calls, refreshes', inputs) BY <1>3, IdsOfRefreshes DEF IdsInv
  <1> QED BY <1>1, <1>4, SameIds

LEMMA CallIds == ASSUME BusyInv, IdsInv, NEW c \in calls, CallStep(c) PROVE IdsInv' /\ KeepsIds
  <1>1. CASE ReadAnswers(c) \/ PreviewAnswers(c)
    <2>1. /\ ids' = ids /\ inputs' = inputs /\ calls' \in {calls \ {c}, Reassigned(calls \ {c})}
          /\ refreshes' \in {refreshes, Reassigned(refreshes)}
      BY <1>1 DEF ReadAnswers, PreviewAnswers
    <2> QED BY <2>1, EndedIds
  <1>2. CASE DeleteAnswers(c)
    <2>1. /\ ids' = ids /\ inputs' = inputs
          /\ refreshes' \in {refreshes, Reassigned(refreshes)}
          /\ calls' \in {calls \ {c}, PreviewClosed(Reassigned(calls \ {c}))}
      BY <1>2 DEF DeleteAnswers
    <2> QED BY <2>1, EndedIds
  <1>3. CASE CancelAnswers(c) \/ SaveAnswers(c)
    <2>1. /\ inputs' = inputs /\ calls' \in {calls \ {c}, Reassigned(calls \ {c})}
          /\ \/ ids' = ids /\ refreshes' = refreshes
             \/ \E p, frees : \E rs \in {refreshes, Reassigned(refreshes)} :
                  ThenRefresh(p, rs, frees, Null)
      <3>1. CASE CancelAnswers(c) BY <3>1 DEF CancelAnswers
      <3>2. CASE SaveAnswers(c) BY <3>2 DEF SaveAnswers
      <3> QED BY <1>3, <3>1, <3>2
    <2> QED BY <2>1, EndedIds, AnsweredIds
  <1> QED BY <1>1, <1>2, <1>3, NativeIds, RunSendsIds, RunAnswersIds DEF CallStep, NativeStep

LEMMA InitIds == ASSUME Init PROVE IdsInv
  <1> DEFINE r == NewRefresh(EmptyPanel("here"), "nothing", Null)
  <1>1. /\ calls = {} /\ refreshes = {r} /\ inputs = 0 /\ ids = [o \in Orders |-> Null]
    BY DEF Init
  <1>2. r.run = Null BY NewRefreshIsRefresh
  <1> HIDE DEF r
  <1>3. IdsOK(calls, refreshes, inputs) BY <1>1, <1>2 DEF IdsOK, Runs
  <1> QED BY <1>1, <1>3 DEF IdsInv

LEMMA NextIds == BusyInv /\ IdsInv /\ [Next]_vars => IdsInv' /\ [KeepsIds]_vars
  <1> SUFFICES ASSUME BusyInv, IdsInv, [Next]_vars PROVE IdsInv' /\ [KeepsIds]_vars OBVIOUS
  <1>1. CASE UNCHANGED vars BY <1>1 DEF vars, IdsInv
  <1>2. ASSUME NEW o \in Orders, Outside(o) PROVE IdsInv' /\ KeepsIds
    BY <1>2, SameIds DEF Outside, IdsInv
  <1>3. ASSUME NEW r \in refreshes, RefreshStep(r) PROVE IdsInv' /\ KeepsIds
    BY <1>3, InnerIds, RefreshAnswersIds DEF RefreshStep, InnerStep
  <1> QED BY <1>1, <1>2, <1>3, CallIds, UserIds, ReturnIds DEF Next

\* The identifier of a run that this page started and that is under way stays with its
\* order, so that cancelling reaches it, until the order is started again or the page is
\* closed: no answer of another run and no refresh takes it away.
THEOREM RunsStayCancellable == Spec => IdentifiersStay
  <1>1. Init => BusyInv /\ IdsInv BY InitBusy, InitIds
  <1>2. IdsInv /\ [KeepsIds]_vars => [\A o \in DOMAIN ids :
            ids[o] \in Executing /\ ids'[o] # ids[o]
                => ids'[o] = inputs' \/ ids[o] \notin Executing' \/ panel'.at = "closed"]_ids
    <2> SUFFICES ASSUME IdsInv, [KeepsIds]_vars, ids' # ids
                 PROVE  \A o \in DOMAIN ids : ids[o] \in Executing /\ ids'[o] # ids[o]
                          => ids'[o] = inputs' \/ ids[o] \notin Executing' \/ panel'.at = "closed"
      OBVIOUS
    <2>1. DOMAIN ids = Orders BY DEF IdsInv
    <2> QED BY <2>1 DEF KeepsIds, vars
  <1> QED BY <1>1, <1>2, NextBusy, NextIds, PTL DEF Spec, IdentifiersStay

-----------------------------------------------------------------------------
(* The display follows the clicks. What is known of an order, on display, in  *)
(* the dialog, in calls and in refreshes, is not newer than what was written  *)
(* last; an order that is completed stays as it was, until it is deleted.     *)

Latest(o) == IF file[o].status = "deleted" THEN file[o].n - 1 ELSE file[o].n
Closed(o) == file[o].status \in {"archived", "deleted"}
Known(o, w) == w \in Content /\ w.n <= Latest(o)

FilesOK ==
    /\ file \in [Orders -> Content]
    /\ lock = [o \in Orders |-> lock[o]]
    /\ \A o \in Orders : lock[o] # Null => file[o].status = "running"

\* Nothing is written of what a call has read but where it may.
GoodCall(c) ==
    /\ c.o \in Orders
    /\ c.kind = "execute" => c.id # Elsewhere
    /\ c.kind = "execute" /\ c.at = "running" => lock[c.o] = c.id
    /\ c.kind = "cancel" /\ c.at = "write" => c.seen.status = "running"
    /\ c.kind \in {"complete", "edit"} => c.base.status # "archived"
    /\ c.kind \in {"complete", "edit"} /\ c.at = "native" => c.seen.status # "archived"
    /\ c.kind \in {"execute", "cancel", "complete", "edit"} => Known(c.o, c.base)
    /\ c.kind # "delete" /\ c.result # Null => Known(c.o, c.result)
    /\ c.kind = "complete" /\ c.result # Null => Closed(c.o) /\ c.result.n = Latest(c.o)
GoodRefresh(r) ==
    /\ r.at = "write" => r.seen.o \in Orders /\ r.seen.w.status = "running"
    /\ \A f \in r.fixed : f.o \in Orders /\ Known(f.o, f.w)
GoodPanel(p) ==
    /\ p.shown # Null => /\ p.shown = Display(p.shown.o, p.shown.w, p.shown.path)
                         /\ p.shown.o \in Orders /\ Known(p.shown.o, p.shown.w)
    /\ p.editing # Null => /\ p.editing.o \in Orders /\ Known(p.editing.o, p.editing.w)
                           /\ p.editing.w.status # "archived"

DiskInv ==
    /\ FilesOK /\ (\A c \in calls : GoodCall(c)) /\ (\A r \in refreshes : GoodRefresh(r))
    /\ GoodPanel(panel)

\* Files change and nothing that is known becomes wrong.
Grows ==
    /\ FilesOK'
    /\ \A o \in Orders :
          /\ Latest(o) \in Int /\ Latest(o)' \in Int /\ Latest(o) <= Latest(o)'
          /\ Closed(o) => Closed(o)' /\ Latest(o)' = Latest(o)

LEMMA KnownStays ==
    ASSUME Grows, NEW o \in Orders, NEW w, Known(o, w)
    PROVE  Known(o, w)'
  BY DEF Grows, Known, Content

LEMMA CallStaysGood ==
    ASSUME Grows, NEW c, GoodCall(c), c.kind = "execute" /\ c.at = "running" => lock'[c.o] = lock[c.o]
    PROVE  GoodCall(c)'
  <1>1. \A w : Known(c.o, w) => Known(c.o, w)' BY KnownStays DEF GoodCall
  <1>2. Closed(c.o) => Closed(c.o)' /\ Latest(c.o)' = Latest(c.o) BY DEF Grows, GoodCall
  <1> QED BY <1>1, <1>2 DEF GoodCall

LEMMA RefreshStaysGood == ASSUME Grows, NEW r, GoodRefresh(r) PROVE GoodRefresh(r)'
  <1>1. \A o \in Orders : \A w : Known(o, w) => Known(o, w)' BY KnownStays
  <1> QED BY <1>1 DEF GoodRefresh

LEMMA PanelStaysGood == ASSUME Grows, NEW p, GoodPanel(p) PROVE GoodPanel(p)'
  <1>1. \A o \in Orders : \A w : Known(o, w) => Known(o, w)' BY KnownStays
  <1> QED BY <1>1 DEF GoodPanel

LEMMA NothingWrittenGrows == ASSUME FilesOK, file' = file, lock' = lock PROVE Grows
  <1>1. \A o \in Orders : file[o].n \in Nat BY DEF FilesOK, Content
  <1> QED BY <1>1 DEF Grows, FilesOK, Latest, Closed

\* A work order is written that nobody runs, or by its run.
LEMMA OneWritten ==
    ASSUME FilesOK, NEW o \in Orders, NEW w \in Content, file' = [file EXCEPT ![o] = w],
           w.n = file[o].n + 1, file[o].status # "deleted",
           file[o].status = "archived" => w.status = "deleted",
           lock' = [lock EXCEPT ![o] = lock'[o]],
           lock'[o] # Null => w.status = "running"
    PROVE  Grows
  <1>1. file[o] \in Content /\ file[o].n \in Nat /\ file'[o] = w BY DEF FilesOK, Content
  <1>2. \A q \in Orders : q # o => file'[q] = file[q] /\ lock'[q] = lock[q] /\ file[q].n \in Nat
    BY DEF FilesOK, Content
  <1>3. FilesOK' BY <1>1, <1>2 DEF FilesOK
  <1>4. /\ Latest(o) \in Int /\ Latest(o)' \in Int /\ Latest(o) <= Latest(o)'
        /\ Closed(o) => Closed(o)' /\ Latest(o)' = Latest(o)
    BY <1>1 DEF Latest, Closed
  <1>5. \A q \in Orders : q # o =>
           /\ Latest(q) \in Int /\ Latest(q)' \in Int /\ Latest(q) <= Latest(q)'
           /\ Closed(q) => Closed(q)' /\ Latest(q)' = Latest(q)
    BY <1>2 DEF Latest, Closed
  <1> QED BY <1>3, <1>4, <1>5 DEF Grows

LEMMA ContentWritten ==
    ASSUME NEW w \in Content, NEW status \in Statuses
    PROVE  /\ Written(w, status) \in Content
           /\ Written(w, status).n = w.n + 1 /\ Written(w, status).status = status
  <1>1. w.n \in Nat /\ w.n + 1 \in Nat BY DEF Content
  <1> DEFINE m == w.n + 1
  <1>2. Written(w, status) = [w EXCEPT !.n = m, !.status = status] BY DEF Written
  <1>3. m \in Nat BY <1>1
  <1> HIDE DEF m
  <1>4. /\ [w EXCEPT !.n = m, !.status = status] \in Content
        /\ [w EXCEPT !.n = m, !.status = status].n = m
        /\ [w EXCEPT !.n = m, !.status = status].status = status
    BY <1>3 DEF Content
  <1> QED BY <1>2, <1>4 DEF m

LEMMA ContentEdited ==
    ASSUME NEW w \in Content
    PROVE  Edited(w) \in Content /\ Edited(w).n = w.n + 1 /\ Edited(w).status = w.status
  <1>1. w.n \in Nat /\ w.n + 1 \in Nat BY DEF Content
  <1> DEFINE m == w.n + 1
  <1>2. Edited(w) = [w EXCEPT !.n = m, !.body = m] BY DEF Edited
  <1>3. m \in Nat BY <1>1
  <1> HIDE DEF m
  <1>4. /\ [w EXCEPT !.n = m, !.body = m] \in Content
        /\ [w EXCEPT !.n = m, !.body = m].n = m
        /\ [w EXCEPT !.n = m, !.body = m].status = w.status
    BY <1>3 DEF Content
  <1> QED BY <1>2, <1>4 DEF m

LEMMA LockReleased ==
    ASSUME FilesOK, NEW o \in Orders, file' = file, lock' = [lock EXCEPT ![o] = Null]
    PROVE  Grows
  <1>1. \A q \in Orders : file[q].n \in Nat BY DEF FilesOK, Content
  <1>2. FilesOK' BY DEF FilesOK
  <1> QED BY <1>1, <1>2 DEF Grows, Latest, Closed

\* A write of an order that nobody runs.
LEMMA OneSaved ==
    ASSUME FilesOK, NEW o \in Orders, NEW w \in Content, file' = [file EXCEPT ![o] = w],
           w.n = file[o].n + 1, file[o].status # "deleted",
           file[o].status = "archived" => w.status = "deleted", lock' = lock, lock[o] = Null
    PROVE  Grows
  <1>1. lock' = [lock EXCEPT ![o] = lock'[o]] /\ lock'[o] = Null BY DEF FilesOK
  <1> QED BY <1>1, OneWritten

LEMMA FilesShape ==
    ASSUME FilesOK, NEW o \in Orders
    PROVE  file[o] \in Content /\ file[o].n \in Nat /\ file[o].status \in Statuses
  BY DEF FilesOK, Content

\* What is there is known.
LEMMA ThereIsKnown ==
    ASSUME FilesOK, NEW o \in Orders, Exists(file[o])
    PROVE  Known(o, file[o])
  BY FilesShape DEF Known, Latest, Exists, Content

LEMMA DiskMoves ==
    ASSUME DiskInv, Grows, NEW c \in calls, NEW d, Moved(c, d), GoodCall(d)',
           refreshes' = refreshes, panel' = panel,
           \A e \in calls : e # c /\ e.kind = "execute" /\ e.at = "running"
                                => lock'[e.o] = lock[e.o]
    PROVE  DiskInv'
  <1>1. \A e \in calls : e # c => GoodCall(e)' BY CallStaysGood DEF DiskInv
  <1>2. \A e \in calls' : GoodCall(e)' BY <1>1 DEF Moved
  <1>3. (\A r \in refreshes' : GoodRefresh(r)') /\ GoodPanel(panel)'
    BY RefreshStaysGood, PanelStaysGood DEF DiskInv
  <1> QED BY <1>2, <1>3 DEF DiskInv, Grows

\* What a call is about does not change as it goes on.
SameCall(c, d) ==
    d.kind = c.kind /\ d.o = c.o /\ d.id = c.id /\ d.base = c.base /\ d.mine = c.mine /\ d.sel = c.sel
LEMMA AtChanged ==
    ASSUME NEW c, IsCall(c), NEW at, NEW d, d = [c EXCEPT !.at = at]
    PROVE  SameCall(c, d) /\ d.at = at /\ d.seen = c.seen /\ d.result = c.result
  BY DEF IsCall, SameCall
WithResult(c, result) == [c EXCEPT !.at = "answer", !.result = result]
LEMMA ResultChanged ==
    ASSUME NEW c, IsCall(c), NEW result, NEW d, d = WithResult(c, result)
    PROVE  SameCall(c, d) /\ d.at = "answer" /\ d.seen = c.seen /\ d.result = result
  BY DEF IsCall, SameCall, WithResult
WithSeen(c, at, seen) == [c EXCEPT !.at = at, !.seen = seen]
LEMMA SeenChanged ==
    ASSUME NEW c, IsCall(c), NEW at, NEW seen, NEW d, d = WithSeen(c, at, seen)
    PROVE  SameCall(c, d) /\ d.at = at /\ d.seen = seen /\ d.result = c.result
  BY DEF IsCall, SameCall, WithSeen

\* A call that only goes on stays good where nothing is written.
LEMMA GoesOnGood ==
    ASSUME NEW c, GoodCall(c), NEW d, SameCall(c, d), d.result = c.result, Grows,
           d.at = "answer" \/ d.at = "read"
    PROVE  GoodCall(d)'
  <1>1. \A w : Known(c.o, w) => Known(c.o, w)' BY KnownStays DEF GoodCall
  <1>2. Closed(c.o) => Closed(c.o)' /\ Latest(c.o)' = Latest(c.o) BY DEF Grows, GoodCall
  <1> QED BY <1>1, <1>2 DEF GoodCall, SameCall

\* And with the result of what it has written or read.
LEMMA AnswerGood ==
    ASSUME NEW c, GoodCall(c), NEW d, SameCall(c, d), Grows, d.at = "answer",
           c.kind # "delete" => Known(c.o, d.result)',
           c.kind = "complete" => Closed(c.o)' /\ d.result.n = Latest(c.o)'
    PROVE  GoodCall(d)'
  <1>1. \A w : Known(c.o, w) => Known(c.o, w)' BY KnownStays DEF GoodCall
  <1> QED BY <1>1 DEF GoodCall, SameCall

LEMMA SeenGood ==
    ASSUME NEW c, GoodCall(c), NEW d, SameCall(c, d), d.result = c.result, Grows,
           \/ c.kind = "cancel" /\ d.at = "write" /\ d.seen.status = "running"
           \/ c.kind \in {"complete", "edit"} /\ d.at = "native" /\ d.seen.status # "archived"
    PROVE  GoodCall(d)'
  <1>1. \A w : Known(c.o, w) => Known(c.o, w)' BY KnownStays DEF GoodCall
  <1>2. Closed(c.o) => Closed(c.o)' /\ Latest(c.o)' = Latest(c.o) BY DEF Grows, GoodCall
  <1> QED BY <1>1, <1>2 DEF GoodCall, SameCall

\* What a native step leaves behind.
NativeGood(c) ==
    /\ Grows /\ \E d : Moved(c, d) /\ SameCall(c, d) /\ GoodCall(d)'
    /\ \A e \in calls : e # c /\ e.kind = "execute" /\ e.at = "running"
                           => lock'[e.o] = lock[e.o]

LEMMA ReadGood ==
    ASSUME DiskInv, NEW c \in calls, IsCall(c), ReadAtNative(c) PROVE NativeGood(c)
  <1>r. PICK result : result = IF Exists(file[c.o]) THEN file[c.o] ELSE Null OBVIOUS
  <1>d. PICK d : d = WithResult(c, result) OBVIOUS
  <1>1. Grows /\ GoodCall(c) /\ Moved(c, d) /\ c.kind = "read" /\ lock' = lock
    BY <1>r, <1>d, NothingWrittenGrows DEF DiskInv, ReadAtNative, WithResult
  <1>2. result # Null => Known(c.o, result) BY <1>r, ThereIsKnown DEF DiskInv, GoodCall
  <1>3. SameCall(c, d) /\ d.at = "answer" /\ d.result = result BY <1>d, ResultChanged
  <1>4. result # Null => Known(c.o, result)' BY <1>1, <1>2, KnownStays DEF GoodCall
  <1>5. GoodCall(d)' BY <1>1, <1>3, <1>4 DEF GoodCall, SameCall
  <1> QED BY <1>1, <1>3, <1>5 DEF NativeGood

LEMMA CancelGood ==
    ASSUME DiskInv, NEW c \in calls, IsCall(c), CancelAtNative(c) \/ CancelReads(c) \/ SaveChecks(c)
    PROVE  NativeGood(c)
  <1>1. Grows /\ GoodCall(c) /\ lock' = lock
    BY NothingWrittenGrows DEF DiskInv, CancelAtNative, CancelReads, SaveChecks
  <1>2. ASSUME NEW d, \E at \in {"answer", "read"} : d = [c EXCEPT !.at = at], Moved(c, d)
        PROVE  NativeGood(c)
    <2>1. SameCall(c, d) /\ d.at \in {"answer", "read"} /\ d.result = c.result BY <1>2, AtChanged
    <2> QED BY <1>1, <1>2, <2>1, GoesOnGood DEF NativeGood
  <1>3. CASE CancelReads(c) /\ file[c.o].status = "running"
    <2>d. PICK d : d = WithSeen(c, "write", file[c.o]) OBVIOUS
    <2>1. SameCall(c, d) /\ d.at = "write" /\ d.seen = file[c.o] /\ d.result = c.result
      BY <2>d, SeenChanged
    <2>2. Moved(c, d) /\ c.kind = "cancel" /\ d.seen.status = "running"
      BY <1>3, <2>d, <2>1 DEF CancelReads, WithSeen
    <2>3. GoodCall(d)' BY <1>1, <2>1, <2>2, SeenGood
    <2> QED BY <1>1, <2>1, <2>2, <2>3 DEF NativeGood
  <1>4. CASE SaveChecks(c) /\ Exists(file[c.o]) /\ Same(file[c.o], c.base)
    <2>d. PICK d : d = WithSeen(c, "native", file[c.o]) OBVIOUS
    <2>1. SameCall(c, d) /\ d.at = "native" /\ d.seen = file[c.o] /\ d.result = c.result
      BY <2>d, SeenChanged
    <2>2. Moved(c, d) /\ c.kind \in {"complete", "edit"} BY <1>4, <2>d DEF SaveChecks, WithSeen
    <2>3. d.seen.status # "archived" BY <1>1, <1>4, <2>1, <2>2 DEF GoodCall, Same
    <2> QED BY <1>1, <2>1, <2>2, <2>3, SeenGood DEF NativeGood
  <1>5. CASE \/ CancelAtNative(c)
             \/ CancelReads(c) /\ file[c.o].status # "running"
             \/ SaveChecks(c) /\ ~(Exists(file[c.o]) /\ Same(file[c.o], c.base))
    <2>1. \E at \in {"answer", "read"} : Moved(c, [c EXCEPT !.at = at])
      BY <1>5 DEF CancelAtNative, CancelReads, SaveChecks
    <2> QED BY <1>2, <2>1
  <1>6. CASE CancelAtNative(c) BY <1>5, <1>6
  <1>7. CASE CancelReads(c) BY <1>3, <1>5, <1>7
  <1>8. CASE SaveChecks(c) BY <1>4, <1>5, <1>8
  <1> QED BY <1>6, <1>7, <1>8

LEMMA CancelMarksGood ==
    ASSUME DiskInv, NEW c \in calls, IsCall(c), CancelMarks(c) PROVE NativeGood(c)
  <1>w. PICK w : w = Written(file[c.o], "failed") OBVIOUS
  <1>d. PICK d : d = WithResult(c, w) OBVIOUS
  <1>1. GoodCall(c) /\ c.o \in Orders /\ FilesOK /\ c.kind = "cancel" /\ lock' = lock
    BY DEF DiskInv, GoodCall, CancelMarks
  <1>2. file[c.o] \in Content /\ file[c.o].n \in Nat BY <1>1, FilesShape
  <1>3. w \in Content /\ w.n = file[c.o].n + 1 /\ w.status = "failed"
    BY <1>2, <1>w, ContentWritten DEF Statuses
  <1>4. CASE Replaceable(c.o, c.seen)
    <2>1. file' = [file EXCEPT ![c.o] = w] /\ file'[c.o] = w /\ lock[c.o] = Null
      BY <1>1, <1>4, <1>w DEF CancelMarks, Replaceable, FilesOK
    <2>2. Moved(c, d) BY <1>4, <1>d, <2>1 DEF CancelMarks, WithResult
    <2>3. file[c.o].status = "running" BY <1>1, <1>4 DEF Replaceable, Same, CancelMarks, GoodCall
    <2>4. Grows BY <1>1, <1>2, <1>3, <2>1, <2>3, OneSaved
    <2>5. SameCall(c, d) /\ d.at = "answer" /\ d.result = w BY <1>d, ResultChanged
    <2>6. Known(c.o, w)' BY <1>3, <2>1 DEF Known, Latest, Content
    <2>7. GoodCall(d)' BY <1>1, <2>4, <2>5, <2>6, AnswerGood
    <2> QED BY <1>1, <2>2, <2>4, <2>5, <2>7 DEF NativeGood
  <1>5. CASE ~Replaceable(c.o, c.seen)
    <2> DEFINE e == [c EXCEPT !.at = "answer"]
    <2>1. Grows /\ Moved(c, e) BY <1>1, <1>5, NothingWrittenGrows DEF CancelMarks
    <2>2. SameCall(c, e) /\ e.at = "answer" /\ e.result = c.result BY AtChanged
    <2> HIDE DEF e
    <2> QED BY <1>1, <2>1, <2>2, GoesOnGood DEF NativeGood
  <1> QED BY <1>4, <1>5

LEMMA RunBeginsGood ==
    ASSUME DiskInv, Null \notin Nat, IdsInv, NEW c \in calls, IsCall(c), RunBegins(c)
    PROVE  NativeGood(c)
  <1>1. GoodCall(c) /\ c.o \in Orders /\ FilesOK /\ c.kind = "execute"
    BY DEF DiskInv, GoodCall, RunBegins
  <1>2. file[c.o] \in Content /\ file[c.o].n \in Nat BY <1>1, FilesShape
  <1>3. CASE lock' = lock /\ file' = file /\ Moved(c, [c EXCEPT !.at = "answer"])
    <2>d. PICK d : d = [c EXCEPT !.at = "answer"] OBVIOUS
    <2>1. Grows BY <1>1, <1>3, NothingWrittenGrows
    <2>2. SameCall(c, d) /\ d.at = "answer" /\ d.result = c.result BY <2>d, AtChanged
    <2>3. GoodCall(d)' BY <1>1, <2>1, <2>2, GoesOnGood
    <2> QED BY <1>3, <2>d, <2>1, <2>2, <2>3 DEF NativeGood
  <1>4. CASE /\ Exists(file[c.o]) /\ file[c.o].status # "archived" /\ lock[c.o] = Null
             /\ lock' = [lock EXCEPT ![c.o] = c.id]
             /\ file' = [file EXCEPT ![c.o] = Written(@, "running")]
             /\ Moved(c, [c EXCEPT !.at = "running"])
    <2>d. PICK d : d = [c EXCEPT !.at = "running"] OBVIOUS
    <2>w. PICK w : w = Written(file[c.o], "running") OBVIOUS
    <2>1. w \in Content /\ w.n = file[c.o].n + 1 /\ w.status = "running"
      BY <1>2, <2>w, ContentWritten DEF Statuses
    <2>2. file' = [file EXCEPT ![c.o] = w] /\ lock' = [lock EXCEPT ![c.o] = lock'[c.o]]
          /\ lock'[c.o] = c.id /\ file[c.o].status # "deleted"
      BY <1>1, <1>4, <2>w DEF FilesOK, Exists
    <2>3. Grows BY <1>1, <1>4, <2>1, <2>2, OneWritten
    <2>4. SameCall(c, d) /\ d.at = "running" /\ d.result = c.result BY <2>d, AtChanged
    <2>5. \A x : Known(c.o, x) => Known(c.o, x)' BY <1>1, <2>3, KnownStays
    <2>6. GoodCall(d)' BY <1>1, <2>2, <2>4, <2>5 DEF GoodCall, SameCall
    <2>7. ASSUME NEW e \in calls, e # c, e.kind = "execute", e.at = "running"
          PROVE  lock'[e.o] = lock[e.o]
      <3>1. lock[e.o] = e.id /\ e.o \in Orders BY <2>7 DEF DiskInv, GoodCall
      <3>2. e.id \in Nat BY <2>7 DEF IdsInv, IdsOK, Runs
      <3>3. e.o # c.o BY <1>4, <3>1, <3>2
      <3> QED BY <1>1, <2>2, <3>1, <3>3 DEF FilesOK
    <2> QED BY <1>4, <2>d, <2>3, <2>4, <2>6, <2>7 DEF NativeGood
  <1> QED BY <1>3, <1>4 DEF RunBegins

LEMMA RunEndsGood ==
    ASSUME DiskInv, Null \notin Nat, IdsInv, NEW c \in calls, IsCall(c), RunEnds(c)
    PROVE  NativeGood(c)
  <1>1. /\ GoodCall(c) /\ c.o \in Orders /\ FilesOK /\ c.kind = "execute" /\ lock[c.o] = c.id
        /\ lock' = [lock EXCEPT ![c.o] = Null]
    BY DEF DiskInv, GoodCall, RunEnds
  <1>2. file[c.o] \in Content /\ file[c.o].n \in Nat BY <1>1, FilesShape
  <1>3. c.id \in Nat /\ file[c.o].status = "running" BY <1>1 DEF IdsInv, IdsOK, Runs, FilesOK
  <1>4. ASSUME NEW e \in calls, e # c, e.kind = "execute", e.at = "running"
        PROVE  lock'[e.o] = lock[e.o]
    <2>1. lock[e.o] = e.id /\ e.o \in Orders BY <1>4 DEF DiskInv, GoodCall
    <2>2. e.id # c.id BY <1>1, <1>4 DEF IdsInv, IdsOK, Runs
    <2> QED BY <1>1, <2>1, <2>2 DEF FilesOK
  <1>5. CASE file' = file /\ Moved(c, [c EXCEPT !.at = "answer"])
    <2>d. PICK d : d = [c EXCEPT !.at = "answer"] OBVIOUS
    <2>1. Grows BY <1>1, <1>5, LockReleased
    <2>2. SameCall(c, d) /\ d.at = "answer" /\ d.result = c.result BY <2>d, AtChanged
    <2>3. GoodCall(d)' BY <1>1, <2>1, <2>2, GoesOnGood
    <2> QED BY <1>4, <1>5, <2>d, <2>1, <2>2, <2>3 DEF NativeGood
  <1>6. ASSUME NEW s \in {"archived", "failed"}, file' = [file EXCEPT ![c.o] = Written(@, s)],
               Moved(c, [c EXCEPT !.at = "answer", !.result = file'[c.o]])
        PROVE  NativeGood(c)
    <2>w. PICK w : w = Written(file[c.o], s) OBVIOUS
    <2>d. PICK d : d = WithResult(c, w) OBVIOUS
    <2>1. w \in Content /\ w.n = file[c.o].n + 1 /\ w.status = s
      BY <1>2, <2>w, ContentWritten DEF Statuses
    <2>2. /\ file' = [file EXCEPT ![c.o] = w] /\ lock' = [lock EXCEPT ![c.o] = lock'[c.o]]
          /\ lock'[c.o] = Null /\ file'[c.o] = w
      BY <1>1, <1>6, <2>w DEF FilesOK
    <2>3. Grows BY <1>1, <1>3, <2>1, <2>2, OneWritten
    <2>4. SameCall(c, d) /\ d.at = "answer" /\ d.result = w BY <2>d, ResultChanged
    <2>5. Known(c.o, w)' BY <2>1, <2>2 DEF Known, Latest, Content
    <2>6. GoodCall(d)' BY <1>1, <2>3, <2>4, <2>5, AnswerGood
    <2>7. Moved(c, d) BY <1>6, <2>d, <2>2 DEF WithResult
    <2> QED BY <1>4, <2>3, <2>4, <2>6, <2>7 DEF NativeGood
  <1> QED BY <1>5, <1>6 DEF RunEnds

LEMMA SavedGood ==
    ASSUME DiskInv, NEW c \in calls, GoodCall(c), CanSave(c), c.at = "native",
           c.kind \in {"complete", "edit", "create", "delete"}, NEW w, w = Saved(c)
    PROVE  /\ w \in Content /\ w.n = file[c.o].n + 1 /\ lock[c.o] = Null
           /\ file[c.o].status # "deleted" /\ (file[c.o].status = "archived" => w.status = "deleted")
           /\ c.kind = "complete" => w.status = "archived"
           /\ c.kind # "delete" => w.status # "deleted"
  <1>1. c.o \in Orders /\ FilesOK /\ file[c.o] \in Content BY FilesShape DEF DiskInv, GoodCall
  <1>2. \A status \in Statuses :
           /\ Written(file[c.o], status) \in Content
           /\ Written(file[c.o], status).n = file[c.o].n + 1
           /\ Written(file[c.o], status).status = status
    BY <1>1, ContentWritten
  <1>3. CASE c.kind = "complete"
    <2>1. w = Written(file[c.o], "archived") /\ Replaceable(c.o, c.seen) BY <1>3 DEF Saved, CanSave
    <2>2. w \in Content /\ w.n = file[c.o].n + 1 /\ w.status = "archived" BY <1>2, <2>1 DEF Statuses
    <2> QED BY <1>3, <2>1, <2>2 DEF Replaceable, Same, Exists, GoodCall
  <1>4. CASE c.kind = "edit"
    <2>1. w = Edited(file[c.o]) /\ Replaceable(c.o, c.seen) BY <1>4 DEF Saved, CanSave
    <2>2. w \in Content /\ w.n = file[c.o].n + 1 /\ w.status = file[c.o].status
      BY <1>1, <2>1, ContentEdited
    <2> QED BY <1>4, <2>1, <2>2 DEF Replaceable, Same, Exists, GoodCall
  <1>5. CASE c.kind = "create"
    <2>1. w = Written(file[c.o], "active") /\ file[c.o].status = "unwritten"
      BY <1>5 DEF Saved, CanSave
    <2>2. w \in Content /\ w.n = file[c.o].n + 1 /\ w.status = "active" BY <1>2, <2>1 DEF Statuses
    <2>3. lock[c.o] = Null BY <1>1, <2>1 DEF FilesOK
    <2> QED BY <1>5, <2>1, <2>2, <2>3
  <1>6. CASE c.kind = "delete"
    <2>1. w = Written(file[c.o], "deleted") /\ Exists(file[c.o]) /\ lock[c.o] = Null
      BY <1>6 DEF Saved, CanSave
    <2>2. w \in Content /\ w.n = file[c.o].n + 1 /\ w.status = "deleted" BY <1>2, <2>1 DEF Statuses
    <2> QED BY <1>6, <2>1, <2>2 DEF Exists
  <1> QED BY <1>3, <1>4, <1>5, <1>6

LEMMA SaveGood ==
    ASSUME DiskInv, NEW c \in calls, IsCall(c), Save(c) PROVE NativeGood(c)
  <1>1. /\ GoodCall(c) /\ c.o \in Orders /\ FilesOK /\ lock' = lock
        /\ c.kind \in {"complete", "edit", "create", "delete"} /\ c.at = "native"
    BY DEF DiskInv, GoodCall, Save
  <1>2. file[c.o] \in Content /\ file[c.o].n \in Nat BY <1>1, FilesShape
  <1>3. CASE file' = file /\ Moved(c, [c EXCEPT !.at = "answer"])
    <2>d. PICK d : d = [c EXCEPT !.at = "answer"] OBVIOUS
    <2>1. Grows BY <1>1, <1>3, NothingWrittenGrows
    <2>2. SameCall(c, d) /\ d.at = "answer" /\ d.result = c.result BY <2>d, AtChanged
    <2>3. GoodCall(d)' BY <1>1, <2>1, <2>2, GoesOnGood
    <2> QED BY <1>1, <1>3, <2>d, <2>1, <2>2, <2>3 DEF NativeGood
  <1>4. CASE /\ CanSave(c) /\ file' = [file EXCEPT ![c.o] = Saved(c)]
             /\ Moved(c, [c EXCEPT !.at = "answer", !.result = file'[c.o]])
    <2>w. PICK w : w = Saved(c) OBVIOUS
    <2>d. PICK d : d = WithResult(c, w) OBVIOUS
    <2>1. /\ w \in Content /\ w.n = file[c.o].n + 1 /\ lock[c.o] = Null
          /\ file[c.o].status # "deleted" /\ (file[c.o].status = "archived" => w.status = "deleted")
          /\ c.kind = "complete" => w.status = "archived"
          /\ c.kind # "delete" => w.status # "deleted"
      BY <1>1, <1>4, <2>w, SavedGood
    <2>2. file' = [file EXCEPT ![c.o] = w] /\ file'[c.o] = w BY <1>1, <1>4, <2>w DEF FilesOK
    <2>3. Grows BY <1>1, <2>1, <2>2, OneSaved
    <2>4. SameCall(c, d) /\ d.at = "answer" /\ d.result = w BY <2>d, ResultChanged
    <2>5. /\ c.kind # "delete" => Known(c.o, w)'
          /\ c.kind = "complete" => Closed(c.o)' /\ w.n = Latest(c.o)'
      BY <2>1, <2>2 DEF Known, Latest, Closed, Content
    <2>6. GoodCall(d)' BY <1>1, <2>3, <2>4, <2>5, AnswerGood
    <2>7. Moved(c, d) BY <1>4, <2>d, <2>2 DEF WithResult
    <2> QED BY <1>1, <2>3, <2>4, <2>6, <2>7 DEF NativeGood
  <1> QED BY <1>3, <1>4 DEF Save

LEMMA NativeIsGood ==
    ASSUME DiskInv, Null \notin Nat, BusyInv, IdsInv, NEW c \in calls, NativeStep(c)
    PROVE  NativeGood(c)
  <1>1. IsCall(c) BY ShapesHold
  <1> QED BY <1>1, ReadGood, RunBeginsGood, RunEndsGood, CancelGood, CancelMarksGood, SaveGood
          DEF NativeStep

LEMMA NativeDisk ==
    ASSUME DiskInv, Null \notin Nat, BusyInv, IdsInv, NEW c \in calls, NativeStep(c)
    PROVE  /\ DiskInv' /\ panel' = panel /\ refreshes' = refreshes /\ clicked' = clicked
           /\ \E d : Moved(c, d) /\ SameCall(c, d)
  <1>1. NativeGood(c) BY NativeIsGood
  <1>2. PICK d : Moved(c, d) /\ SameCall(c, d) /\ GoodCall(d)' BY <1>1 DEF NativeGood
  <1>3. panel' = panel /\ refreshes' = refreshes /\ clicked' = clicked BY ShapesHold, NativeMoves
  <1>4. DiskInv' BY <1>1, <1>2, <1>3, DiskMoves DEF NativeGood
  <1> QED BY <1>2, <1>3, <1>4

\* What an inner step of a refresh keeps, and leaves behind.
SameRefresh(r, s) == s.same = r.same /\ s.fixed = r.fixed
ReadRefresh(r, at, cards, stale) == [r EXCEPT !.at = at, !.cards = cards, !.stale = stale]
StaleRefresh(r, at, stale) == [r EXCEPT !.at = at, !.stale = stale]
SeenRefresh(r, at, seen) == [r EXCEPT !.at = at, !.seen = seen]
MarkedRefresh(r, at, stale, fixed) ==
    [r EXCEPT !.at = at, !.stale = stale, !.seen = Null, !.fixed = fixed]
CardsRefresh(r, at, cards) == [r EXCEPT !.at = at, !.cards = cards]

LEMMA FailedRefreshIs ==
    ASSUME NEW r, IsRefresh(r), NEW s, s = [r EXCEPT !.at = "answer", !.failed = TRUE]
    PROVE  SameRefresh(r, s) /\ s.at = "answer"
  BY DEF IsRefresh, SameRefresh
LEMMA ReadRefreshIs ==
    ASSUME NEW r, IsRefresh(r), NEW at, NEW cards, NEW stale
    PROVE  SameRefresh(r, ReadRefresh(r, at, cards, stale)) /\ ReadRefresh(r, at, cards, stale).at = at
  BY DEF IsRefresh, SameRefresh, ReadRefresh
LEMMA StaleRefreshIs ==
    ASSUME NEW r, IsRefresh(r), NEW at, NEW stale
    PROVE  SameRefresh(r, StaleRefresh(r, at, stale)) /\ StaleRefresh(r, at, stale).at = at
  BY DEF IsRefresh, SameRefresh, StaleRefresh
LEMMA SeenRefreshIs ==
    ASSUME NEW r, IsRefresh(r), NEW at, NEW seen
    PROVE  SameRefresh(r, SeenRefresh(r, at, seen)) /\ SeenRefresh(r, at, seen).seen = seen
  BY DEF IsRefresh, SameRefresh, SeenRefresh
LEMMA MarkedRefreshIs ==
    ASSUME NEW r, IsRefresh(r), NEW at, NEW stale, NEW fixed
    PROVE  /\ MarkedRefresh(r, at, stale, fixed).same = r.same
           /\ MarkedRefresh(r, at, stale, fixed).fixed = fixed
           /\ MarkedRefresh(r, at, stale, fixed).at = at
  BY DEF IsRefresh, MarkedRefresh
LEMMA CardsRefreshIs ==
    ASSUME NEW r, IsRefresh(r), NEW at, NEW cards
    PROVE  SameRefresh(r, CardsRefresh(r, at, cards)) /\ CardsRefresh(r, at, cards).at = at
  BY DEF IsRefresh, SameRefresh, CardsRefresh

\* A refresh that has marked an order has something newer than all that was known of it.
Marked(f) == f.o \in Orders /\ Known(f.o, f.w)' /\ Latest(f.o) <= f.w.n
InnerGood(r) ==
    /\ Grows /\ lock' = lock
    /\ \E s : /\ Goes(r, s) /\ s.same = r.same
              /\ s.at = "write" => s.seen.o \in Orders /\ s.seen.w.status = "running"
              /\ \A f \in s.fixed : f \in r.fixed \/ Marked(f)

LEMMA SameRefreshGood ==
    ASSUME DiskInv, NEW r \in refreshes, NEW s, Goes(r, s), SameRefresh(r, s),
           s.at # "write" \/ (s.seen.o \in Orders /\ s.seen.w.status = "running"),
           file' = file, lock' = lock
    PROVE  InnerGood(r)
  <1>1. Grows BY NothingWrittenGrows DEF DiskInv
  <1> QED BY <1>1 DEF InnerGood, SameRefresh

LEMMA NextMarkReads == \A stale, fixed : NextMark(stale, fixed) # "write"
  BY DEF NextMark

LEMMA MarksGood ==
    ASSUME DiskInv, NEW r \in refreshes, IsRefresh(r), RefreshMarks(r)
    PROVE  InnerGood(r)
  <1> DEFINE o == r.seen.o
             done == Replaceable(o, r.seen.w)
  <1>w. PICK w : w = Written(file[o], "failed") OBVIOUS
  <1>f. PICK f : f = [o |-> o, w |-> w] OBVIOUS
  <1>x. PICK fixed : fixed = IF done THEN r.fixed \cup {f} ELSE r.fixed OBVIOUS
  <1>1. /\ file' = IF done THEN [file EXCEPT ![o] = w] ELSE file
        /\ Goes(r, MarkedRefresh(r, NextMark(r.stale \ {o}, fixed), r.stale \ {o}, fixed))
        /\ lock' = lock
    BY <1>w, <1>f, <1>x DEF RefreshMarks, MarkedRefresh, OnlyRefreshes
  <1>2. PICK at : at = NextMark(r.stale \ {o}, fixed) OBVIOUS
  <1>s. PICK s : s = MarkedRefresh(r, at, r.stale \ {o}, fixed) OBVIOUS
  <1>3. Goes(r, s) /\ s.same = r.same /\ s.fixed = fixed /\ s.at # "write"
    BY <1>1, <1>2, <1>s, MarkedRefreshIs, NextMarkReads
  <1>4. o \in Orders /\ r.seen.w.status = "running" /\ FilesOK
    BY DEF DiskInv, GoodRefresh, RefreshMarks
  <1>5. file[o] \in Content /\ file[o].n \in Nat BY <1>4, FilesShape
  <1>6. w \in Content /\ w.n = file[o].n + 1 /\ w.status = "failed"
    BY <1>5, <1>w, ContentWritten DEF Statuses
  <1>7. CASE done
    <2>1. file' = [file EXCEPT ![o] = w] /\ file'[o] = w /\ lock[o] = Null
          /\ file[o].status = "running" /\ fixed = r.fixed \cup {f}
      BY <1>1, <1>4, <1>7, <1>x DEF Replaceable, FilesOK, Same
    <2>2. Grows BY <1>1, <1>4, <1>6, <2>1, OneSaved
    <2>3. f.o = o /\ f.w = w BY <1>f
    <2>4. Marked(f) BY <1>4, <1>5, <1>6, <2>1, <2>3 DEF Marked, Known, Latest, Content
    <2>5. \A g \in s.fixed : g \in r.fixed \/ Marked(g) BY <1>3, <2>1, <2>4
    <2> QED BY <1>1, <1>3, <2>2, <2>5 DEF InnerGood
  <1>8. CASE ~done
    <2>1. SameRefresh(r, s) /\ file' = file BY <1>1, <1>3, <1>8, <1>x DEF SameRefresh
    <2> QED BY <1>1, <1>3, <2>1, SameRefreshGood
  <1> QED BY <1>7, <1>8

LEMMA InnerIsGood ==
    ASSUME DiskInv, BusyInv, NEW r \in refreshes, InnerStep(r) PROVE InnerGood(r)
  <1>0. IsRefresh(r) BY ShapesHold
  <1>1. CASE RefreshFails(r)
    BY <1>0, <1>1, FailedRefreshIs, SameRefreshGood DEF RefreshFails, OnlyRefreshes
  <1>2. CASE RefreshReads(r)
    <2>1. file' = file /\ lock' = lock
          /\ \E at \in {"answer", "inspect"} : \E stale : Goes(r, ReadRefresh(r, at, Cards, stale))
      BY <1>2 DEF RefreshReads, OnlyRefreshes, ReadRefresh
    <2> QED BY <1>0, <2>1, ReadRefreshIs, SameRefreshGood
  <1>3. CASE RefreshInspects(r)
    <2>1. /\ file' = file /\ lock' = lock
          /\ \E stale : Goes(r, StaleRefresh(r, NextMark(stale, {}), stale))
      BY <1>3 DEF RefreshInspects, OnlyRefreshes, StaleRefresh
    <2> QED BY <1>0, <2>1, StaleRefreshIs, NextMarkReads, SameRefreshGood
  <1>4. ASSUME NEW o \in Orders, RefreshReadsStale(r, o) PROVE InnerGood(r)
    <2>0. file' = file /\ lock' = lock BY <1>4 DEF RefreshReadsStale, OnlyRefreshes
    <2>1. CASE file[o].status = "running"
      <3>1. PICK seen : seen = [o |-> o, w |-> file[o]] OBVIOUS
      <3>2. Goes(r, SeenRefresh(r, "write", seen))
        BY <1>4, <2>1, <3>1 DEF RefreshReadsStale, SeenRefresh
      <3>3. seen.o = o /\ seen.w = file[o] BY <3>1
      <3> QED BY <1>0, <2>0, <2>1, <3>2, <3>3, SeenRefreshIs, SameRefreshGood
    <2>2. CASE file[o].status # "running"
      <3>1. Goes(r, StaleRefresh(r, NextMark(r.stale \ {o}, r.fixed), r.stale \ {o}))
        BY <1>4, <2>2 DEF RefreshReadsStale, StaleRefresh
      <3> QED BY <1>0, <2>0, <3>1, StaleRefreshIs, NextMarkReads, SameRefreshGood
    <2> QED BY <2>1, <2>2
  <1>5. CASE RefreshMarks(r) BY <1>0, <1>5, MarksGood
  <1>6. CASE RefreshRereads(r)
    <2>1. file' = file /\ lock' = lock /\ \E cards : Goes(r, CardsRefresh(r, "answer", cards))
      BY <1>6 DEF RefreshRereads, OnlyRefreshes, CardsRefresh
    <2> QED BY <1>0, <2>1, CardsRefreshIs, SameRefreshGood
  <1> QED BY <1>1, <1>2, <1>3, <1>4, <1>5, <1>6 DEF InnerStep

LEMMA OutsideGrows ==
    ASSUME DiskInv, Null \notin Nat, NEW o \in Orders, Outside(o)
    PROVE  Grows
  <1>1. FilesOK /\ file[o] \in Content /\ file[o].n \in Nat BY FilesShape DEF DiskInv
  <1>2. Exists(file[o]) /\ file[o].status # "deleted" BY DEF Outside, Exists
  <1>3. CASE /\ lock[o] = Null /\ file[o].status \in Startable
             /\ file' = [file EXCEPT ![o] = Edited(@)] /\ lock' = lock
    <2>w. PICK w : w = Edited(file[o]) OBVIOUS
    <2>1. w \in Content /\ w.n = file[o].n + 1 /\ w.status = file[o].status
      BY <1>1, <2>w, ContentEdited
    <2>2. file' = [file EXCEPT ![o] = w] /\ file[o].status # "archived" BY <1>3, <2>w DEF Startable
    <2> QED BY <1>1, <1>2, <1>3, <2>1, <2>2, OneSaved
  <1>4. ASSUME NEW s \in {"running", "archived", "failed"}, NEW holder,
               file[o].status # "archived", holder # Null => s = "running",
               file' = [file EXCEPT ![o] = Written(@, s)], lock' = [lock EXCEPT ![o] = holder]
        PROVE  Grows
    <2>w. PICK w : w = Written(file[o], s) OBVIOUS
    <2>1. w \in Content /\ w.n = file[o].n + 1 /\ w.status = s
      BY <1>1, <2>w, ContentWritten DEF Statuses
    <2>2. file' = [file EXCEPT ![o] = w] /\ lock' = [lock EXCEPT ![o] = lock'[o]]
          /\ lock'[o] = holder
      BY <1>1, <1>4, <2>w DEF FilesOK
    <2>3. lock'[o] # Null => w.status = "running" BY <1>4, <2>1, <2>2
    <2>4. file[o].status = "archived" => w.status = "deleted" BY <1>4
    <2> QED BY <1>1, <1>2, <2>1, <2>2, <2>3, <2>4, OneWritten
  <1>5. CASE lock[o] = Null /\ file[o].status \in Startable
    <2>1. CASE /\ file' = [file EXCEPT ![o] = Written(@, "running")]
               /\ lock' = [lock EXCEPT ![o] = Elsewhere]
      BY <1>4, <1>5, <2>1 DEF Startable
    <2> QED BY <1>3, <1>5, <2>1 DEF Outside, Elsewhere
  <1>6. CASE lock[o] = Elsewhere /\ lock' = [lock EXCEPT ![o] = Null] /\ lock[o] # Null
    <2>1. file[o].status = "running" BY <1>1, <1>6 DEF FilesOK
    <2>2. CASE file' = file BY <1>1, <1>6, <2>2, LockReleased
    <2>3. ASSUME NEW s \in {"archived", "failed"}, file' = [file EXCEPT ![o] = Written(@, s)]
          PROVE  Grows
      BY <1>4, <1>6, <2>1, <2>3
    <2> QED BY <1>6, <2>2, <2>3 DEF Outside, Elsewhere
  <1> QED BY <1>5, <1>6 DEF Outside, Elsewhere

LEMMA OutsideDisk ==
    ASSUME DiskInv, Null \notin Nat, IdsInv, NEW o \in Orders, Outside(o)
    PROVE  DiskInv'
  <1>1. Grows /\ panel' = panel /\ calls' = calls /\ refreshes' = refreshes
    BY OutsideGrows DEF Outside
  <1>2. /\ lock[o] \in {Null, Elsewhere} /\ FilesOK
        /\ \A q \in Orders : q # o => lock'[q] = lock[q]
    BY DEF Outside, DiskInv, FilesOK
  <1>3. ASSUME NEW c \in calls PROVE GoodCall(c)'
    <2>1. ASSUME c.kind = "execute", c.at = "running" PROVE lock'[c.o] = lock[c.o]
      <3>1. lock[c.o] = c.id /\ c.o \in Orders /\ c.id # Elsewhere BY <2>1 DEF DiskInv, GoodCall
      <3>2. c.id \in Nat BY <2>1 DEF IdsInv, IdsOK, Runs
      <3> QED BY <1>2, <3>1, <3>2
    <2> QED BY <1>1, <2>1, CallStaysGood DEF DiskInv
  <1>4. (\A r \in refreshes : GoodRefresh(r)') /\ GoodPanel(panel)'
    BY <1>1, RefreshStaysGood, PanelStaysGood DEF DiskInv
  <1> QED BY <1>1, <1>3, <1>4 DEF DiskInv, Grows

LEMMA InnerDisk ==
    ASSUME DiskInv, BusyInv, NEW r \in refreshes, InnerStep(r)
    PROVE  DiskInv'
  <1>1. InnerGood(r) /\ panel' = panel /\ calls' = calls BY InnerIsGood, ShapesHold, InnerMoves
  <1>2. PICK s : /\ Goes(r, s) /\ s.same = r.same
                 /\ s.at = "write" => s.seen.o \in Orders /\ s.seen.w.status = "running"
                 /\ \A f \in s.fixed : f \in r.fixed \/ Marked(f)
    BY <1>1 DEF InnerGood
  <1>3. Grows /\ lock' = lock BY <1>1 DEF InnerGood
  <1>4. \A q \in refreshes : GoodRefresh(q)' BY <1>3, RefreshStaysGood DEF DiskInv
  <1>5. \A f \in s.fixed : f.o \in Orders /\ Known(f.o, f.w)' BY <1>2, <1>4 DEF GoodRefresh, Marked
  <1>6. GoodRefresh(s)' BY <1>2, <1>5 DEF GoodRefresh
  <1>7. \A q \in refreshes' : GoodRefresh(q)' BY <1>2, <1>4, <1>6 DEF Goes
  <1>8. GoodPanel(panel)'
    <2>p. PICK p : p = panel OBVIOUS
    <2>1. GoodPanel(p)' BY <1>3, <2>p, PanelStaysGood DEF DiskInv
    <2> QED BY <1>1, <2>p, <2>1 DEF GoodPanel
  <1>9. ASSUME NEW c \in calls PROVE GoodCall(c)'
    <2>1. GoodCall(c) /\ (c.kind = "execute" /\ c.at = "running" => lock'[c.o] = lock[c.o])
      BY <1>3 DEF DiskInv
    <2> QED BY <1>3, <2>1, CallStaysGood
  <1> QED BY <1>1, <1>3, <1>7, <1>8, <1>9 DEF DiskInv, Grows

-----------------------------------------------------------------------------
(* What is selected, and what is on display.                                 *)

\* Everything that is under way for the selection is about the order clicked last; an
\* edit is saved from its dialog; while an order is read nothing is on display.
Follows(p, cs, k) ==
    /\ p.shown # Null => p.shown.o = k
    /\ p.editing # Null => p.editing.o = k
    /\ \A c \in cs : c.sel /\ c.kind \notin {"create", "delete"} => c.o = k
    /\ \A c \in cs : c.mine /\ c.kind = "edit" => c.sel /\ p.editing # Null
    /\ \A c \in cs : c.sel /\ c.kind = "read" =>
          /\ p.shown = Null /\ p.editing = Null
          /\ \A d \in cs : d.sel => d.kind \in {"read", "create", "delete"}
\* What a refresh has marked is not older than what has been on display since it began.
Ordered(p, rs) ==
    p.shown # Null => \A r \in rs : r.same =>
        \A f \in r.fixed : f.o = p.shown.o => p.shown.w.n <= f.w.n
DisplayInv == DiskInv /\ Follows(panel, calls, clicked) /\ Ordered(panel, refreshes)
NoOlder ==
    panel.shown # Null /\ panel'.shown # Null
        => \/ panel'.shown.w.n >= panel.shown.w.n
           \/ \E c \in calls : Brings(c, panel'.shown.w)

\* What a step of the page leaves of a call and of a refresh: answers may come too late
\* for it, a run is sent.
Alike(c, d) ==
    /\ d.kind = c.kind /\ d.o = c.o /\ d.id = c.id /\ d.base = c.base
    /\ d.at = c.at \/ (d.kind = "execute" /\ d.at = "native")
    /\ d.seen = c.seen /\ d.result = c.result
Stays(c, d) ==
    /\ Alike(c, d) /\ (d.mine => c.mine) /\ (d.sel => c.sel)
    /\ d.mine /\ d.kind = "edit" /\ c.sel => d.sel
RefreshStays(r, s) ==
    s.at = r.at /\ s.seen = r.seen /\ s.fixed = r.fixed /\ (s.same => r.same)
NewlyAsked(s) == s.at # "write" /\ s.fixed = {}

LEMMA FollowsOn ==
    ASSUME NEW p, NEW cs, NEW k, Follows(p, cs, k), NEW q, NEW ds,
           \A d \in ds : \E c \in cs : Stays(c, d),
           q.shown # Null => q.shown.o = k, q.editing # Null => q.editing.o = k,
           q.editing # Null \/ \A d \in ds : ~(d.mine /\ d.kind = "edit"),
           (q.shown = Null /\ q.editing = Null) \/ \A d \in ds : ~(d.sel /\ d.kind = "read")
    PROVE  Follows(q, ds, k)
  <1>1. \A d \in ds : d.sel /\ d.kind \notin {"create", "delete"} => d.o = k
    BY DEF Follows, Stays, Alike
  <1>2. \A d \in ds : d.mine /\ d.kind = "edit" => d.sel /\ q.editing # Null
    BY DEF Follows, Stays, Alike
  <1>3. ASSUME NEW d \in ds, d.sel, d.kind = "read"
        PROVE  /\ q.shown = Null /\ q.editing = Null
               /\ \A e \in ds : e.sel => e.kind \in {"read", "create", "delete"}
    <2>1. PICK c \in cs : Stays(c, d) OBVIOUS
    <2>2. \A e \in cs : e.sel => e.kind \in {"read", "create", "delete"}
      BY <1>3, <2>1 DEF Follows, Stays, Alike
    <2> QED BY <1>3, <2>2 DEF Stays, Alike
  <1> QED BY <1>1, <1>2, <1>3 DEF Follows

LEMMA FollowsNew ==
    ASSUME NEW p, NEW cs, NEW k, Follows(p, cs, k), NEW n, n.sel, n.kind # "read",
           n.kind \in {"create", "delete"} \/ (n.o = k /\ p.shown # Null),
           n.kind = "edit" => p.editing # Null
    PROVE  Follows(p, cs \cup {n}, k)
  <1>1. ASSUME NEW c \in cs, c.sel, c.kind = "read"
        PROVE  /\ p.shown = Null /\ p.editing = Null
               /\ \A d \in cs \cup {n} : d.sel => d.kind \in {"read", "create", "delete"}
    BY <1>1 DEF Follows
  <1> QED BY <1>1 DEF Follows

LEMMA KnownIsInt == ASSUME DiskInv, panel.shown # Null PROVE panel.shown.w.n \in Nat
  BY DEF DiskInv, GoodPanel, Known, Content

LEMMA UiDisk ==
    ASSUME DiskInv, file' = file, lock' = lock,
           \A d \in calls' : (\E c \in calls : Alike(c, d)) \/ GoodCall(d),
           \A s \in refreshes' : (\E r \in refreshes : RefreshStays(r, s)) \/ NewlyAsked(s),
           NEW p, panel' = p, GoodPanel(p)
    PROVE  DiskInv'
  <1>1. Grows BY NothingWrittenGrows DEF DiskInv
  <1>2. ASSUME NEW d \in calls' PROVE GoodCall(d)'
    <2>1. GoodCall(d) BY DEF DiskInv, Alike, GoodCall
    <2> QED BY <1>1, <2>1, CallStaysGood
  <1>3. ASSUME NEW s \in refreshes' PROVE GoodRefresh(s)'
    <2>1. GoodRefresh(s) BY DEF DiskInv, RefreshStays, GoodRefresh, NewlyAsked
    <2> QED BY <1>1, <2>1, RefreshStaysGood
  <1>4. GoodPanel(p)' BY <1>1, PanelStaysGood
  <1>5. GoodPanel(panel)' BY <1>4 DEF GoodPanel
  <1> QED BY <1>1, <1>2, <1>3, <1>5 DEF DiskInv, Grows

\* The display stays, and nothing new is asked but by a refresh.
LEMMA QuietStep ==
    ASSUME DisplayInv, file' = file, lock' = lock, clicked' = clicked,
           \A d \in calls' : \E c \in calls : Stays(c, d),
           \A s \in refreshes' : (\E r \in refreshes : RefreshStays(r, s)) \/ NewlyAsked(s),
           panel'.shown = panel.shown, panel'.editing = panel.editing
    PROVE  DisplayInv' /\ NoOlder
  <1>p. PICK p : p = panel' OBVIOUS
  <1>1. GoodPanel(p) BY <1>p DEF DisplayInv, DiskInv, GoodPanel
  <1>2. \A d \in calls' : (\E c \in calls : Alike(c, d)) \/ GoodCall(d) BY DEF Stays
  <1>3. DiskInv' BY <1>p, <1>1, <1>2, UiDisk DEF DisplayInv
  <1>4. Follows(p, calls', clicked)
    <2>1. p.editing # Null \/ \A d \in calls' : ~(d.mine /\ d.kind = "edit")
      BY <1>p DEF DisplayInv, Follows, Stays, Alike
    <2>2. (p.shown = Null /\ p.editing = Null) \/ \A d \in calls' : ~(d.sel /\ d.kind = "read")
      BY <1>p DEF DisplayInv, Follows, Stays, Alike
    <2>3. (p.shown # Null => p.shown.o = clicked) /\ (p.editing # Null => p.editing.o = clicked)
      BY <1>p DEF DisplayInv, Follows
    <2> QED BY <2>1, <2>2, <2>3, FollowsOn DEF DisplayInv
  <1>5. Follows(panel, calls, clicked)' BY <1>p, <1>4 DEF Follows
  <1>6. Ordered(panel, refreshes)' BY DEF DisplayInv, Ordered, RefreshStays, NewlyAsked
  <1>7. NoOlder BY KnownIsInt DEF NoOlder, DisplayInv
  <1> QED BY <1>3, <1>5, <1>6, <1>7 DEF DisplayInv

\* The page asks for something.
LEMMA AskedStep ==
    ASSUME DisplayInv, file' = file, lock' = lock, clicked' = clicked, refreshes' = refreshes,
           NEW cs, \A d \in cs : \E c \in calls : Stays(c, d), NEW n, calls' = cs \cup {n},
           n.sel, n.kind # "read", GoodCall(n),
           n.kind \in {"create", "delete"} \/ (n.o = clicked /\ panel.shown # Null),
           n.kind = "edit" => panel.editing # Null,
           panel'.shown = panel.shown, panel'.editing = panel.editing
    PROVE  DisplayInv' /\ NoOlder
  <1>p. PICK p : p = panel' OBVIOUS
  <1>1. GoodPanel(p) BY <1>p DEF DisplayInv, DiskInv, GoodPanel
  <1>2. \A d \in calls' : (\E c \in calls : Alike(c, d)) \/ GoodCall(d) BY DEF Stays
  <1>0. \A s \in refreshes' : (\E r \in refreshes : RefreshStays(r, s)) \/ NewlyAsked(s)
    BY DEF RefreshStays
  <1>3. DiskInv' BY <1>p, <1>0, <1>1, <1>2, UiDisk DEF DisplayInv
  <1>4. Follows(p, cs, clicked)
    <2>1. p.editing # Null \/ \A d \in cs : ~(d.mine /\ d.kind = "edit")
      BY <1>p DEF DisplayInv, Follows, Stays, Alike
    <2>2. (p.shown = Null /\ p.editing = Null) \/ \A d \in cs : ~(d.sel /\ d.kind = "read")
      BY <1>p DEF DisplayInv, Follows, Stays, Alike
    <2>3. (p.shown # Null => p.shown.o = clicked) /\ (p.editing # Null => p.editing.o = clicked)
      BY <1>p DEF DisplayInv, Follows
    <2> QED BY <2>1, <2>2, <2>3, FollowsOn DEF DisplayInv
  <1>5. Follows(p, cs \cup {n}, clicked) BY <1>p, <1>4, FollowsNew
  <1>6. Follows(panel, calls, clicked)' BY <1>p, <1>5 DEF Follows
  <1>7. Ordered(panel, refreshes)' BY DEF DisplayInv, Ordered
  <1>8. NoOlder BY KnownIsInt DEF NoOlder, DisplayInv
  <1> QED BY <1>3, <1>6, <1>7, <1>8 DEF DisplayInv

\* Something else is on display: refreshes will notice.
LEMMA RedisplayStep ==
    ASSUME DisplayInv, file' = file, lock' = lock, clicked' = clicked,
           \A d \in calls' : \E c \in calls : Stays(c, d),
           \A s \in refreshes' :
               (~s.same /\ \E r \in refreshes : RefreshStays(r, s)) \/ NewlyAsked(s),
           NEW p, panel' = p, GoodPanel(p),
           p.shown # Null => p.shown.o = clicked, p.editing # Null => p.editing.o = clicked,
           p.editing # Null \/ \A d \in calls' : ~(d.mine /\ d.kind = "edit"),
           (p.shown = Null /\ p.editing = Null) \/ \A d \in calls' : ~(d.sel /\ d.kind = "read"),
           NoOlder
    PROVE  DisplayInv' /\ NoOlder
  <1>1. \A d \in calls' : (\E c \in calls : Alike(c, d)) \/ GoodCall(d) BY DEF Stays
  <1>2. DiskInv' BY <1>1, UiDisk DEF DisplayInv
  <1>3. Follows(p, calls', clicked) BY FollowsOn DEF DisplayInv
  <1>4. Follows(panel, calls, clicked)' BY <1>3 DEF Follows
  <1>5. Ordered(panel, refreshes)' BY DEF Ordered, NewlyAsked
  <1> QED BY <1>2, <1>4, <1>5 DEF DisplayInv

\* Nothing is on display, and no dialog is open.
LEMMA ClearedStep ==
    ASSUME DisplayInv, file' = file, lock' = lock,
           \A d \in calls' : (\E c \in calls : Alike(c, d)) \/ GoodCall(d),
           \A s \in refreshes' : (\E r \in refreshes : RefreshStays(r, s)) \/ NewlyAsked(s),
           NEW p, panel' = p, p.shown = Null, p.editing = Null,
           \A d \in calls' : ~(d.mine /\ d.kind = "edit"),
           \A d \in calls' : d.sel =>
               /\ d.kind \in {"read", "create", "delete"}
               /\ d.kind = "read" => d.o = clicked'
    PROVE  DisplayInv' /\ NoOlder
  <1>1. GoodPanel(p) BY DEF GoodPanel
  <1>2. DiskInv' BY <1>1, UiDisk DEF DisplayInv
  <1>3. Follows(panel, calls, clicked)' BY DEF Follows
  <1>4. Ordered(panel, refreshes)' /\ NoOlder BY DEF Ordered, NoOlder
  <1> QED BY <1>2, <1>3, <1>4 DEF DisplayInv

LEMMA ItStays == (\A c : Stays(c, c)) /\ (\A r : RefreshStays(r, r))
  BY DEF Stays, Alike, RefreshStays
LEMMA ItStaysOn == ASSUME NEW c, NEW d, NEW e, Stays(c, d), Stays(d, e) PROVE Stays(c, e)
  BY DEF Stays, Alike

LEMMA SameClearedStays ==
    ASSUME NEW c, IsCall(c), NEW d, d = [c EXCEPT !.same = FALSE] PROVE Stays(c, d)
  BY DEF IsCall, Stays, Alike
LEMMA SelClearedAlike ==
    ASSUME NEW c, IsCall(c), NEW d, d = [c EXCEPT !.sel = FALSE]
    PROVE  Alike(c, d) /\ d.mine = c.mine /\ ~d.sel
  BY DEF IsCall, Alike
LeftCall(c) == [c EXCEPT !.mine = FALSE, !.sel = FALSE, !.same = FALSE]
LEMMA LeftAlike ==
    ASSUME NEW c, IsCall(c), NEW d, d = LeftCall(c)
    PROVE  Alike(c, d) /\ ~d.mine /\ ~d.sel
  BY DEF IsCall, Alike, LeftCall
LEMMA RefreshSameClearedStays ==
    ASSUME NEW r, IsRefresh(r), NEW s, s = [r EXCEPT !.same = FALSE]
    PROVE  RefreshStays(r, s) /\ ~s.same
  BY DEF IsRefresh, RefreshStays
LeftRefresh(r) == [r EXCEPT !.mine = FALSE, !.same = FALSE]
LEMMA LeftRefreshStays ==
    ASSUME NEW r, IsRefresh(r), NEW s, s = LeftRefresh(r) PROVE RefreshStays(r, s)
  BY DEF IsRefresh, RefreshStays, LeftRefresh
LEMMA NewRefreshIsNew ==
    ASSUME NEW p, NEW frees, NEW run, NEW r, r = NewRefresh(p, frees, run) PROVE NewlyAsked(r)
  BY DEF NewRefresh, NewlyAsked

LEMMA ReassignedStay ==
    ASSUME NEW cs, \A c \in cs : IsCall(c), NEW d \in Reassigned(cs)
    PROVE  \E c \in cs : Stays(c, d)
  <1>1. PICK c \in cs : d = [c EXCEPT !.same = FALSE] BY DEF Reassigned
  <1> QED BY <1>1, SameClearedStays
LEMMA SupersededAlike ==
    ASSUME NEW cs, \A c \in cs : IsCall(c), NEW d \in Superseded(cs)
    PROVE  \E c \in cs : Alike(c, d) /\ d.mine = c.mine /\ ~d.sel
  <1>1. PICK c \in cs : d = [c EXCEPT !.sel = FALSE] BY DEF Superseded
  <1> QED BY <1>1, SelClearedAlike
LEMMA PreviewClosedStay ==
    ASSUME NEW cs, \A c \in cs : IsCall(c), NEW d \in PreviewClosed(cs)
    PROVE  \E c \in cs : Stays(c, d)
  <1>1. PICK c \in cs : d = IF c.kind = "preview" THEN [c EXCEPT !.sel = FALSE] ELSE c
    BY DEF PreviewClosed
  <1>2. CASE c.kind = "preview"
    <2>1. Alike(c, d) /\ d.mine = c.mine /\ ~d.sel BY <1>1, <1>2, SelClearedAlike
    <2> QED BY <1>2, <2>1 DEF Stays, Alike
  <1> QED BY <1>1, <1>2, ItStays
LEMMA RefreshesReassignedStay ==
    ASSUME NEW rs, \A r \in rs : IsRefresh(r), NEW s \in Reassigned(rs)
    PROVE  ~s.same /\ \E r \in rs : RefreshStays(r, s)
  <1>1. PICK r \in rs : s = [r EXCEPT !.same = FALSE] BY DEF Reassigned
  <1> QED BY <1>1, RefreshSameClearedStays

\* The display and the dialog of a page whose buttons change.
AsShown(p, q) == q.shown = p.shown /\ q.editing = p.editing
LEMMA ReleasedShows ==
    ASSUME NEW p, IsPanel(p), NEW frees PROVE AsShown(p, Released(p, frees))
  BY DEF IsPanel, AsShown, Released
LEMMA FlagsShow ==
    ASSUME NEW p, IsPanel(p), NEW v
    PROVE  /\ AsShown(p, [p EXCEPT !.refreshing = v]) /\ AsShown(p, [p EXCEPT !.reading = v])
           /\ AsShown(p, [p EXCEPT !.writing = v]) /\ AsShown(p, [p EXCEPT !.cancelling = v])
           /\ AsShown(p, [p EXCEPT !.previewing = v]) /\ AsShown(p, [p EXCEPT !.list = v])
  BY DEF IsPanel, AsShown
LEMMA ItShows ==
    /\ \A p : AsShown(p, p)
    /\ \A p, q, r : AsShown(p, q) /\ AsShown(q, r) => AsShown(p, r)
  BY DEF AsShown

LEMMA ThenRefreshShows ==
    ASSUME NEW p, IsPanel(p), NEW rs, NEW frees, NEW run, ThenRefresh(p, rs, frees, run)
    PROVE  AsShown(p, panel') /\ \A s \in refreshes' : s \in rs \/ NewlyAsked(s)
  <1>1. CASE p.refreshing BY <1>1, ReleasedShows DEF ThenRefresh
  <1>2. CASE ~p.refreshing
    <2>1. panel' = [p EXCEPT !.refreshing = TRUE]
          /\ refreshes' = rs \cup {NewRefresh(p, frees, run)}
      BY <1>2 DEF ThenRefresh
    <2> QED BY <2>1, FlagsShow, NewRefreshIsNew
  <1> QED BY <1>1, <1>2

\* The revision on display is another one.
WithRevision(p, w) == [p EXCEPT !.shown.w = w]
LEMMA RevisionShown ==
    ASSUME NEW p, IsPanel(p), GoodPanel(p), p.shown # Null, NEW w, Known(p.shown.o, w),
           NEW q, q = WithRevision(p, w)
    PROVE  /\ q.shown.o = p.shown.o /\ q.shown.w = w /\ q.editing = p.editing /\ GoodPanel(q)
  <1>1. p.shown = [o |-> p.shown.o, w |-> p.shown.w, path |-> p.shown.path]
    BY DEF GoodPanel, Display
  <1>d. PICK d : d = [p.shown EXCEPT !.w = w] OBVIOUS
  <1>2. d = [o |-> p.shown.o, w |-> w, path |-> p.shown.path] BY <1>1, <1>d
  <1>3. q = [p EXCEPT !.shown = d] BY <1>d DEF WithRevision
  <1>4. q.shown = d /\ q.editing = p.editing BY <1>3 DEF IsPanel
  <1> QED BY <1>2, <1>4 DEF GoodPanel, Display
\* Another work order is on display.
WithOrder(p, o, w, path) == [p EXCEPT !.shown = Display(o, w, path)]
LEMMA OrderShown ==
    ASSUME NEW p, IsPanel(p), GoodPanel(p), NEW o \in Orders, NEW w, Known(o, w), NEW path,
           NEW q, q = WithOrder(p, o, w, path)
    PROVE  q.shown.o = o /\ q.shown.w = w /\ q.editing = p.editing /\ GoodPanel(q)
  <1>1. q.shown = Display(o, w, path) /\ q.editing = p.editing BY DEF IsPanel, WithOrder
  <1> QED BY <1>1 DEF GoodPanel, Display

-----------------------------------------------------------------------------
(* What the user does, and the display                                       *)

LEMMA NewCallIs ==
    ASSUME NEW kind, NEW o, NEW base, NEW at, NEW c, c = NewCall(kind, o, base, at)
    PROVE  /\ c.kind = kind /\ c.o = o /\ c.base = base /\ c.at = at /\ c.id = inputs'
           /\ c.mine /\ c.sel /\ c.result = Null
  BY DEF NewCall

LEMMA ShapesOfPage == ASSUME BusyInv PROVE IsPanel(panel)
  BY DEF BusyInv, PageOK, Shapes

LEMMA FoundIsGood ==
    ASSUME DisplayInv, panel.shown # Null
    PROVE  /\ panel.shown.o \in Orders /\ panel.shown.o = clicked
           /\ Known(panel.shown.o, panel.shown.w)
  BY DEF DisplayInv, DiskInv, GoodPanel, Follows

LEMMA WritesDisplay ==
    ASSUME BusyInv, DisplayInv, NEW kind \in {"complete", "edit", "create", "delete"}, NEW o \in Orders,
           NEW base, NEW at \in {"check", "native"}, Writes(kind, o, base, at),
           kind \in {"complete", "edit"} =>
               /\ at = "check" /\ Known(o, base) /\ base.status # "archived"
               /\ o = clicked /\ panel.shown # Null,
           kind = "edit" => panel.editing # Null
    PROVE  DisplayInv' /\ NoOlder
  <1>c. PICK c : c = NewCall(kind, o, base, at) OBVIOUS
  <1>1. /\ c.kind = kind /\ c.o = o /\ c.base = base /\ c.at = at /\ c.sel /\ c.result = Null
    BY <1>c, NewCallIs
  <1>2. GoodCall(c) BY <1>1 DEF GoodCall
  <1>3. /\ calls' = calls \cup {c} /\ refreshes' = refreshes
        /\ file' = file /\ lock' = lock /\ clicked' = clicked
    BY <1>c DEF Writes
  <1>4. panel'.shown = panel.shown /\ panel'.editing = panel.editing
    BY ShapesOfPage, FlagsShow DEF Writes, AsShown
  <1>5. \A d \in calls : \E e \in calls : Stays(e, d) BY ItStays
  <1>6. c.kind # "read" /\ (c.kind = "edit" => panel.editing # Null) BY <1>1
  <1>7. c.kind \in {"create", "delete"} \/ (c.o = clicked /\ panel.shown # Null) BY <1>1
  <1> QED BY <1>1, <1>2, <1>3, <1>4, <1>5, <1>6, <1>7, AskedStep

LEMMA CompleteDisplay == ASSUME BusyInv, DisplayInv, Complete PROVE DisplayInv' /\ NoOlder
  <1>1. panel.shown # Null /\ panel.shown.w.status # "archived" BY DEF Complete, PathKnown
  <1>2. Writes("complete", panel.shown.o, panel.shown.w, "check") BY DEF Complete
  <1> QED BY <1>1, <1>2, FoundIsGood, WritesDisplay

LEMMA SubmitEditDisplay == ASSUME BusyInv, DisplayInv, SubmitEdit PROVE DisplayInv' /\ NoOlder
  <1>1. panel.shown # Null /\ panel.editing # Null BY DEF SubmitEdit, PathKnown
  <1>2. Writes("edit", panel.editing.o, panel.editing.w, "check") BY DEF SubmitEdit
  <1>3. /\ panel.editing.o \in Orders /\ panel.editing.o = clicked
        /\ Known(panel.editing.o, panel.editing.w) /\ panel.editing.w.status # "archived"
    BY <1>1 DEF DisplayInv, DiskInv, GoodPanel, Follows
  <1> QED BY <1>1, <1>2, <1>3, WritesDisplay

LEMMA CreateDisplay ==
    ASSUME BusyInv, DisplayInv, NEW o \in Orders, Create(o) \/ Delete(o) PROVE DisplayInv' /\ NoOlder
  BY WritesDisplay DEF Create, Delete

LEMMA PreviewDisplay == ASSUME BusyInv, DisplayInv, Preview PROVE DisplayInv' /\ NoOlder
  <1>c. PICK c : c = NewCall("preview", panel.shown.o, panel.shown.w, "answer") OBVIOUS
  <1>0. panel.shown # Null BY DEF Preview
  <1>1. c.kind = "preview" /\ c.o = panel.shown.o /\ c.sel /\ c.result = Null BY <1>c, NewCallIs
  <1>2. GoodCall(c) /\ c.o = clicked BY <1>0, <1>1, FoundIsGood DEF GoodCall
  <1>3. /\ calls' = calls \cup {c} /\ refreshes' = refreshes
        /\ file' = file /\ lock' = lock /\ clicked' = clicked
    BY <1>c DEF Preview
  <1>4. panel'.shown = panel.shown /\ panel'.editing = panel.editing
    BY ShapesOfPage, FlagsShow DEF Preview, AsShown
  <1>5. \A d \in calls : \E e \in calls : Stays(e, d) BY ItStays
  <1>6. c.kind # "read" /\ (c.kind = "edit" => panel.editing # Null) BY <1>1
  <1>7. c.kind \in {"create", "delete"} \/ (c.o = clicked /\ panel.shown # Null) BY <1>0, <1>2
  <1> QED BY <1>1, <1>2, <1>3, <1>4, <1>5, <1>6, <1>7, AskedStep

TokenCall(c, token) == [c EXCEPT !.token = token]
LEMMA TokenAlike ==
    ASSUME NEW c, IsCall(c), NEW token, NEW d, d = TokenCall(c, token)
    PROVE  Alike(c, d) /\ d.at = c.at /\ d.mine = c.mine /\ d.sel = c.sel
  BY DEF IsCall, Alike, TokenCall

LEMMA CancelDisplay == ASSUME BusyInv, DisplayInv, Cancel PROVE DisplayInv' /\ NoOlder
  <1>b. PICK b : b = NewCall("cancel", panel.shown.o, panel.shown.w, "native") OBVIOUS
  <1>c. PICK c : c = TokenCall(b, ids[b.o]) OBVIOUS
  <1>0. panel.shown # Null BY DEF Cancel
  <1>1. /\ IsCall(b) /\ b.kind = "cancel" /\ b.o = panel.shown.o /\ b.base = panel.shown.w
        /\ b.at = "native" /\ b.sel /\ b.result = Null
    BY <1>b, NewCallIs, NewCallIsCall
  <1>2. /\ c.kind = "cancel" /\ c.o = panel.shown.o /\ c.base = panel.shown.w
        /\ c.at = "native" /\ c.sel /\ c.result = Null
    BY <1>1, <1>c, TokenAlike DEF Alike
  <1>3. GoodCall(c) /\ c.o = clicked BY <1>0, <1>2, FoundIsGood DEF GoodCall
  <1>4. /\ calls' = calls \cup {c} /\ refreshes' = refreshes
        /\ file' = file /\ lock' = lock /\ clicked' = clicked
    BY <1>b, <1>c DEF Cancel, TokenCall
  <1>5. panel'.shown = panel.shown /\ panel'.editing = panel.editing
    BY ShapesOfPage, FlagsShow DEF Cancel, AsShown
  <1>6. \A d \in calls : \E e \in calls : Stays(e, d) BY ItStays
  <1>7. c.kind # "read" /\ (c.kind = "edit" => panel.editing # Null) BY <1>2
  <1>8. c.kind \in {"create", "delete"} \/ (c.o = clicked /\ panel.shown # Null) BY <1>0, <1>3
  <1> QED BY <1>2, <1>3, <1>4, <1>5, <1>6, <1>7, <1>8, AskedStep

Confirmed(p) == [p EXCEPT !.writing = TRUE, !.estimate = Null, !.previewing = FALSE]
LEMMA ConfirmedShows == ASSUME NEW p, IsPanel(p) PROVE AsShown(p, Confirmed(p))
  BY DEF IsPanel, AsShown, Confirmed

LEMMA ConfirmDisplay == ASSUME BusyInv, IdsInv, DisplayInv, Confirm PROVE DisplayInv' /\ NoOlder
  <1>b. PICK b : b = NewCall("execute", panel.shown.o, panel.shown.w, "context") OBVIOUS
  <1>c. PICK c : c = TokenCall(b, panel.estimate) OBVIOUS
  <1>0. panel.shown # Null /\ inputs' = inputs + 1 /\ inputs \in Nat
    BY DEF Confirm, PathKnown, Input, IdsInv
  <1>1. /\ IsCall(b) /\ b.kind = "execute" /\ b.o = panel.shown.o /\ b.base = panel.shown.w
        /\ b.at = "context" /\ b.sel /\ b.result = Null /\ b.id = inputs'
    BY <1>b, NewCallIs, NewCallIsCall
  <1>2. /\ c.kind = "execute" /\ c.o = panel.shown.o /\ c.base = panel.shown.w
        /\ c.at = "context" /\ c.sel /\ c.result = Null /\ c.id = inputs'
    BY <1>1, <1>c, TokenAlike DEF Alike
  <1>i. c.id # Elsewhere BY <1>0, <1>2 DEF Elsewhere
  <1>3. GoodCall(c) /\ c.o = clicked BY <1>0, <1>2, <1>i, FoundIsGood DEF GoodCall
  <1>4. /\ calls' = PreviewClosed(calls) \cup {c} /\ refreshes' = refreshes
        /\ file' = file /\ lock' = lock /\ clicked' = clicked
    BY <1>b, <1>c DEF Confirm, TokenCall
  <1>5. panel'.shown = panel.shown /\ panel'.editing = panel.editing
    BY ShapesOfPage, ConfirmedShows DEF Confirm, AsShown, Confirmed
  <1>6. \A d \in PreviewClosed(calls) : \E e \in calls : Stays(e, d)
    BY ShapesHold, PreviewClosedStay
  <1>7. c.kind # "read" /\ (c.kind = "edit" => panel.editing # Null) BY <1>2
  <1>8. c.kind \in {"create", "delete"} \/ (c.o = clicked /\ panel.shown # Null) BY <1>0, <1>3
  <1> QED BY <1>2, <1>3, <1>4, <1>5, <1>6, <1>7, <1>8, AskedStep

EstimateClosed(p) == [p EXCEPT !.estimate = Null, !.previewing = FALSE]
LEMMA EstimateClosedShows == ASSUME NEW p, IsPanel(p) PROVE AsShown(p, EstimateClosed(p))
  BY DEF IsPanel, AsShown, EstimateClosed

LEMMA RefreshesAsBefore ==
    ASSUME refreshes' = refreshes
    PROVE  \A s \in refreshes' : (\E r \in refreshes : RefreshStays(r, s)) \/ NewlyAsked(s)
  BY ItStays

LEMMA ClosePreviewDisplay == ASSUME BusyInv, DisplayInv, ClosePreview PROVE DisplayInv' /\ NoOlder
  <1>1. /\ calls' = PreviewClosed(calls) /\ refreshes' = refreshes
        /\ file' = file /\ lock' = lock /\ clicked' = clicked
    BY DEF ClosePreview
  <1>2. panel'.shown = panel.shown /\ panel'.editing = panel.editing
    BY ShapesOfPage, EstimateClosedShows DEF ClosePreview, AsShown, EstimateClosed
  <1>3. \A d \in calls' : \E c \in calls : Stays(c, d) BY <1>1, ShapesHold, PreviewClosedStay
  <1> QED BY <1>1, <1>2, <1>3, RefreshesAsBefore, QuietStep

\* The dialog of an edit: it is not open while an order is read, nor closed while one is
\* saved.
LEMMA EditingSet ==
    ASSUME NEW p, IsPanel(p), NEW d, NEW q, q = [p EXCEPT !.editing = d]
    PROVE  q.shown = p.shown /\ q.editing = d
  BY DEF IsPanel

LEMMA EditDialogDisplay ==
    ASSUME BusyInv, DisplayInv, OpenEdit \/ CloseEdit PROVE DisplayInv' /\ NoOlder
  <1>p. PICK p : p = panel' OBVIOUS
  <1>1. /\ calls' = calls /\ refreshes' = refreshes
        /\ file' = file /\ lock' = lock /\ clicked' = clicked
    BY DEF OpenEdit, CloseEdit
  <1>2. (\A d \in calls' : \E c \in calls : Stays(c, d))
        /\ \A d \in calls' : (\E c \in calls : Alike(c, d)) \/ GoodCall(d)
    BY <1>1, ItStays DEF Stays
  <1>3. p.shown = panel.shown /\ \/ OpenEdit /\ p.editing = Display(panel.shown.o, panel.shown.w, TRUE)
                                 \/ CloseEdit /\ p.editing = Null
    <2>1. CASE OpenEdit
      <3>1. p = [panel EXCEPT !.editing = Display(panel.shown.o, panel.shown.w, TRUE)]
        BY <1>p, <2>1 DEF OpenEdit
      <3> QED BY <2>1, <3>1, ShapesOfPage, EditingSet
    <2>2. CASE CloseEdit
      <3>1. p = [panel EXCEPT !.editing = Null] BY <1>p, <2>2 DEF CloseEdit
      <3> QED BY <2>2, <3>1, ShapesOfPage, EditingSet
    <2> QED BY <2>1, <2>2
  <1>4. GoodPanel(p) /\ Follows(p, calls, clicked)
    <2>1. CASE OpenEdit /\ p.editing = Display(panel.shown.o, panel.shown.w, TRUE)
      <3>1. panel.shown # Null /\ panel.shown.w.status # "archived" /\ panel.editing = Null
        BY <2>1 DEF OpenEdit, PathKnown, NoDialog
      <3>2. p.editing.o = panel.shown.o /\ p.editing.w = panel.shown.w BY <2>1 DEF Display
      <3>3. GoodPanel(p) BY <1>3, <3>1, <3>2, FoundIsGood DEF DisplayInv, DiskInv, GoodPanel
      <3>4. /\ \A d \in calls : ~(d.mine /\ d.kind = "edit")
            /\ \A d \in calls : ~(d.sel /\ d.kind = "read")
        BY <3>1 DEF DisplayInv, Follows
      <3>5. Follows(panel, calls, clicked) BY DEF DisplayInv
      <3>6. (p.shown # Null => p.shown.o = clicked) /\ (p.editing # Null => p.editing.o = clicked)
        BY <1>3, <3>1, <3>2, FoundIsGood
      <3>7. Follows(p, calls, clicked) BY <3>4, <3>5, <3>6, FollowsOn, ItStays
      <3> QED BY <3>3, <3>7
    <2>2. CASE CloseEdit /\ p.editing = Null
      <3>1. GoodPanel(p) BY <1>3, <2>2 DEF DisplayInv, DiskInv, GoodPanel
      <3>2. ~panel.writing BY <2>2 DEF CloseEdit
      <3>3. Own(calls, WriteKinds) = {} BY <3>2 DEF BusyInv, PageOK, Buttons, Exact
      <3>4. \A d \in calls : ~(d.mine /\ d.kind = "edit") BY <3>3 DEF Own
      <3>5. panel.editing # Null BY <2>2 DEF CloseEdit
      <3>6. \A d \in calls : ~(d.sel /\ d.kind = "read") BY <3>5 DEF DisplayInv, Follows
      <3>7. Follows(panel, calls, clicked) BY DEF DisplayInv
      <3>8. (p.shown # Null => p.shown.o = clicked) /\ (p.editing # Null => p.editing.o = clicked)
        BY <1>3, <2>2, FoundIsGood
      <3>9. Follows(p, calls, clicked) BY <3>4, <3>6, <3>7, <3>8, FollowsOn, ItStays
      <3> QED BY <3>1, <3>9
    <2> QED BY <1>3, <2>1, <2>2
  <1>5. DiskInv' BY <1>1, <1>2, <1>4, <1>p, RefreshesAsBefore, UiDisk DEF DisplayInv
  <1>6. Follows(panel, calls, clicked)' BY <1>1, <1>4, <1>p DEF Follows
  <1>7. Ordered(panel, refreshes)' /\ NoOlder
    BY <1>1, <1>3, <1>p, KnownIsInt DEF DisplayInv, Ordered, NoOlder
  <1> QED BY <1>5, <1>6, <1>7 DEF DisplayInv

DeselectedShows(p, q) == q.shown = Null /\ q.editing = p.editing
LEMMA PanelDeselectedShows == ASSUME NEW p, IsPanel(p) PROVE DeselectedShows(p, Deselected(p))
  BY DEF IsPanel, DeselectedShows, Deselected

LEMMA ClickDisplay == ASSUME BusyInv, DisplayInv, NEW o \in Orders, Click(o) PROVE DisplayInv' /\ NoOlder
  <1>p. PICK p : p = panel' OBVIOUS
  <1>q. PICK q : q = Deselected(panel) OBVIOUS
  <1>c. PICK c : c = NewCall("read", o, Null, "native") OBVIOUS
  <1>1. panel.editing = Null /\ file' = file /\ lock' = lock /\ refreshes' = refreshes
    BY DEF Click, NoDialog
  <1>2. q.shown = Null /\ q.editing = Null /\ IsPanel(q)
    BY <1>1, <1>q, ShapesOfPage, PanelDeselectedShows, PanelDeselected DEF DeselectedShows, Settled
  <1>3. p.shown = Null /\ p.editing = Null
    <2>1. p = q \/ p = [q EXCEPT !.reading = TRUE] BY <1>p, <1>q DEF Click
    <2>2. AsShown(q, [q EXCEPT !.reading = TRUE]) /\ AsShown(q, q) BY <1>2, FlagsShow, ItShows
    <2>3. AsShown(q, p) BY <2>1, <2>2
    <2> QED BY <1>2, <2>3 DEF AsShown
  <1>4. /\ c.kind = "read" /\ c.o = o /\ c.sel /\ c.result = Null
    BY <1>c, NewCallIs
  <1>5. GoodCall(c) BY <1>4 DEF GoodCall
  <1>6. \A d \in Superseded(calls) : \E e \in calls : Alike(e, d) /\ d.mine = e.mine /\ ~d.sel
    BY ShapesHold, SupersededAlike
  <1>7. \A e \in calls : ~(e.mine /\ e.kind = "edit") BY <1>1 DEF DisplayInv, Follows
  <1>8. \A d \in Superseded(calls) : ~(d.mine /\ d.kind = "edit") /\ ~d.sel BY <1>6, <1>7 DEF Alike
  <1>9. \/ calls' = Superseded(calls)
        \/ calls' = Superseded(calls) \cup {c} /\ clicked' = o
    BY <1>c DEF Click
  <1>10. /\ \A d \in calls' : (\E e \in calls : Alike(e, d)) \/ GoodCall(d)
         /\ \A d \in calls' : ~(d.mine /\ d.kind = "edit")
         /\ \A d \in calls' : d.sel =>
               /\ d.kind \in {"read", "create", "delete"}
               /\ d.kind = "read" => d.o = clicked'
    BY <1>4, <1>5, <1>6, <1>8, <1>9
  <1> QED BY <1>1, <1>3, <1>10, <1>p, RefreshesAsBefore, ClearedStep

LEMMA EmptyPanelShows ==
    ASSUME NEW at, NEW p, p = EmptyPanel(at) \/ p = [EmptyPanel(at) EXCEPT !.refreshing = TRUE]
    PROVE  p.shown = Null /\ p.editing = Null
  BY DEF EmptyPanel

LEMMA LeaveDisplay == ASSUME BusyInv, DisplayInv, NEW at, Leave(at) PROVE DisplayInv' /\ NoOlder
  <1>p. PICK p : p = panel' OBVIOUS
  <1>1. p.shown = Null /\ p.editing = Null /\ file' = file /\ lock' = lock
    BY <1>p, EmptyPanelShows DEF Leave
  <1>2. ASSUME NEW d \in calls' PROVE ~d.mine /\ ~d.sel /\ \E c \in calls : Alike(c, d)
    <2>1. PICK c \in calls : d = LeftCall(c) BY <1>2 DEF Leave, LeftCall
    <2> QED BY <2>1, ShapesHold, LeftAlike
  <1>3. ASSUME NEW s \in refreshes' PROVE \E r \in refreshes : RefreshStays(r, s)
    <2>1. PICK r \in refreshes : s = LeftRefresh(r) BY <1>3 DEF Leave, LeftRefresh
    <2> QED BY <2>1, ShapesHold, LeftRefreshStays
  <1> QED BY <1>1, <1>2, <1>3, <1>p, ClearedStep

LEMMA ReturnDisplay == ASSUME BusyInv, DisplayInv, Return PROVE DisplayInv' /\ NoOlder
  <1>p. PICK p : p = panel' OBVIOUS
  <1>1. p.shown = Null /\ p.editing = Null /\ file' = file /\ lock' = lock /\ calls' = calls
    BY <1>p, EmptyPanelShows DEF Return
  <1>2. \A d \in calls : ~d.mine /\ ~d.sel /\ \E c \in calls : Alike(c, d)
    BY ItStays DEF Return, Here, BusyInv, PageOK, Shapes, Stays
  <1>3. \A s \in refreshes' : (\E r \in refreshes : RefreshStays(r, s)) \/ NewlyAsked(s)
    BY ItStays, NewRefreshIsNew DEF Return
  <1> QED BY <1>1, <1>2, <1>3, <1>p, ClearedStep

LEMMA RefreshDisplay == ASSUME BusyInv, DisplayInv, Refresh PROVE DisplayInv' /\ NoOlder
  <1>1. calls' = calls /\ file' = file /\ lock' = lock /\ clicked' = clicked BY DEF Refresh
  <1>2. panel'.shown = panel.shown /\ panel'.editing = panel.editing
    BY ShapesOfPage, FlagsShow DEF Refresh, AsShown
  <1>3. \A d \in calls' : \E c \in calls : Stays(c, d) BY <1>1, ItStays
  <1>4. \A s \in refreshes' : (\E r \in refreshes : RefreshStays(r, s)) \/ NewlyAsked(s)
    BY ItStays, NewRefreshIsNew DEF Refresh
  <1> QED BY <1>1, <1>2, <1>3, <1>4, QuietStep

LEMMA UserDisplay == ASSUME BusyInv, IdsInv, DisplayInv, User PROVE DisplayInv' /\ NoOlder
  BY ClickDisplay, CreateDisplay, PreviewDisplay, ClosePreviewDisplay, ConfirmDisplay, CancelDisplay,
     CompleteDisplay, EditDialogDisplay, SubmitEditDisplay, LeaveDisplay, ReturnDisplay DEF User

-----------------------------------------------------------------------------
(* Answers, and the display                                                  *)

LEMMA NativeDisplay ==
    ASSUME Null \notin Nat, BusyInv, IdsInv, DisplayInv, NEW c \in calls, NativeStep(c)
    PROVE  DisplayInv' /\ NoOlder
  <1>1. /\ DiskInv' /\ panel' = panel /\ refreshes' = refreshes /\ clicked' = clicked
        /\ \E d : Moved(c, d) /\ SameCall(c, d)
    BY NativeDisk DEF DisplayInv
  <1>2. PICK d : Moved(c, d) /\ SameCall(c, d) BY <1>1
  <1>3. ASSUME NEW e \in calls'
        PROVE  \E b \in calls : e.kind = b.kind /\ e.o = b.o /\ e.mine = b.mine /\ e.sel = b.sel
    BY <1>2 DEF Moved, SameCall
  <1>4. Follows(panel, calls', clicked)
    <2>1. Follows(panel, calls, clicked) BY DEF DisplayInv
    <2>2. \A e \in calls' : e.sel /\ e.kind \notin {"create", "delete"} => e.o = clicked
      BY <1>3, <2>1 DEF Follows
    <2>3. \A e \in calls' : e.mine /\ e.kind = "edit" => e.sel /\ panel.editing # Null
      BY <1>3, <2>1 DEF Follows
    <2>4. ASSUME NEW e \in calls', e.sel, e.kind = "read"
          PROVE  /\ panel.shown = Null /\ panel.editing = Null
                 /\ \A b \in calls' : b.sel => b.kind \in {"read", "create", "delete"}
      <3>1. PICK b \in calls : e.kind = b.kind /\ e.sel = b.sel BY <1>3
      <3> QED BY <1>3, <2>1, <2>4, <3>1 DEF Follows
    <2> QED BY <2>1, <2>2, <2>3, <2>4 DEF Follows
  <1>5. Follows(panel, calls, clicked)' BY <1>1, <1>4 DEF Follows
  <1>6. Ordered(panel, refreshes)' /\ NoOlder BY <1>1, KnownIsInt DEF DisplayInv, Ordered, NoOlder
  <1> QED BY <1>1, <1>5, <1>6 DEF DisplayInv

\* What a step leaves of the other calls.
LEMMA OthersStay ==
    ASSUME BusyInv, NEW c, NEW ds \in {calls \ {c}, Reassigned(calls \ {c})}, NEW d \in ds
    PROVE  \E e \in calls \ {c} : Stays(e, d)
  <1>1. CASE ds = calls \ {c} BY <1>1, ItStays
  <1>2. CASE ds = Reassigned(calls \ {c})
    <2>1. \A e \in calls \ {c} : IsCall(e) BY ShapesHold
    <2> QED BY <1>2, <2>1, ReassignedStay
  <1> QED BY <1>1, <1>2
\* An answer that shows nothing.
LEMMA AnsweredQuietly ==
    ASSUME BusyInv, DisplayInv, NEW c, calls' \in {calls \ {c}, Reassigned(calls \ {c})},
           file' = file, lock' = lock, clicked' = clicked, AsShown(panel, panel'),
           \A s \in refreshes' : s \in refreshes \/ NewlyAsked(s)
    PROVE  DisplayInv' /\ NoOlder
  <1>d. PICK ds : ds = calls' OBVIOUS
  <1>1. \A d \in calls' : \E e \in calls : Stays(e, d)
    <2>1. ds \in {calls \ {c}, Reassigned(calls \ {c})} BY <1>d
    <2>2. \A d \in ds : \E e \in calls \ {c} : Stays(e, d) BY <2>1, OthersStay
    <2> QED BY <1>d, <2>2
  <1>2. \A s \in refreshes' : (\E r \in refreshes : RefreshStays(r, s)) \/ NewlyAsked(s) BY ItStays
  <1> QED BY <1>1, <1>2, QuietStep DEF AsShown

LEMMA PreviewAnswersDisplay ==
    ASSUME BusyInv, DisplayInv, NEW c \in calls, PreviewAnswers(c) PROVE DisplayInv' /\ NoOlder
  <1>1. AsShown(panel, panel')
    <2>1. PICK e, v : panel' = [panel EXCEPT !.estimate = e, !.previewing = v] BY DEF PreviewAnswers
    <2>2. IsPanel(panel) BY ShapesOfPage
    <2> QED BY <2>1, <2>2 DEF IsPanel, AsShown
  <1> QED BY <1>1, AnsweredQuietly DEF PreviewAnswers

LEMMA ReadAnswersDisplay ==
    ASSUME BusyInv, DisplayInv, NEW c \in calls, ReadAnswers(c) PROVE DisplayInv' /\ NoOlder
  <1>0. IsPanel(panel) /\ GoodPanel(panel) /\ GoodCall(c) /\ c.kind = "read"
    BY ShapesOfPage DEF DisplayInv, DiskInv, ReadAnswers
  <1>1. CASE c.sel /\ c.result # Null /\ panel' = [panel EXCEPT !.shown = Display(c.o, c.result, TRUE), !.reading = FALSE]
             /\ calls' = Reassigned(calls \ {c}) /\ refreshes' = Reassigned(refreshes)
    <2>h. PICK path : path = TRUE OBVIOUS
    <2>q. PICK q : q = WithOrder(panel, c.o, c.result, path) OBVIOUS
    <2>p. PICK p : p = [q EXCEPT !.reading = FALSE] OBVIOUS
    <2>1. c.o \in Orders /\ Known(c.o, c.result) /\ c.o = clicked
      BY <1>0, <1>1 DEF GoodCall, DisplayInv, Follows
    <2>2. panel.shown = Null /\ panel.editing = Null
          /\ \A d \in calls : d.sel => d.kind \in {"read", "create", "delete"}
      BY <1>0, <1>1 DEF DisplayInv, Follows
    <2>3. q.shown.o = c.o /\ q.editing = Null /\ GoodPanel(q)
      <3>1. c.o \in Orders /\ Known(c.o, c.result) BY <2>1
      <3>2. q.shown.o = c.o /\ q.shown.w = c.result /\ q.editing = panel.editing /\ GoodPanel(q)
        BY <1>0, <2>q, <3>1, OrderShown
      <3> QED BY <2>2, <3>2
    <2>4. AsShown(q, p) /\ panel' = p
      <3>1. IsPanel(q) BY <1>0, <2>q, ShownChanges DEF SameFlags, WithOrder
      <3>2. AsShown(q, [q EXCEPT !.reading = FALSE]) BY <3>1, FlagsShow
      <3> QED BY <1>1, <2>h, <2>q, <2>p, <3>2 DEF WithOrder
    <2>5. GoodPanel(p) /\ p.shown.o = clicked /\ p.editing = Null
      BY <2>1, <2>3, <2>4 DEF AsShown, GoodPanel
    <2>6. \A d \in calls' : \E e \in calls \ {c} : Stays(e, d) BY <1>1, OthersStay
    <2>7. \A e \in calls \ {c} : ~(e.sel /\ e.kind = "read")
      BY <1>0, <1>1 DEF BusyInv, PageOK, Selection, AtMostOne, Chosen
    <2>8. \A e \in calls : ~(e.mine /\ e.kind = "edit") BY <2>2 DEF DisplayInv, Follows
    <2>9. /\ \A d \in calls' : ~(d.mine /\ d.kind = "edit")
          /\ \A d \in calls' : ~(d.sel /\ d.kind = "read")
      BY <2>6, <2>7, <2>8 DEF Stays, Alike
    <2>10. \A s \in refreshes' : ~s.same /\ \E r \in refreshes : RefreshStays(r, s)
      BY <1>1, ShapesHold, RefreshesReassignedStay
    <2>11. NoOlder BY <2>2 DEF NoOlder
    <2>12. file' = file /\ lock' = lock /\ clicked' = clicked BY DEF ReadAnswers
    <2>13. \A d \in calls' : \E e \in calls : Stays(e, d) BY <2>6
    <2> QED BY <2>4, <2>5, <2>9, <2>10, <2>11, <2>12, <2>13, RedisplayStep
  <1>2. CASE \E v : panel' = [panel EXCEPT !.reading = v] /\ calls' = calls \ {c} /\ refreshes' = refreshes
    <2>v. PICK v : panel' = [panel EXCEPT !.reading = v] BY <1>2
    <2>0. AsShown(panel, [panel EXCEPT !.reading = v]) BY <1>0, FlagsShow
    <2>1. AsShown(panel, panel') BY <2>v, <2>0
    <2>2. file' = file /\ lock' = lock /\ clicked' = clicked BY DEF ReadAnswers
    <2>3. calls' \in {calls \ {c}, Reassigned(calls \ {c})} /\ \A s \in refreshes' : s \in refreshes
      BY <1>2
    <2> QED BY <2>1, <2>2, <2>3, AnsweredQuietly
  <1> QED BY <1>1, <1>2 DEF ReadAnswers

\* The revision that a call brings is on display.
LEMMA RevisionStep ==
    ASSUME BusyInv, DisplayInv, file' = file, lock' = lock, clicked' = clicked,
           \A d \in calls' : \E e \in calls : Stays(e, d),
           \A s \in refreshes' :
               (~s.same /\ \E r \in refreshes : RefreshStays(r, s)) \/ NewlyAsked(s),
           panel.shown # Null, NEW w, Known(panel.shown.o, w),
           NEW q, q = WithRevision(panel, w), AsShown(q, panel'),
           \/ w.n >= panel.shown.w.n
           \/ \E c \in calls : Brings(c, w)
    PROVE  DisplayInv' /\ NoOlder
  <1>p. PICK p : p = panel' OBVIOUS
  <1>1. IsPanel(panel) /\ GoodPanel(panel) BY ShapesOfPage DEF DisplayInv, DiskInv
  <1>2. /\ q.shown.o = panel.shown.o /\ q.shown.w = w /\ q.editing = panel.editing
        /\ GoodPanel(q)
    BY <1>1, RevisionShown
  <1>3. /\ p.shown.o = clicked /\ p.shown.w = w /\ p.editing = panel.editing /\ GoodPanel(p)
    BY <1>2, <1>p, FoundIsGood DEF AsShown, GoodPanel
  <1>4. p.editing # Null => p.editing.o = clicked BY <1>3 DEF DisplayInv, Follows
  <1>5. p.editing # Null \/ \A d \in calls' : ~(d.mine /\ d.kind = "edit")
    BY <1>3 DEF DisplayInv, Follows, Stays, Alike
  <1>6. \A d \in calls' : ~(d.sel /\ d.kind = "read") BY DEF DisplayInv, Follows, Stays, Alike
  <1>7. NoOlder BY <1>3, <1>p DEF NoOlder
  <1> QED BY <1>3, <1>4, <1>5, <1>6, <1>7, <1>p, RedisplayStep

LEMMA RunSendsDisplay ==
    ASSUME BusyInv, DisplayInv, NEW c \in calls, RunSends(c) PROVE DisplayInv' /\ NoOlder
  <1>d. PICK d : d = [c EXCEPT !.at = "native"] OBVIOUS
  <1>s. PICK cs : cs = (calls \ {c}) \cup {d} OBVIOUS
  <1>0. IsPanel(panel) /\ GoodPanel(panel) /\ GoodCall(c) /\ c.kind = "execute" /\ IsCall(c)
    BY ShapesOfPage, ShapesHold DEF DisplayInv, DiskInv, RunSends
  <1>1. Stays(c, d) /\ IsCall(d)
    <2>1. SameCall(c, d) /\ d.at = "native" /\ d.seen = c.seen /\ d.result = c.result
      BY <1>0, <1>d, AtChanged
    <2>2. IsCall(d) BY <1>0, <1>d, CallGoesTo DEF Continues
    <2> QED BY <1>0, <2>1, <2>2 DEF SameCall, Stays, Alike
  <1>2. /\ \A e \in cs : IsCall(e)
        /\ \A e \in cs : \E b \in calls : Stays(b, e)
    BY <1>s, <1>1, ShapesHold, ItStays
  <1>3. CASE /\ panel.shown # Null /\ panel.shown.o = c.o
             /\ panel' = [panel EXCEPT !.shown.w = [c.base EXCEPT !.status = "running"]]
             /\ calls' = Reassigned((calls \ {c}) \cup {d}) /\ refreshes' = Reassigned(refreshes)
    <2>w. PICK w : w = [c.base EXCEPT !.status = "running"] OBVIOUS
    <2>1. c.base \in Content /\ c.base.n <= Latest(c.o) BY <1>0 DEF GoodCall, Known
    <2>2. w \in Content /\ w.n = c.base.n BY <2>w, <2>1 DEF Content, Statuses
    <2>3. Known(panel.shown.o, w) /\ Brings(c, w) BY <1>0, <1>3, <2>1, <2>2 DEF Known, Brings
    <2>4. panel' = WithRevision(panel, w) BY <1>3, <2>w DEF WithRevision
    <2>q. PICK q : q = WithRevision(panel, w) OBVIOUS
    <2>5. AsShown(q, panel') BY <2>4, <2>q, ItShows
    <2>6. \A e \in Reassigned(cs) : \E b \in calls : Stays(b, e) BY <1>2, ReassignedStay, ItStaysOn
    <2>7. \A e \in calls' : \E b \in calls : Stays(b, e) BY <1>3, <1>s, <2>6
    <2>8. \A s \in refreshes' : ~s.same /\ \E r \in refreshes : RefreshStays(r, s)
      BY <1>3, ShapesHold, RefreshesReassignedStay
    <2>9. file' = file /\ lock' = lock /\ clicked' = clicked BY DEF RunSends
    <2> QED BY <1>3, <2>3, <2>q, <2>5, <2>7, <2>8, <2>9, RevisionStep
  <1>4. CASE calls' = cs /\ panel' = panel /\ refreshes' = refreshes
    <2>1. file' = file /\ lock' = lock /\ clicked' = clicked BY DEF RunSends
    <2>2. \A e \in calls' : \E b \in calls : Stays(b, e) BY <1>2, <1>4
    <2> QED BY <1>4, <2>1, <2>2, RefreshesAsBefore, QuietStep
  <1> QED BY <1>d, <1>s, <1>3, <1>4 DEF RunSends, Moved, PathKnown

\* The caller's refresh comes after what it shows.
LEMMA AnsweredRefreshes ==
    ASSUME BusyInv, NEW p, IsPanel(p), NEW frees, NEW run,
           ThenRefresh(p, Reassigned(refreshes), frees, run)
    PROVE  /\ AsShown(p, panel')
           /\ \A s \in refreshes' :
                 (~s.same /\ \E r \in refreshes : RefreshStays(r, s)) \/ NewlyAsked(s)
  <1>1. AsShown(p, panel') /\ \A s \in refreshes' : s \in Reassigned(refreshes) \/ NewlyAsked(s)
    BY ThenRefreshShows
  <1>2. \A s \in Reassigned(refreshes) : ~s.same /\ \E r \in refreshes : RefreshStays(r, s)
    BY ShapesHold, RefreshesReassignedStay
  <1> QED BY <1>1, <1>2

LEMMA AnsweredInRefresh ==
    ASSUME BusyInv, DisplayInv, NEW c, calls' = calls \ {c}, NEW frees, NEW run,
           file' = file, lock' = lock, clicked' = clicked,
           ThenRefresh(panel, refreshes, frees, run)
    PROVE  DisplayInv' /\ NoOlder
  BY ShapesOfPage, ThenRefreshShows, AnsweredQuietly

LEMMA RunAnswersDisplay ==
    ASSUME BusyInv, DisplayInv, NEW c \in calls, RunAnswers(c) PROVE DisplayInv' /\ NoOlder
  <1>r. PICK run : run = [o |-> c.o, id |-> c.id] OBVIOUS
  <1>w. PICK w : w = IF c.result = Null THEN c.base ELSE c.result OBVIOUS
  <1>0. /\ IsPanel(panel) /\ GoodPanel(panel) /\ GoodCall(c) /\ c.kind = "execute"
        /\ file' = file /\ lock' = lock /\ clicked' = clicked
    BY ShapesOfPage DEF DisplayInv, DiskInv, RunAnswers
  <1>1. CASE ~c.mine
    <2>1. calls' = calls \ {c} /\ panel' = panel /\ refreshes' = refreshes BY <1>1 DEF RunAnswers
    <2> QED BY <1>0, <2>1, ItShows, AnsweredQuietly
  <1>2. CASE c.mine /\ ~(panel.shown # Null /\ panel.shown.o = c.o)
    <2>1. calls' = calls \ {c} /\ ThenRefresh(panel, refreshes, "writing", run)
      BY <1>2, <1>r DEF RunAnswers
    <2> QED BY <1>0, <2>1, AnsweredInRefresh
  <1>3. CASE c.mine /\ panel.shown # Null /\ panel.shown.o = c.o
    <2>q. PICK q : q = WithRevision(panel, w) OBVIOUS
    <2>1. /\ calls' = Reassigned(calls \ {c})
          /\ ThenRefresh(q, Reassigned(refreshes), "writing", run)
      BY <1>3, <1>r, <1>w, <2>q DEF RunAnswers, WithRevision
    <2>2. Known(panel.shown.o, w) /\ Brings(c, w) BY <1>0, <1>3, <1>w DEF GoodCall, Brings
    <2>3. IsPanel(q) BY <1>0, <2>q, ShownChanges DEF SameFlags, WithRevision
    <2>4. /\ AsShown(q, panel')
          /\ \A s \in refreshes' :
                (~s.same /\ \E r \in refreshes : RefreshStays(r, s)) \/ NewlyAsked(s)
      BY <2>1, <2>3, AnsweredRefreshes
    <2>5. \A d \in calls' : \E e \in calls : Stays(e, d) BY <2>1, OthersStay
    <2> QED BY <1>0, <1>3, <2>q, <2>2, <2>4, <2>5, RevisionStep
  <1> QED BY <1>1, <1>2, <1>3

\* A call for the selection puts what it has written on display.
LEMMA OrderStep ==
    ASSUME BusyInv, DisplayInv, NEW c \in calls, c.sel, c.mine, c.kind \in {"cancel", "complete", "edit"},
           c.result # Null, file' = file, lock' = lock, clicked' = clicked,
           calls' = Reassigned(calls \ {c}),
           \A s \in refreshes' :
               (~s.same /\ \E r \in refreshes : RefreshStays(r, s)) \/ NewlyAsked(s),
           NEW path, panel'.shown = Display(c.o, c.result, path),
           \/ panel'.editing = panel.editing
           \/ panel'.editing = Null /\ c.kind = "edit"
    PROVE  DisplayInv' /\ NoOlder
  <1>p. PICK p : p = panel' OBVIOUS
  <1>0. GoodPanel(panel) /\ GoodCall(c) /\ Follows(panel, calls, clicked) BY DEF DisplayInv, DiskInv
  <1>1. c.o \in Orders /\ Known(c.o, c.result) /\ c.o = clicked BY <1>0 DEF GoodCall, Follows
  <1>2. p.shown.o = c.o /\ p.shown.w = c.result /\ p.shown = Display(p.shown.o, p.shown.w, p.shown.path)
    BY <1>p DEF Display
  <1>3. GoodPanel(p) BY <1>0, <1>1, <1>2, <1>p DEF GoodPanel
  <1>4. (p.shown # Null => p.shown.o = clicked) /\ (p.editing # Null => p.editing.o = clicked)
    BY <1>0, <1>1, <1>2, <1>p DEF Follows
  <1>5. \A d \in calls' : \E e \in calls \ {c} : Stays(e, d) BY OthersStay
  <1>6. \A d \in calls' : \E e \in calls : Stays(e, d) BY <1>5
  <1>7. \A e \in calls : ~(e.sel /\ e.kind = "read") BY <1>0 DEF Follows
  <1>8. \A d \in calls' : ~(d.sel /\ d.kind = "read") BY <1>6, <1>7 DEF Stays, Alike
  <1>9. p.editing # Null \/ \A d \in calls' : ~(d.mine /\ d.kind = "edit")
    <2>1. CASE panel'.editing = panel.editing BY <1>0, <1>6, <1>p, <2>1 DEF Follows, Stays, Alike
    <2>2. CASE c.kind = "edit"
      <3>1. AtMostOne(Own(calls, WriteKinds)) BY DEF BusyInv, PageOK, Buttons, Exact
      <3>2. \A e \in calls \ {c} : ~(e.mine /\ e.kind = "edit") BY <2>2, <3>1 DEF AtMostOne, Own
      <3> QED BY <1>5, <3>2 DEF Stays, Alike
    <2> QED BY <2>1, <2>2
  <1>10. NoOlder
    <2>1. CASE c.kind \in {"cancel", "edit"} /\ panel.shown # Null
      <3>1. panel.shown.o = c.o BY <1>1, <2>1, FoundIsGood
      <3>2. Brings(c, panel'.shown.w) BY <1>2, <1>p, <2>1, <3>1 DEF Brings
      <3> QED BY <3>2 DEF NoOlder
    <2>2. CASE c.kind = "complete" /\ panel.shown # Null
      <3>1. c.result.n = Latest(c.o) /\ c.result.n \in Nat
        BY <1>0, <1>1, <2>2 DEF GoodCall, Known, Content
      <3>2. panel.shown.w.n \in Nat /\ panel.shown.w.n <= Latest(c.o)
        BY <1>1, <2>2, FoundIsGood, KnownIsInt DEF Known, DisplayInv
      <3> QED BY <1>2, <1>p, <3>1, <3>2 DEF NoOlder
    <2> QED BY <2>1, <2>2 DEF NoOlder
  <1> QED BY <1>3, <1>4, <1>6, <1>8, <1>9, <1>10, <1>p, RedisplayStep

LEMMA CancelAnswersDisplay ==
    ASSUME BusyInv, DisplayInv, NEW c \in calls, CancelAnswers(c) PROVE DisplayInv' /\ NoOlder
  <1>0. /\ IsPanel(panel) /\ c.kind = "cancel"
        /\ file' = file /\ lock' = lock /\ clicked' = clicked
    BY ShapesOfPage DEF CancelAnswers
  <1>1. CASE ~c.mine
    <2>1. calls' = calls \ {c} /\ panel' = panel /\ refreshes' = refreshes BY <1>1 DEF CancelAnswers
    <2> QED BY <1>0, <2>1, ItShows, AnsweredQuietly
  <1>2. CASE c.mine /\ c.result = Null
    <2>1. calls' = calls \ {c} /\ panel' = Released(panel, "cancelling") /\ refreshes' = refreshes
      BY <1>2 DEF CancelAnswers
    <2>2. AsShown(panel, panel') BY <1>0, <2>1, ReleasedShows
    <2> QED BY <1>0, <2>1, <2>2, AnsweredQuietly
  <1>3. CASE c.mine /\ c.result # Null /\ ~c.sel
    <2>1. calls' = calls \ {c} /\ ThenRefresh(panel, refreshes, "cancelling", Null)
      BY <1>3 DEF CancelAnswers, SelectionIsCurrent
    <2> QED BY <1>0, <2>1, AnsweredInRefresh
  <1>4. CASE c.mine /\ c.result # Null /\ c.sel
    <2>h. PICK path : path = PathKnown(panel) OBVIOUS
    <2>q. PICK q : q = [panel EXCEPT !.shown = Display(c.o, c.result, path)] OBVIOUS
    <2>1. /\ calls' = Reassigned(calls \ {c})
          /\ ThenRefresh(q, Reassigned(refreshes), "cancelling", Null)
      BY <1>4, <2>h, <2>q DEF CancelAnswers, SelectionIsCurrent
    <2>2. q.shown = Display(c.o, c.result, path) /\ q.editing = panel.editing
      BY <1>0, <2>q DEF IsPanel
    <2>3. IsPanel(q) BY <1>0, <2>q, ShownChanges DEF SameFlags
    <2>4. /\ AsShown(q, panel')
          /\ \A s \in refreshes' :
                (~s.same /\ \E r \in refreshes : RefreshStays(r, s)) \/ NewlyAsked(s)
      BY <2>1, <2>3, AnsweredRefreshes
    <2>5. panel'.shown = Display(c.o, c.result, path) /\ panel'.editing = panel.editing
      BY <2>2, <2>4 DEF AsShown
    <2> QED BY <1>0, <1>4, <2>1, <2>4, <2>5, OrderStep
  <1> QED BY <1>1, <1>2, <1>3, <1>4

LEMMA SaveAnswersDisplay ==
    ASSUME BusyInv, DisplayInv, NEW c \in calls, SaveAnswers(c) PROVE DisplayInv' /\ NoOlder
  <1>0. /\ IsPanel(panel) /\ c.kind \in {"complete", "edit", "create"}
        /\ file' = file /\ lock' = lock /\ clicked' = clicked
    BY ShapesOfPage DEF SaveAnswers
  <1>1. CASE ~c.mine
    <2>1. calls' = calls \ {c} /\ panel' = panel /\ refreshes' = refreshes BY <1>1 DEF SaveAnswers
    <2> QED BY <1>0, <2>1, ItShows, AnsweredQuietly
  <1>2. CASE c.mine /\ c.result = Null
    <2>1. calls' = calls \ {c} /\ panel' = Released(panel, "writing") /\ refreshes' = refreshes
      BY <1>2 DEF SaveAnswers
    <2>2. AsShown(panel, panel') BY <1>0, <2>1, ReleasedShows
    <2> QED BY <1>0, <2>1, <2>2, AnsweredQuietly
  <1>3. CASE c.mine /\ c.result # Null /\ Shows(panel, c) = panel
    <2>1. calls' = calls \ {c} /\ ThenRefresh(panel, refreshes, "writing", Null)
      BY <1>3 DEF SaveAnswers
    <2> QED BY <1>0, <2>1, AnsweredInRefresh
  <1>4. CASE c.mine /\ c.result # Null /\ Shows(panel, c) # panel
    <2>q. PICK q : q = Shows(panel, c) OBVIOUS
    <2>1. /\ calls' = Reassigned(calls \ {c})
          /\ ThenRefresh(q, Reassigned(refreshes), "writing", Null)
      BY <1>4, <2>q DEF SaveAnswers
    <2>2. CASE c.kind = "complete" /\ c.sel
      <3>h. PICK path : path = PathKnown(panel) OBVIOUS
      <3>1. q = [panel EXCEPT !.shown = Display(c.o, c.result, path)]
        BY <1>4, <2>2, <2>q, <3>h DEF Shows, SelectionIsCurrent
      <3>2. q.shown = Display(c.o, c.result, path) /\ q.editing = panel.editing
        BY <1>0, <3>1 DEF IsPanel
      <3>3. IsPanel(q) BY <1>0, <3>1, ShownChanges DEF SameFlags
      <3>4. /\ AsShown(q, panel')
            /\ \A s \in refreshes' :
                  (~s.same /\ \E r \in refreshes : RefreshStays(r, s)) \/ NewlyAsked(s)
        BY <2>1, <3>3, AnsweredRefreshes
      <3>5. panel'.shown = Display(c.o, c.result, path) /\ panel'.editing = panel.editing
        BY <3>2, <3>4 DEF AsShown
      <3> QED BY <1>0, <1>4, <2>1, <2>2, <3>4, <3>5, OrderStep
    <2>3. CASE c.kind = "edit"
      <3>h. PICK path : path = TRUE OBVIOUS
      <3>d. PICK d : d = Display(c.o, c.result, path) OBVIOUS
      <3>1. q = [panel EXCEPT !.shown = d, !.editing = Null] BY <2>3, <2>q, <3>h, <3>d DEF Shows
      <3>2. q.shown = d /\ q.editing = Null BY <1>0, <3>1 DEF IsPanel
      <3>3. IsPanel(q) BY <1>0, <3>1, EditShown DEF SameFlags
      <3>4. /\ AsShown(q, panel')
            /\ \A s \in refreshes' :
                  (~s.same /\ \E r \in refreshes : RefreshStays(r, s)) \/ NewlyAsked(s)
        BY <2>1, <3>3, AnsweredRefreshes
      <3>5. panel'.shown = Display(c.o, c.result, path) /\ panel'.editing = Null
        BY <3>2, <3>4, <3>d DEF AsShown
      <3>6. c.sel BY <1>4, <2>3 DEF DisplayInv, Follows
      <3> QED BY <1>0, <1>4, <2>1, <2>3, <3>4, <3>5, <3>6, OrderStep
    <2>4. CASE ~(c.kind = "complete" /\ c.sel) /\ c.kind # "edit"
      BY <1>4, <2>4 DEF Shows, SelectionIsCurrent
    <2> QED BY <2>2, <2>3, <2>4
  <1> QED BY <1>1, <1>2, <1>3, <1>4

LEMMA ListShrinksShows == ASSUME NEW p, IsPanel(p), NEW o PROVE AsShown(p, [p EXCEPT !.list[o] = Null])
  BY DEF IsPanel, AsShown
Emptied(p) == [p EXCEPT !.shown = Null, !.estimate = Null, !.previewing = FALSE]
LEMMA EmptiedShows == ASSUME NEW p, IsPanel(p) PROVE DeselectedShows(p, Emptied(p))
  BY DEF IsPanel, DeselectedShows, Emptied

LEMMA DeleteAnswersDisplay ==
    ASSUME BusyInv, DisplayInv, NEW c \in calls, DeleteAnswers(c) PROVE DisplayInv' /\ NoOlder
  <1>p. PICK p : p = [panel EXCEPT !.writing = FALSE] OBVIOUS
  <1>q. PICK q : q = [p EXCEPT !.list[c.o] = Null] OBVIOUS
  <1>0. /\ IsPanel(panel) /\ file' = file /\ lock' = lock /\ clicked' = clicked
        /\ refreshes' = IF panel'.shown = panel.shown THEN refreshes ELSE Reassigned(refreshes)
    BY ShapesOfPage DEF DeleteAnswers
  <1>1. IsPanel(p) /\ AsShown(panel, p) BY <1>0, <1>p, FlagsShow, WritingEnds
  <1>2. IsPanel(q) /\ AsShown(panel, q)
    <2>1. IsPanel(q) BY <1>1, <1>q, ListShrinks DEF SameFlags
    <2>2. AsShown(p, q) BY <1>1, <1>q, ListShrinksShows
    <2> QED BY <1>1, <2>1, <2>2, ItShows
  <1>3. CASE panel' \in {panel, p, q} /\ calls' = calls \ {c}
    <2>1. AsShown(panel, panel') BY <1>1, <1>2, <1>3, ItShows
    <2>2. refreshes' = refreshes BY <1>0, <2>1 DEF AsShown
    <2> QED BY <1>0, <1>3, <2>1, <2>2, AnsweredQuietly
  <1>4. CASE /\ panel.shown # Null /\ panel' = Emptied(q)
             /\ calls' = PreviewClosed(Reassigned(calls \ {c}))
    <2>e. PICK e : e = Emptied(q) OBVIOUS
    <2>1. e.shown = Null /\ e.editing = panel.editing
      BY <1>2, <2>e, EmptiedShows DEF DeselectedShows, AsShown
    <2>2. refreshes' = Reassigned(refreshes) BY <1>0, <1>4, <2>e, <2>1
    <2>3. \A s \in refreshes' : ~s.same /\ \E r \in refreshes : RefreshStays(r, s)
      BY <2>2, ShapesHold, RefreshesReassignedStay
    <2>4. \A d \in calls' : \E b \in calls : Stays(b, d)
      <3>r. PICK ds : ds = Reassigned(calls \ {c}) OBVIOUS
      <3>1. \A d \in ds : \E b \in calls \ {c} : Stays(b, d) BY <3>r, OthersStay
      <3>2. \A d \in ds : IsCall(d) BY <3>r, ShapesHold, SameCleared DEF Reassigned, Continues
      <3>3. \A d \in PreviewClosed(ds) : \E b \in ds : Stays(b, d) BY <3>2, PreviewClosedStay
      <3> QED BY <1>4, <3>r, <3>1, <3>3, ItStaysOn
    <2>5. \A d \in calls' : ~(d.sel /\ d.kind = "read")
      BY <1>4, <2>4 DEF DisplayInv, Follows, Stays, Alike
    <2>6. e.editing # Null \/ \A d \in calls' : ~(d.mine /\ d.kind = "edit")
      BY <2>1, <2>4 DEF DisplayInv, Follows, Stays, Alike
    <2>7. e.editing # Null => e.editing.o = clicked BY <2>1 DEF DisplayInv, Follows
    <2>8. GoodPanel(e) BY <2>1 DEF DisplayInv, DiskInv, GoodPanel
    <2>9. NoOlder BY <1>4, <2>e, <2>1 DEF NoOlder
    <2> QED BY <1>0, <1>4, <2>e, <2>1, <2>3, <2>4, <2>5, <2>6, <2>7, <2>8, <2>9, RedisplayStep
  <1>5. CASE ~c.mine \/ c.result = Null \/ ~(PathKnown(panel) /\ panel.shown.o = c.o)
    <2>1. panel' \in {panel, p, q} /\ calls' = calls \ {c} BY <1>5, <1>p, <1>q DEF DeleteAnswers
    <2> QED BY <1>3, <2>1
  <1>6. CASE c.mine /\ c.result # Null /\ PathKnown(panel) /\ panel.shown.o = c.o
    <2>1. /\ panel' = [q EXCEPT !.shown = Null, !.estimate = Null, !.previewing = FALSE]
          /\ calls' = PreviewClosed(Reassigned(calls \ {c}))
      BY <1>6, <1>p, <1>q DEF DeleteAnswers
    <2> QED BY <1>4, <1>6, <2>1 DEF Emptied, PathKnown
  <1> QED BY <1>5, <1>6

LEMMA RevisionAsShown ==
    ASSUME NEW p, IsPanel(p), NEW q, IsPanel(q), AsShown(p, q), NEW w
    PROVE  AsShown(WithRevision(p, w), WithRevision(q, w))
  BY DEF IsPanel, AsShown, WithRevision

LEMMA RefreshAnswersDisplay ==
    ASSUME BusyInv, DisplayInv, NEW r \in refreshes, RefreshAnswers(r) PROVE DisplayInv' /\ NoOlder
  <1>o. PICK o : o = [panel EXCEPT !.refreshing = FALSE] OBVIOUS
  <1>p. PICK p : p = Released(o, r.frees) OBVIOUS
  <1>q. PICK q : q = [p EXCEPT !.list = r.cards] OBVIOUS
  <1>0. /\ IsPanel(panel) /\ file' = file /\ lock' = lock /\ clicked' = clicked
    BY ShapesOfPage DEF RefreshAnswers
  <1>1. IsPanel(o) /\ AsShown(panel, o) BY <1>0, <1>o, FlagsShow, RefreshOver
  <1>2. IsPanel(p) /\ AsShown(o, p) BY <1>1, <1>p, ReleasedShows, PanelReleased
  <1>3. IsPanel(q) /\ AsShown(p, q) BY <1>2, <1>q, FlagsShow, ListChanges DEF SameFlags
  <1>4. AsShown(panel, p) /\ AsShown(panel, q) BY <1>1, <1>2, <1>3, ItShows
  <1>5. CASE panel' \in {panel, p, q} /\ calls' = calls /\ refreshes' = refreshes \ {r}
    <2>1. AsShown(panel, panel') BY <1>4, <1>5, ItShows
    <2>2. \A d \in calls' : \E c \in calls : Stays(c, d) BY <1>5, ItStays
    <2>3. \A s \in refreshes' : (\E t \in refreshes : RefreshStays(t, s)) \/ NewlyAsked(s)
      BY <1>5, ItStays
    <2> QED BY <1>0, <2>1, <2>2, <2>3, QuietStep DEF AsShown
  <1>6. CASE r.mine /\ ~r.failed /\ Recovered(r) # {}
    <2>1. PICK f \in Recovered(r) : panel' = [q EXCEPT !.shown.w = f.w]
      BY <1>6, <1>o, <1>p, <1>q DEF RefreshAnswers
    <2>2. calls' = Reassigned(calls) /\ refreshes' = Reassigned(refreshes \ {r})
      BY <1>6 DEF RefreshAnswers
    <2>3. f \in r.fixed /\ r.same /\ panel.shown # Null /\ f.o = panel.shown.o BY DEF Recovered
    <2>4. Known(panel.shown.o, f.w) BY <2>3 DEF DisplayInv, DiskInv, GoodRefresh
    <2>5. panel.shown.w.n <= f.w.n BY <2>3 DEF DisplayInv, Ordered
    <2>6. f.w.n >= panel.shown.w.n BY <2>3, <2>4, <2>5, KnownIsInt DEF Known, Content, DisplayInv
    <2>w. PICK w : w = f.w OBVIOUS
    <2>v. PICK v : v = WithRevision(panel, w) OBVIOUS
    <2>7. AsShown(v, panel') BY <1>0, <1>3, <1>4, <2>1, <2>v, <2>w, RevisionAsShown DEF WithRevision
    <2>8. \A d \in calls' : \E c \in calls : Stays(c, d) BY <2>2, ShapesHold, ReassignedStay
    <2>9. \A s \in refreshes' : ~s.same /\ \E t \in refreshes : RefreshStays(t, s)
      <3>1. \A t \in refreshes \ {r} : IsRefresh(t) BY ShapesHold
      <3> QED BY <2>2, <3>1, RefreshesReassignedStay
    <2> QED BY <1>0, <2>3, <2>4, <2>6, <2>7, <2>8, <2>9, <2>v, <2>w, RevisionStep
  <1>7. CASE ~(r.mine /\ ~r.failed /\ Recovered(r) # {})
    <2>1. panel' \in {panel, p, q} /\ calls' = calls /\ refreshes' = refreshes \ {r}
      BY <1>7, <1>o, <1>p, <1>q DEF RefreshAnswers
    <2> QED BY <1>5, <2>1
  <1> QED BY <1>6, <1>7

LEMMA InnerDisplay ==
    ASSUME BusyInv, DisplayInv, NEW r \in refreshes, InnerStep(r) PROVE DisplayInv' /\ NoOlder
  <1>1. /\ InnerGood(r) /\ panel' = panel /\ calls' = calls /\ clicked' = clicked /\ DiskInv'
    BY InnerIsGood, ShapesHold, InnerMoves, InnerDisk DEF DisplayInv
  <1>2. PICK s : /\ Goes(r, s) /\ s.same = r.same
                 /\ \A f \in s.fixed : f \in r.fixed \/ Marked(f)
    BY <1>1 DEF InnerGood
  <1>3. Follows(panel, calls, clicked)' /\ NoOlder
    BY <1>1, KnownIsInt DEF DisplayInv, Follows, NoOlder
  <1>4. ASSUME panel.shown # Null, NEW f, Marked(f), f.o = panel.shown.o
        PROVE  panel.shown.w.n <= f.w.n
    <2>1. /\ panel.shown.w.n \in Nat /\ panel.shown.w.n <= Latest(f.o)
      BY <1>4, KnownIsInt, FoundIsGood DEF Known, DisplayInv
    <2>2. Latest(f.o) \in Int /\ f.w.n \in Nat /\ Latest(f.o) <= f.w.n
      BY <1>1, <1>4 DEF Marked, Known, Content, InnerGood, Grows
    <2> QED BY <2>1, <2>2
  <1>5. Ordered(panel, refreshes') BY <1>2, <1>4 DEF DisplayInv, Ordered, Goes
  <1>6. Ordered(panel, refreshes)' BY <1>1, <1>5 DEF Ordered
  <1> QED BY <1>1, <1>3, <1>6 DEF DisplayInv

LEMMA OutsideDisplay ==
    ASSUME Null \notin Nat, IdsInv, DisplayInv, NEW o \in Orders, Outside(o)
    PROVE  DisplayInv' /\ NoOlder
  <1>1. /\ DiskInv' /\ panel' = panel /\ calls' = calls /\ refreshes' = refreshes
        /\ clicked' = clicked
    BY OutsideDisk DEF DisplayInv, Outside
  <1> QED BY <1>1, KnownIsInt DEF DisplayInv, Follows, Ordered, NoOlder

LEMMA CallDisplay ==
    ASSUME Null \notin Nat, BusyInv, IdsInv, DisplayInv, NEW c \in calls, CallStep(c)
    PROVE  DisplayInv' /\ NoOlder
  BY NativeDisplay, ReadAnswersDisplay, PreviewAnswersDisplay, RunSendsDisplay, RunAnswersDisplay,
    CancelAnswersDisplay, SaveAnswersDisplay, DeleteAnswersDisplay DEF CallStep, NativeStep

LEMMA InitDisplay == ASSUME QueuePanelConstants, Init PROVE DisplayInv
  <1>r. PICK r : r = NewRefresh(EmptyPanel("here"), "nothing", Null) OBVIOUS
  <1>1. /\ lock = [o \in Orders |-> Null] /\ calls = {} /\ refreshes = {r}
        /\ panel = [EmptyPanel("here") EXCEPT !.refreshing = TRUE]
    BY <1>r DEF Init
  <1>2. PICK b \in Begin : file = [o \in Orders |-> [n |-> 0, body |-> 0, status |-> b[o]]]
    BY DEF Init
  <1>3. file \in [Orders -> Content] BY <1>2 DEF QueuePanelConstants, Content, Statuses
  <1>4. FilesOK BY <1>1, <1>3 DEF FilesOK
  <1>5. panel.shown = Null /\ panel.editing = Null /\ NewlyAsked(r)
    BY <1>1, <1>r, EmptyPanelShows, NewRefreshIsNew
  <1>6. DiskInv BY <1>1, <1>4, <1>5 DEF DiskInv, GoodRefresh, GoodPanel, NewlyAsked
  <1> QED BY <1>1, <1>5, <1>6 DEF DisplayInv, Follows, Ordered

LEMMA NextDisplay ==
    ASSUME Null \notin Nat, BusyInv, IdsInv, DisplayInv, [Next]_vars
    PROVE  DisplayInv' /\ [NoOlder]_vars
  <1>1. CASE UNCHANGED vars
    BY <1>1 DEF vars, DisplayInv, DiskInv, FilesOK, GoodCall, GoodRefresh, GoodPanel, Follows,
      Ordered, Known, Latest, Closed
  <1>2. ASSUME NEW r \in refreshes, RefreshStep(r) PROVE DisplayInv' /\ NoOlder
    BY <1>2, InnerDisplay, RefreshAnswersDisplay DEF RefreshStep, InnerStep
  <1> QED BY <1>1, <1>2, OutsideDisplay, CallDisplay, UserDisplay, RefreshDisplay DEF Next

\* The panel shows the order that was clicked last, whatever else is answered after the
\* click, and while it is selected never an older revision of it, except one that a run,
\* its cancellation or an edit of that order brings back.
THEOREM DisplayIsRight == QueuePanelConstants /\ Spec => DisplayFollowsClicks
  <1> SUFFICES ASSUME QueuePanelConstants PROVE Spec => DisplayFollowsClicks OBVIOUS
  <1>0. Null \notin Nat BY DEF QueuePanelConstants
  <1>1. Init => BusyInv /\ IdsInv /\ DisplayInv BY InitBusy, InitIds, InitDisplay
  <1>2. BusyInv /\ IdsInv /\ DisplayInv /\ [Next]_vars => DisplayInv' /\ [NoOlder]_vars
    BY <1>0, NextDisplay
  <1>3. DisplayInv' /\ [NoOlder]_vars =>
          [/\ ShownIsClicked'
           /\ panel.shown # Null /\ panel'.shown # Null
                => \/ panel'.shown.w.n >= panel.shown.w.n
                   \/ \E c \in calls : Brings(c, panel'.shown.w)]_<<panel, clicked>>
    BY DEF DisplayInv, Follows, ShownIsClicked, NoOlder, vars
  <1> QED BY <1>1, <1>2, <1>3, NextBusy, NextIds, PTL DEF Spec, DisplayFollowsClicks
==============================================================================
