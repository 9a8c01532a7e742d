--------------------------- MODULE AppStateProofs ---------------------------
(* Proofs about AppState, for every set of windows, settings and values and   *)
(* any number of edits, transactions, failures and deaths.                    *)
EXTENDS AppState, FiniteSetTheorems, TLAPS

-----------------------------------------------------------------------------
(* The last edit of a setting *)

\* An edit is a record, and has a stamp of its own.
IsEdit(r) == r \in [value : Values, ts : Nat] /\ r.ts # 0

WriteShape ==
    /\ clock \in Nat
    /\ stored = [k \in Keys |-> stored[k]]
    /\ journal = [k \in Keys |-> journal[k]]
    /\ edited = [k \in Keys |-> edited[k]]
    /\ life = [w \in Windows |-> life[w]]
    /\ answer = [w \in Windows |-> answer[w]]
    /\ sent = [w \in Windows |-> [k \in Keys |-> sent[w][k]]]
    /\ \A k \in Settings : edited[k] # None => IsEdit(edited[k])

\* No record is younger than the last edit, and none has its stamp by accident.
Dated(r) == r.ts \in Nat /\ r.ts <= clock
Older(r, k) ==
    /\ Dated(r)
    /\ edited[k] # None => r.ts <= edited[k].ts /\ (r.ts = edited[k].ts => r = edited[k])

RowIsOlder == \A k \in Settings : stored[k] # Absent => Older(stored[k], k)
PendingIsOlder == \A k \in Settings : journal[k] # None => Older(journal[k], k)
SentIsOlder == \A w \in Windows, k \in Settings : sent[w][k] # None => Older(sent[w][k], k)
EditIsDated == \A k \in Settings : edited[k] # None => Dated(edited[k])

\* A window that is not there has no native call under way.
DownIsQuiet == \A w \in Windows : life[w] \in {"down", "failed"} => answer[w] = None

\* A write that was answered has left the last edit in the table if it carried it.
Answered(w) == answer[w] \notin {None, Asked, Failed}
AnsweredIsStored ==
    \A w \in Windows, k \in Settings :
        edited[k] # None /\ Answered(w) /\ sent[w][k] = edited[k] => stored[k] = edited[k]

KeptInv ==
    /\ WriteShape
    /\ RowIsOlder /\ PendingIsOlder /\ SentIsOlder /\ EditIsDated
    /\ DownIsQuiet /\ AnsweredIsStored /\ EditsAreKept

USE AppStateAssumption DEF Keys

LEMMA KeptInit == Init => KeptInv
  <1> SUFFICES ASSUME Init PROVE KeptInv OBVIOUS
  <1>1. \A k \in Keys : edited[k] = None /\ journal[k] = None BY DEF Init, Nothing
  <1>2. \A w \in Windows, k \in Keys : sent[w][k] = None BY DEF Init, Nothing
  <1>3. \A w \in Windows : answer[w] = None BY DEF Init
  <1>4. \A k \in Settings : stored[k] # Absent => stored[k].ts = 0 BY DEF Init
  <1>5. WriteShape BY <1>1 DEF Init, WriteShape, Nothing
  <1>6. RowIsOlder BY <1>1, <1>4 DEF RowIsOlder, Older, Dated, Init
  <1>7. QED
    BY <1>1, <1>2, <1>3, <1>5, <1>6 DEF KeptInv, PendingIsOlder, SentIsOlder, EditIsDated,
      DownIsQuiet, AnsweredIsStored, EditsAreKept

\* Steps that leave the table, the journal and the flushes alone.
LEMMA KeptStutter ==
    ASSUME KeptInv, UNCHANGED <<nativeVars, bootVars, edited>>
    PROVE  KeptInv'
  BY DEF KeptInv, WriteShape, RowIsOlder, PendingIsOlder, SentIsOlder, EditIsDated, DownIsQuiet,
    AnsweredIsStored, EditsAreKept, Older, Dated, Answered, nativeVars, bootVars

\* A step that writes no setting keeps the invariant if it only starts, answers or
\* drops flushes, and forgets pending writes that are in the table.
Forgets == \A k \in Settings :
    \/ journal'[k] = journal[k]
    \/ journal'[k] = None /\ (journal[k] = edited[k] => stored[k] = edited[k])
Sends == \A w \in Windows, k \in Settings : sent'[w][k] \in {None, sent[w][k], journal'[k]}
Answers == \A w \in Windows : Answered(w)' =>
    \A k \in Settings : sent'[w][k] = None \/ (Answered(w) /\ sent'[w][k] = sent[w][k])
WritesNoSetting ==
    /\ WriteShape' /\ DownIsQuiet'
    /\ edited' = edited
    /\ clock' >= clock
    /\ \A k \in Settings : stored'[k] = stored[k]
    /\ Forgets /\ Sends /\ Answers

LEMMA KeptQuietly ==
    ASSUME KeptInv, WritesNoSetting
    PROVE  KeptInv'
  <1> USE DEF KeptInv, WritesNoSetting
  <1>1. ASSUME NEW r, NEW k \in Settings, Older(r, k)
        PROVE  Older(r, k)'
    BY <1>1 DEF Older, Dated, WriteShape
  <1>2. RowIsOlder' /\ PendingIsOlder' /\ EditIsDated'
    BY <1>1 DEF RowIsOlder, PendingIsOlder, EditIsDated, Dated, Forgets, WriteShape
  <1>3. SentIsOlder' BY <1>1, <1>2 DEF SentIsOlder, PendingIsOlder, Sends
  <1>4. AnsweredIsStored' BY DEF AnsweredIsStored, Answers
  <1>5. EditsAreKept' BY DEF EditsAreKept, Forgets
  <1>6. QED BY <1>2, <1>3, <1>4, <1>5

LEMMA KeptNativeWriteFails ==
    ASSUME KeptInv, NEW w \in Windows, NativeWriteFails(w)
    PROVE  KeptInv'
  <1>1. WriteShape' /\ DownIsQuiet'
    BY DEF KeptInv, WriteShape, NativeWriteFails, nativeVars, DownIsQuiet, IsEdit
  <1>2. WritesNoSetting
    BY <1>1 DEF WritesNoSetting, KeptInv, WriteShape, NativeWriteFails, nativeVars, Forgets, Sends,
      Answers, Answered
  <1>3. QED BY <1>2, KeptQuietly

LEMMA KeptBoot ==
    ASSUME KeptInv, NEW w \in Windows, Boot(w)
    PROVE  KeptInv'
  <1>1. WriteShape' BY DEF KeptInv, WriteShape, Boot, nativeVars
  <1>2. DownIsQuiet' /\ ~Answered(w)' BY DEF Boot, KeptInv, WriteShape, DownIsQuiet, Answered
  <1>3. WritesNoSetting
    BY <1>1, <1>2 DEF WritesNoSetting, KeptInv, WriteShape, Boot, nativeVars, Forgets, Sends,
      Answers, Answered
  <1>4. QED BY <1>3, KeptQuietly

LEMMA KeptCleared ==
    ASSUME KeptInv, NEW w \in Windows, Answered(w), journal' = Cleared(w), edited' = edited
    PROVE  Forgets /\ journal' = [k \in Keys |-> journal'[k]]
  BY DEF Forgets, Cleared, KeptInv, AnsweredIsStored, WriteShape

LEMMA KeptBootWritten ==
    ASSUME KeptInv, NEW w \in Windows, BootWritten(w)
    PROVE  KeptInv'
  <1>1. Answered(w) /\ edited' = edited /\ journal' = Cleared(w) BY DEF BootWritten, Answered
  <1>2. Forgets /\ journal' = [k \in Keys |-> journal'[k]] BY <1>1, KeptCleared
  <1>5. WriteShape' BY <1>2 DEF KeptInv, WriteShape, BootWritten, Nothing
  <1>3. DownIsQuiet' BY DEF KeptInv, WriteShape, BootWritten, DownIsQuiet
  <1>4. WritesNoSetting
    BY <1>2, <1>5, <1>3 DEF WritesNoSetting, KeptInv, WriteShape, BootWritten, Sends, Answers,
      Answered, Nothing
  <1>6. QED BY <1>4, KeptQuietly

LEMMA KeptDropped ==
    ASSUME KeptInv, NEW w \in Windows, nativeVars' = nativeVars, edited' = edited,
           NEW l, life' = [life EXCEPT ![w] = l],
           sent' = [sent EXCEPT ![w] = Nothing], answer' = [answer EXCEPT ![w] = None]
    PROVE  KeptInv'
  <1>1. WriteShape' /\ DownIsQuiet'
    BY DEF KeptInv, WriteShape, nativeVars, DownIsQuiet, IsEdit, Nothing
  <1>2. WritesNoSetting
    BY <1>1 DEF WritesNoSetting, KeptInv, WriteShape, nativeVars, Forgets, Sends, Answers, Answered,
      Nothing
  <1>3. QED BY <1>2, KeptQuietly

LEMMA KeptBootFails ==
    ASSUME KeptInv, NEW w \in Windows, BootFails(w)
    PROVE  KeptInv'
  BY KeptDropped DEF BootFails

LEMMA KeptCrash ==
    ASSUME KeptInv, NEW w \in Windows, Crash(w)
    PROVE  KeptInv'
  BY KeptDropped DEF Crash

LEMMA ClockAdvances ==
    ASSUME KeptInv, clock' \in {clock, Stamp}
    PROVE  clock' \in Nat /\ clock' >= clock
  BY DEF KeptInv, WriteShape, Stamp

LEMMA EndFlushTicks ==
    ASSUME NEW w, NEW ok, NEW j, NEW shown, EndFlush(w, ok, j, shown)
    PROVE  /\ clock' \in {clock, Stamp}
           /\ sent' = [sent EXCEPT ![w] = Nothing]
           /\ answer' = [answer EXCEPT ![w] = None]
  BY DEF EndFlush, Continue

LEMMA KeptFlushEnds ==
    ASSUME KeptInv, NEW w \in Windows, clock' \in {clock, Stamp},
           sent' = [sent EXCEPT ![w] = Nothing], answer' = [answer EXCEPT ![w] = None],
           Forgets, journal' = [k \in Keys |-> journal'[k]], UNCHANGED <<stored, life, edited>>
    PROVE  KeptInv'
  <1>1. WriteShape' BY ClockAdvances DEF KeptInv, WriteShape, Nothing
  <1>2. DownIsQuiet' BY DEF KeptInv, WriteShape, DownIsQuiet
  <1>3. WritesNoSetting
    BY <1>1, <1>2, ClockAdvances DEF WritesNoSetting, KeptInv, WriteShape, Sends, Answers, Answered,
      Nothing
  <1>4. QED BY <1>3, KeptQuietly

LEMMA KeptFlushStarts ==
    ASSUME KeptInv, NEW w \in Windows, Ready(w), clock' = clock, StartFlush(w, journal'),
           Forgets, journal' = [k \in Keys |-> journal'[k]], UNCHANGED <<stored, life, edited>>
    PROVE  KeptInv'
  <1>1. WriteShape' BY DEF KeptInv, WriteShape, StartFlush
  <1>2. DownIsQuiet' BY DEF KeptInv, WriteShape, DownIsQuiet, Ready, StartFlush
  <1>3. WritesNoSetting
    BY <1>1, <1>2 DEF WritesNoSetting, KeptInv, WriteShape, Sends, Answers, Answered, StartFlush
  <1>4. QED BY <1>3, KeptQuietly

LEMMA KeptFlushAnswered ==
    ASSUME KeptInv, NEW w \in Windows, FlushAnswered(w)
    PROVE  KeptInv'
  <1>1. Answered(w) /\ Ready(w) /\ UNCHANGED <<stored, life, edited>> BY DEF FlushAnswered, Answered
  <1>2. CASE /\ journal' = Cleared(w)
             /\ EndFlush(w, TRUE, journal', cache'[w])
    BY <1>1, <1>2, KeptCleared, EndFlushTicks, KeptFlushEnds
  <1>3. CASE /\ journal' = Cleared(w)
             /\ StartFlush(w, journal')
             /\ clock' = clock
    BY <1>1, <1>3, KeptCleared, KeptFlushStarts
  <1>4. CASE journal' = journal /\ EndFlush(w, FALSE, journal, cache'[w])
    <2>1. Forgets /\ journal' = [k \in Keys |-> journal'[k]]
      BY <1>4 DEF Forgets, KeptInv, WriteShape
    <2>2. QED BY <1>1, <1>4, <2>1, EndFlushTicks, KeptFlushEnds
  <1>5. QED BY <1>2, <1>3, <1>4 DEF FlushAnswered

LEMMA KeptFlushFails ==
    ASSUME KeptInv, NEW w \in Windows, FlushFails(w)
    PROVE  KeptInv'
  <1>1. Forgets /\ journal' = [k \in Keys |-> journal'[k]]
    BY DEF FlushFails, Forgets, KeptInv, WriteShape
  <1>2. EndFlush(w, FALSE, journal, cache[w]) /\ UNCHANGED <<stored, life, edited>>
    BY DEF FlushFails
  <1>3. QED BY <1>1, <1>2, EndFlushTicks, KeptFlushEnds

LEMMA KeptSubmit ==
    ASSUME KeptInv, NEW w \in Windows, Submit(w)
    PROVE  KeptInv'
  <1>1. Forgets /\ journal' = [k \in Keys |-> journal'[k]]
    BY DEF Submit, Forgets, KeptInv, WriteShape
  <1>2. journal' = journal /\ UNCHANGED <<stored, life, edited>> BY DEF Submit
  <1>3. CASE clock' = Stamp /\ UNCHANGED <<sent, answer>>
    <2>1. WriteShape' /\ DownIsQuiet'
      BY <1>2, <1>3, ClockAdvances DEF KeptInv, WriteShape, DownIsQuiet
    <2>2. WritesNoSetting
      BY <1>1, <1>2, <1>3, <2>1, ClockAdvances DEF WritesNoSetting, Sends, Answers, Answered
    <2>3. QED BY <2>2, KeptQuietly
  <1>4. CASE clock' = clock /\ StartFlush(w, journal)
    BY <1>1, <1>2, <1>4, KeptFlushStarts DEF Submit
  <1>5. CASE clock' = clock /\ UNCHANGED <<sent, answer>>
    BY <1>2, <1>5, KeptStutter DEF nativeVars, bootVars
  <1>6. QED BY <1>3, <1>4, <1>5 DEF Submit, Continue

LEMMA KeptNativeCommit ==
    ASSUME KeptInv, NEW w \in Windows, NativeCommit(w)
    PROVE  KeptInv'
  <1>1. /\ stored' = [k \in Keys |-> stored'[k]]
        /\ \A k \in Settings : stored'[k] = stored[k]
    BY DEF NativeCommit, KeptInv, WriteShape
  <1>2. UNCHANGED <<journal, clock, life, sent, answer, edited>> BY DEF NativeCommit, bootVars
  <1>3. WriteShape' /\ DownIsQuiet' BY <1>1, <1>2 DEF KeptInv, WriteShape, DownIsQuiet
  <1>4. WritesNoSetting
    BY <1>1, <1>2, <1>3 DEF WritesNoSetting, KeptInv, WriteShape, Forgets, Sends, Answers, Answered
  <1>5. QED BY <1>4, KeptQuietly

-----------------------------------------------------------------------------
(* The steps that write a setting *)

LEMMA KeptNativeWrite ==
    ASSUME KeptInv, NEW w \in Windows, NativeWrite(w)
    PROVE  KeptInv'
  <1> USE DEF KeptInv
  <1>1. UNCHANGED <<journal, clock, life, sent, edited>> BY DEF NativeWrite
  <1>2. \A k \in Keys : stored'[k] = IF sent[w][k] = None \/ Late(w, k) THEN stored[k] ELSE sent[w][k]
    BY DEF NativeWrite
  <1>3. WriteShape' BY <1>1 DEF WriteShape, NativeWrite
  <1>4. DownIsQuiet' BY <1>1 DEF DownIsQuiet, WriteShape, NativeWrite
  <1>5. RowIsOlder' /\ PendingIsOlder' /\ SentIsOlder' /\ EditIsDated'
    BY <1>1, <1>2 DEF RowIsOlder, PendingIsOlder, SentIsOlder, EditIsDated, Older, Dated
  \* The last edit is replaced by nothing but itself.
  <1>6. \A k \in Settings : edited[k] # None /\ stored[k] = edited[k] => stored'[k] = edited[k]
    <2> SUFFICES ASSUME NEW k \in Settings, edited[k] # None, stored[k] = edited[k],
                        sent[w][k] # None, ~Late(w, k)
                 PROVE  sent[w][k] = edited[k]
      BY <1>2
    <2>1. stored[k] # Absent BY DEF WriteShape, IsEdit
    <2>2. Older(sent[w][k], k) /\ Dated(edited[k]) BY DEF SentIsOlder, EditIsDated
    <2>3. QED BY <2>1, <2>2 DEF Late, Older, Dated
  \* And it is never late.
  <1>7. ASSUME NEW k \in Settings, edited[k] # None, sent[w][k] = edited[k]
        PROVE  stored'[k] = edited[k]
    <2>1. stored[k] # Absent => Older(stored[k], k) /\ Dated(edited[k])
      BY <1>7 DEF RowIsOlder, EditIsDated
    <2>2. ~Late(w, k) BY <1>7, <2>1 DEF Late, Older, Dated
    <2>3. QED BY <1>2, <1>7, <2>2
  <1>8. AnsweredIsStored'
    <2> SUFFICES ASSUME NEW v \in Windows, NEW k \in Settings,
                        edited[k] # None, Answered(v)', sent[v][k] = edited[k]
                 PROVE  stored'[k] = edited[k]
      BY <1>1 DEF AnsweredIsStored
    <2>1. CASE v = w BY <2>1, <1>7
    <2>2. CASE v # w
      <3>1. Answered(v) BY <2>2 DEF Answered, NativeWrite, WriteShape
      <3>2. QED BY <3>1, <1>6 DEF AnsweredIsStored
    <2>3. QED BY <2>1, <2>2
  <1>9. EditsAreKept' BY <1>1, <1>6 DEF EditsAreKept
  <1>10. QED BY <1>3, <1>4, <1>5, <1>8, <1>9

\* A default is older than any edit, whatever is promoted.
LEMMA KeptBootAnswered ==
    ASSUME KeptInv, NEW w \in Windows, BootAnswered(w)
    PROVE  KeptInv'
  <1> USE DEF KeptInv
  <1>1. UNCHANGED <<nativeVars, edited>> BY DEF BootAnswered
  <1>2. sent' = [sent EXCEPT ![w] = [k \in Keys |-> IF k \in Promoted(w) THEN Chosen(w, k) ELSE None]]
    BY DEF BootAnswered
  <1>3. /\ answer' = answer \/ answer' = [answer EXCEPT ![w] = Asked]
        /\ \/ life' = [life EXCEPT ![w] = "ready"]
           \/ life' = [life EXCEPT ![w] = "writing"]
        /\ Promoted(w) = {} \/ ~Answered(w)'
    BY DEF BootAnswered, WriteShape, Answered
  <1>4. WriteShape' BY <1>1, <1>2, <1>3, ZenonT(60) DEF WriteShape, nativeVars
  <1>5. DownIsQuiet' BY <1>3 DEF DownIsQuiet, WriteShape, BootAnswered
  <1>6. SentIsOlder'
    <2> SUFFICES ASSUME NEW v \in Windows, NEW k \in Settings, sent'[v][k] # None
                 PROVE  Older(sent[v][k], k)'
      BY DEF SentIsOlder
    <2>1. CASE v # w \/ sent'[v][k] = sent[v][k]
      <3>1. sent'[v][k] = sent[v][k] BY <2>1, <1>2 DEF WriteShape
      <3>2. QED BY <3>1, <1>1 DEF SentIsOlder, Older, Dated, nativeVars
    <2>2. CASE v = w /\ sent'[v][k] # sent[v][k]
      <3>1. sent'[v][k] = [value |-> Initial(k), ts |-> 0]
        BY <2>2, <1>2 DEF Chosen, Promoted, WriteShape
      <3>2. Dated(sent[v][k])' BY <3>1, <1>1 DEF Dated, WriteShape, nativeVars
      <3>3. edited[k] # None => edited[k].ts \in Nat /\ edited[k].ts # 0 BY DEF WriteShape, IsEdit
      <3>4. QED BY <3>1, <3>2, <3>3, <1>1 DEF Older
    <2>3. QED BY <2>1, <2>2
  <1>7. RowIsOlder' /\ PendingIsOlder' /\ EditIsDated' /\ EditsAreKept'
    BY <1>1 DEF RowIsOlder, PendingIsOlder, EditIsDated, EditsAreKept, Older, Dated, nativeVars
  <1>8. AnsweredIsStored'
    <2> SUFFICES ASSUME NEW v \in Windows, NEW k \in Settings,
                        edited[k] # None, Answered(v)', sent'[v][k] = edited[k]
                 PROVE  stored[k] = edited[k]
      BY <1>1 DEF AnsweredIsStored, nativeVars
    <2>1. v # w BY <1>2, <1>3 DEF WriteShape
    <2>2. Answered(v) /\ sent[v][k] = edited[k] BY <2>1, <1>2, <1>3 DEF Answered, WriteShape
    <2>3. QED BY <2>2 DEF AnsweredIsStored
  <1>9. QED BY <1>4, <1>5, <1>6, <1>7, <1>8

LEMMA KeptEdit ==
    ASSUME KeptInv, NEW w \in Windows, NEW e \in Settings, NEW x \in Values, Edit(w, e, x)
    PROVE  KeptInv'
  <1>0. PICK rec : rec = [value |-> x, ts |-> Stamp] OBVIOUS
  <1> USE DEF KeptInv
  <1>1. /\ clock' = Stamp /\ Stamp = clock + 1 /\ clock \in Nat
        /\ UNCHANGED <<stored, life>>
        /\ Ready(w)
    BY DEF Edit, Stamp, WriteShape
  <1>2. /\ journal' = [journal EXCEPT ![e] = rec]
        /\ edited' = [edited EXCEPT ![e] = rec]
    BY <1>0 DEF Edit
  <1>3. \/ UNCHANGED <<sent, answer>>
        \/ sent' = [sent EXCEPT ![w] = journal'] /\ answer' = [answer EXCEPT ![w] = Asked]
    BY DEF Edit, StartFlush
  <1>4. rec.ts = Stamp /\ IsEdit(rec) /\ rec # None BY <1>0, <1>1 DEF IsEdit
  <1>5. \A k \in Settings :
          /\ journal'[k] = IF k = e THEN rec ELSE journal[k]
          /\ edited'[k] = IF k = e THEN rec ELSE edited[k]
    BY <1>2 DEF WriteShape
  <1>6. WriteShape'
    <2>1. \A k \in Settings : edited'[k] # None => IsEdit(edited'[k]) BY <1>4, <1>5 DEF WriteShape
    <2>2. journal' = [k \in Keys |-> journal'[k]] BY <1>2 DEF WriteShape
    <2>3. edited' = [k \in Keys |-> edited'[k]] BY <1>2 DEF WriteShape
    <2>4. sent' = [v \in Windows |-> [k \in Keys |-> sent'[v][k]]]
      <3>1. \A v \in Windows : sent'[v] = [k \in Keys |-> sent'[v][k]]
        <4> TAKE v \in Windows
        <4>1. sent[v] = [k \in Keys |-> sent[v][k]] BY DEF WriteShape
        <4>2. sent'[v] \in {sent[v], journal'} BY <1>3 DEF WriteShape
        <4>3. QED BY <2>2, <4>1, <4>2
      <3>2. sent' = [v \in Windows |-> sent'[v]] BY <1>3 DEF WriteShape
      <3>3. QED BY <3>1, <3>2
    <2>5. answer' = [v \in Windows |-> answer'[v]] BY <1>3 DEF WriteShape
    <2>6. QED BY <1>1, <2>1, <2>2, <2>3, <2>4, <2>5 DEF WriteShape
  <1>7. DownIsQuiet' BY <1>1, <1>3 DEF DownIsQuiet, WriteShape, Ready
  <1>8. ASSUME NEW r, NEW k \in Settings, Older(r, k)
        PROVE  Older(r, k)' /\ r.ts < Stamp
    BY <1>1, <1>4, <1>5, <1>8 DEF Older, Dated
  <1>9. Older(rec, e)' BY <1>1, <1>4, <1>5 DEF Older, Dated
  <1>10. RowIsOlder' /\ PendingIsOlder' /\ EditIsDated'
    BY <1>1, <1>4, <1>5, <1>8, <1>9 DEF RowIsOlder, PendingIsOlder, EditIsDated, Dated
  <1>11. SentIsOlder' BY <1>3, <1>8, <1>10 DEF SentIsOlder, PendingIsOlder, WriteShape
  <1>12. AnsweredIsStored'
    <2> SUFFICES ASSUME NEW v \in Windows, NEW k \in Settings,
                        edited'[k] # None, Answered(v)', sent'[v][k] = edited'[k]
                 PROVE  stored'[k] = edited'[k]
      BY DEF AnsweredIsStored
    <2>1. Answered(v) /\ sent'[v][k] = sent[v][k] BY <1>3 DEF Answered, WriteShape
    <2>2. k # e
      <3>1. sent[v][k] # None => sent[v][k].ts < Stamp BY <1>8 DEF SentIsOlder
      <3>2. k = e => sent[v][k] = rec BY <1>5, <2>1
      <3>3. QED BY <3>1, <3>2, <1>1, <1>4
    <2>3. QED BY <2>1, <2>2, <1>1, <1>5 DEF AnsweredIsStored
  <1>13. EditsAreKept' BY <1>1, <1>5 DEF EditsAreKept
  <1>14. QED BY <1>6, <1>7, <1>10, <1>11, <1>12, <1>13

-----------------------------------------------------------------------------

LEMMA KeptWork ==
    ASSUME KeptInv, NEW w \in Windows, Work(w)
    PROVE  KeptInv'
  <1>1. CASE NoticeArrives(w) BY <1>1, KeptStutter DEF NoticeArrives
  <1>2. CASE NativeRead(w) BY <1>2, KeptStutter DEF NativeRead
  <1>3. CASE RefreshAnswered(w) BY <1>3, KeptStutter DEF RefreshAnswered
  <1>4. CASE CommitAnswered(w) BY <1>4, KeptStutter DEF CommitAnswered
  <1>5. CASE \E k \in Settings : StorageEvent(w, k) BY <1>5, KeptStutter DEF StorageEvent
  <1>6. QED
    BY <1>1, <1>2, <1>3, <1>4, <1>5, KeptNativeWrite, KeptBootAnswered, KeptBootWritten,
      KeptBootFails, KeptFlushAnswered, KeptFlushFails, KeptNativeCommit DEF Work

LEMMA KeptNext == KeptInv /\ [Next]_vars => KeptInv'
  <1> SUFFICES ASSUME KeptInv, [Next]_vars PROVE KeptInv' OBVIOUS
  <1>1. CASE UNCHANGED vars BY <1>1, KeptStutter DEF vars
  <1>2. ASSUME NEW w \in Windows, Focus(w) PROVE KeptInv' BY <1>2, KeptStutter DEF Focus
  <1>3. ASSUME NEW w \in Windows, RefreshFails(w) PROVE KeptInv'
    BY <1>3, KeptStutter DEF RefreshFails
  <1>4. QED
    BY <1>1, <1>2, <1>3, KeptWork, KeptBoot, KeptSubmit, KeptCrash, KeptBootFails,
      KeptNativeWriteFails, KeptEdit DEF Next

\* The last edit of a setting that was acknowledged is in the journal or in the
\* table, whatever other windows flush, replay or clean up and whoever dies.
THEOREM EditsAreKeptHolds == Spec => []EditsAreKept
  <1>1. KeptInv => EditsAreKept BY DEF KeptInv
  <1>2. QED BY <1>1, KeptInit, KeptNext, PTL DEF Spec

-----------------------------------------------------------------------------
(* The registry *)

CommitShape(c) ==
    c = [at |-> c.at, base |-> c.base, expected |-> c.expected, next |-> c.next]

TransactionShape ==
    commit = [w \in Windows |-> commit[w]] /\ \A w \in Windows : CommitShape(commit[w])

RegistryShape ==
    /\ clock \in Nat
    /\ stored = [k \in Keys |-> stored[k]]
    /\ journal = [k \in Keys |-> journal[k]]
    /\ life = [w \in Windows |-> life[w]]
    /\ sent = [w \in Windows |-> [k \in Keys |-> sent[w][k]]]
    /\ cache = [w \in Windows |-> [k \in Keys |-> cache[w][k]]]
    /\ TransactionShape

\* The registry is never journalled, so a flush does not write it.
NeverPending == journal[Registry] = None
RowIsDated ==
    stored[Registry] # Absent =>
        /\ stored[Registry].ts \in Nat
        /\ stored[Registry].ts = 0 => stored[Registry].value = {}

\* A window that starts may replay the default, one that is not there has no
\* transaction, and a proposal builds on the snapshot that its window still shows.
Replays(w) ==
    /\ sent[w][Registry] \in {None, [value |-> {}, ts |-> 0]}
    /\ Ready(w) => sent[w][Registry] = None
Sound(c, shown) ==
    /\ shown.value = c.expected
    /\ c.next.ts \in Nat \ {0}
    /\ c.base = None \/ c.expected \subseteq c.next.value
WindowInv(w) ==
    /\ Replays(w)
    /\ Ready(w) \/ commit[w] = NoCommit
    /\ commit[w].at = "sent" => Sound(commit[w], cache[w][Registry])

RegistryInv == RegistryShape /\ NeverPending /\ RowIsDated /\ \A w \in Windows : WindowInv(w)

USE DEF RegistryInv

LEMMA RegistryInit == Init => RegistryInv
  <1> SUFFICES ASSUME Init PROVE RegistryInv OBVIOUS
  <1>1. RegistryShape BY DEF Init, RegistryShape, TransactionShape, Nothing, NoCommit, CommitShape
  <1>2. NeverPending /\ RowIsDated BY DEF Init, NeverPending, RowIsDated, Initial, Nothing
  <1>3. \A w \in Windows : WindowInv(w) BY DEF Init, WindowInv, Replays, Sound, NoCommit, Nothing
  <1>4. QED BY <1>1, <1>2, <1>3

LEMMA TransactionUpdates ==
    ASSUME TransactionShape, NEW w \in Windows, NEW c, CommitShape(c),
           commit' = [commit EXCEPT ![w] = c]
    PROVE  TransactionShape' /\ commit'[w] = c
  BY DEF TransactionShape

LEMMA NoCommitShape == CommitShape(NoCommit)
  BY DEF CommitShape, NoCommit

\* Steps that neither write the registry nor show it nor move a transaction.
LEMMA RegistryStutter ==
    ASSUME RegistryInv, UNCHANGED <<nativeVars, life, sent, cache, commit>>
    PROVE  RegistryInv'
  BY DEF RegistryShape, TransactionShape, NeverPending, RowIsDated, WindowInv, Replays, Sound,
    Ready, nativeVars

\* Steps of one window.
OthersStay(w) ==
    \A v \in Windows \ {w} :
        /\ life'[v] = life[v]
        /\ sent'[v][Registry] = sent[v][Registry]
        /\ cache'[v][Registry] = cache[v][Registry]
        /\ commit'[v] = commit[v]

LEMMA RegistryWindowStep ==
    ASSUME RegistryInv, NEW w \in Windows, OthersStay(w),
           RegistryShape', NeverPending', RowIsDated', WindowInv(w)'
    PROVE  RegistryInv'
  <1>1. ASSUME NEW v \in Windows, v # w PROVE WindowInv(v)'
    BY <1>1 DEF OthersStay, WindowInv, Replays, Sound, Ready
  <1>2. QED BY <1>1

LEMMA RegistryDropped ==
    ASSUME RegistryInv, NEW w \in Windows, nativeVars' = nativeVars,
           NEW l, life' = [life EXCEPT ![w] = l],
           sent' = [sent EXCEPT ![w] = Nothing], cache' = [cache EXCEPT ![w] = Nothing],
           commit' = [commit EXCEPT ![w] = NoCommit] \/ (commit' = commit /\ ~Ready(w))
    PROVE  RegistryInv'
  <1>7. TransactionShape' BY NoCommitShape, TransactionUpdates DEF RegistryShape, TransactionShape
  <1>1. RegistryShape' BY <1>7 DEF RegistryShape, Nothing, nativeVars
  <1>2. NeverPending' /\ RowIsDated' BY DEF NeverPending, RowIsDated, nativeVars
  <1>3. commit'[w] = NoCommit BY DEF RegistryShape, TransactionShape, WindowInv
  <1>4. WindowInv(w)' BY <1>3 DEF WindowInv, Replays, Nothing, RegistryShape, NoCommit
  <1>5. OthersStay(w) BY DEF OthersStay, RegistryShape, TransactionShape
  <1>6. QED BY <1>1, <1>2, <1>4, <1>5, RegistryWindowStep

LEMMA RegistryNativeWrite ==
    ASSUME RegistryInv, NEW w \in Windows, NativeWrite(w)
    PROVE  RegistryInv'
  <1>1. UNCHANGED <<journal, clock, life, sent, cache, commit>> BY DEF NativeWrite
  <1>2. stored' = [k \in Keys |-> stored'[k]] BY DEF NativeWrite
  <1>3. stored'[Registry] \in {stored[Registry], [value |-> {}, ts |-> 0]}
    BY DEF NativeWrite, WindowInv, Replays
  <1>4. RowIsDated' BY <1>3 DEF RowIsDated
  <1>5. QED
    BY <1>1, <1>2, <1>4 DEF RegistryShape, TransactionShape, NeverPending, WindowInv, Replays,
      Sound, Ready

LEMMA RegistryBoot ==
    ASSUME RegistryInv, NEW w \in Windows, Boot(w)
    PROVE  RegistryInv'
  <1>1. RegistryShape' BY DEF Boot, RegistryShape, TransactionShape, nativeVars
  <1>2. NeverPending' /\ RowIsDated' /\ OthersStay(w)
    BY DEF Boot, NeverPending, RowIsDated, OthersStay, RegistryShape, nativeVars
  <1>3. WindowInv(w)' BY DEF Boot, WindowInv, Replays, Sound, Ready, RegistryShape, NeverPending
  <1>4. QED BY <1>1, <1>2, <1>3, RegistryWindowStep

LEMMA RegistryBootAnswered ==
    ASSUME RegistryInv, NEW w \in Windows, BootAnswered(w)
    PROVE  RegistryInv'
  <1>1. RegistryShape' BY DEF BootAnswered, RegistryShape, TransactionShape, nativeVars
  <1>2. NeverPending' /\ RowIsDated' /\ OthersStay(w)
    BY DEF BootAnswered, NeverPending, RowIsDated, OthersStay, RegistryShape, nativeVars
  <1>3. commit'[w] = NoCommit BY DEF BootAnswered, WindowInv, Ready
  <1>4. sent'[w][Registry] \in {None, [value |-> {}, ts |-> 0]}
    BY DEF BootAnswered, Promoted, Chosen, Initial, WindowInv, Replays, RegistryShape
  <1>5. life'[w] = "ready" => sent'[w][Registry] = None BY DEF BootAnswered, RegistryShape
  <1>6. WindowInv(w)' BY <1>3, <1>4, <1>5 DEF WindowInv, Replays, Ready, NoCommit
  <1>7. QED BY <1>1, <1>2, <1>6, RegistryWindowStep

LEMMA RegistryBootWritten ==
    ASSUME RegistryInv, NEW w \in Windows, BootWritten(w)
    PROVE  RegistryInv'
  <1>1. RegistryShape'
    BY DEF BootWritten, RegistryShape, TransactionShape, Cleared, Reconciled, Nothing
  <1>2. NeverPending' /\ RowIsDated' /\ OthersStay(w)
    BY DEF BootWritten, NeverPending, RowIsDated, OthersStay, RegistryShape, Cleared
  <1>3. commit'[w] = NoCommit BY DEF BootWritten, WindowInv, Ready
  <1>4. WindowInv(w)' BY <1>3 DEF BootWritten, WindowInv, Replays, RegistryShape, Nothing, NoCommit
  <1>5. QED BY <1>1, <1>2, <1>4, RegistryWindowStep

LEMMA RegistryRefreshAnswered ==
    ASSUME RegistryInv, NEW w \in Windows, RefreshAnswered(w)
    PROVE  RegistryInv'
  <1>1. RegistryShape' BY DEF RefreshAnswered, RegistryShape, TransactionShape, nativeVars, bootVars
  <1>2. NeverPending' /\ RowIsDated' /\ OthersStay(w)
    BY DEF RefreshAnswered, NeverPending, RowIsDated, OthersStay, RegistryShape, nativeVars, bootVars
  \* The lease keeps the answer of a refresh from being shown.
  <1>3. commit[w].at = "sent" => cache'[w][Registry] = cache[w][Registry]
    BY DEF RefreshAnswered, Busy, Leased, RegistryShape
  <1>4. WindowInv(w)' BY <1>3 DEF RefreshAnswered, WindowInv, Replays, Sound, Ready, bootVars
  <1>5. QED BY <1>1, <1>2, <1>4, RegistryWindowStep

LEMMA RegistryStorageEvent ==
    ASSUME RegistryInv, NEW w \in Windows, NEW k \in Settings, StorageEvent(w, k)
    PROVE  RegistryInv'
  <1>0. PICK rec : rec = posted[w][k] OBVIOUS
  <1>1. cache' = cache \/ cache' = [cache EXCEPT ![w][k] = rec] BY <1>0 DEF StorageEvent
  <1>2. UNCHANGED <<stored, journal, clock, life, sent, commit>>
    BY DEF StorageEvent, nativeVars, bootVars
  <1>3. RegistryShape'
    <2>1. cache' = [v \in Windows |-> [i \in Keys |-> cache'[v][i]]]
      <3>1. CASE cache' = cache BY <3>1 DEF RegistryShape
      <3>2. CASE cache' = [cache EXCEPT ![w][k] = rec] BY <3>2 DEF RegistryShape
      <3>3. QED BY <1>1, <3>1, <3>2
    <2>2. QED BY <1>2, <2>1 DEF RegistryShape, TransactionShape
  <1>4. NeverPending' /\ RowIsDated' BY <1>2 DEF NeverPending, RowIsDated
  <1>5. \A v \in Windows : cache'[v][Registry] = cache[v][Registry]
    <2>1. CASE cache' = [cache EXCEPT ![w][k] = rec] BY <2>1 DEF RegistryShape
    <2>2. QED BY <1>1, <2>1
  <1>6. OthersStay(w) /\ WindowInv(w)'
    BY <1>2, <1>5 DEF OthersStay, WindowInv, Replays, Sound, Ready
  <1>7. QED BY <1>3, <1>4, <1>6, RegistryWindowStep

LEMMA RegistryEdit ==
    ASSUME RegistryInv, NEW w \in Windows, NEW k \in Settings, NEW x \in Values, Edit(w, k, x)
    PROVE  RegistryInv'
  <1>0. PICK rec : rec = [value |-> x, ts |-> Stamp] OBVIOUS
  <1>1. /\ Ready(w) /\ clock' = clock + 1 /\ UNCHANGED <<stored, life, commit>>
        /\ journal' = [journal EXCEPT ![k] = rec]
        /\ cache' = [cache EXCEPT ![w][k] = rec]
        /\ sent' = sent \/ sent' = [sent EXCEPT ![w] = journal']
    BY <1>0 DEF Edit, Stamp, StartFlush
  <1>2. /\ journal' = [i \in Keys |-> journal'[i]]
        /\ \A v \in Windows : sent[v] = [i \in Keys |-> sent[v][i]]
    BY <1>1 DEF RegistryShape
  <1>3. \A v \in Windows : sent'[v] = [i \in Keys |-> sent'[v][i]]
    <2> TAKE v \in Windows
    <2>1. sent'[v] \in {sent[v], journal'} BY <1>1 DEF RegistryShape
    <2>2. QED BY <1>2, <2>1
  <1>4. RegistryShape'
    <2>1. sent' = [v \in Windows |-> sent'[v]] BY <1>1 DEF RegistryShape
    <2>2. cache' = [v \in Windows |-> [i \in Keys |-> cache'[v][i]]] BY <1>1 DEF RegistryShape
    <2>3. QED BY <1>1, <1>2, <1>3, <2>1, <2>2 DEF RegistryShape, TransactionShape
  <1>5. NeverPending' /\ RowIsDated' BY <1>1 DEF NeverPending, RowIsDated, RegistryShape
  <1>6. /\ \A v \in Windows : cache'[v][Registry] = cache[v][Registry]
        /\ \A v \in Windows \ {w} : sent'[v] = sent[v]
        /\ sent'[w] \in {sent[w], journal'}
    BY <1>1 DEF RegistryShape
  <1>7. OthersStay(w) /\ WindowInv(w)'
    BY <1>1, <1>5, <1>6 DEF OthersStay, WindowInv, Replays, Sound, Ready, NeverPending
  <1>8. QED BY <1>4, <1>5, <1>7, RegistryWindowStep

\* A transaction that goes on proposes a change of what is shown then.
LEMMA ProposalIsSound ==
    ASSUME NEW base, NEW shown, clock \in Nat, Unmoved(base, shown)
    PROVE  CommitShape(Proposed(base, shown)) /\ Sound(Proposed(base, shown), shown[Registry])
  <1>1. /\ CommitShape(Proposed(base, shown))
        /\ Proposed(base, shown).base = base
        /\ Proposed(base, shown).expected = shown[Registry].value
        /\ Proposed(base, shown).next.ts = Stamp
        /\ Proposed(base, shown).next.value = IF base = None THEN Payload ELSE base \cup {Stamp}
    BY DEF Proposed, CommitShape
  <1>2. Stamp \in Nat \ {0} BY DEF Stamp
  <1>3. QED BY <1>1, <1>2 DEF Sound, Unmoved

LEMMA ContinueIsSound ==
    ASSUME RegistryInv, NEW w \in Windows, NEW base, NEW ok, NEW j, NEW shown,
           Continue(w, base, ok, j, shown)
    PROVE  /\ clock' \in Nat
           /\ TransactionShape'
           /\ \A v \in Windows \ {w} : commit'[v] = commit[v]
           /\ commit'[w].at = "sent" => Sound(commit'[w], shown[Registry])
  <1>1. PICK c : /\ commit' = [commit EXCEPT ![w] = c]
                 /\ \/ c = NoCommit
                    \/ c = Proposed(base, shown) /\ Unmoved(base, shown)
    BY DEF Continue
  <1>2. clock \in Nat /\ clock' = Stamp BY DEF Continue, RegistryShape
  <1>3. CommitShape(c) /\ (c.at = "sent" => Sound(c, shown[Registry]))
    BY <1>1, <1>2, NoCommitShape, ProposalIsSound DEF NoCommit
  <1>4. TransactionShape' /\ commit'[w] = c BY <1>1, <1>3, TransactionUpdates DEF RegistryShape
  <1>5. QED BY <1>1, <1>2, <1>3, <1>4 DEF TransactionShape, RegistryShape, Stamp

LEMMA EndFlushIsSound ==
    ASSUME RegistryInv, NEW w \in Windows, NEW ok, NEW j, NEW shown, EndFlush(w, ok, j, shown),
           shown[Registry].value = cache[w][Registry].value
    PROVE  /\ clock' \in Nat
           /\ TransactionShape'
           /\ \A v \in Windows \ {w} : commit'[v] = commit[v]
           /\ commit'[w].at = "sent" => Sound(commit'[w], shown[Registry])
           /\ sent' = [sent EXCEPT ![w] = Nothing]
  <1>1. CASE Continue(w, commit[w].base, ok, j, shown) BY <1>1, ContinueIsSound DEF EndFlush
  <1>2. CASE UNCHANGED <<clock, commit>>
    BY <1>2 DEF EndFlush, RegistryShape, TransactionShape, WindowInv, Sound
  <1>3. QED BY <1>1, <1>2 DEF EndFlush

\* The end of a flush, or of one turn of it, in a window that has started.
LEMMA RegistryFlush ==
    ASSUME RegistryInv, NEW w \in Windows, Ready(w), life' = life, stored' = stored,
           journal' = [k \in Keys |-> journal'[k]], journal'[Registry] = None,
           NEW s, sent' = [sent EXCEPT ![w] = s], s = [k \in Keys |-> s[k]], s[Registry] = None,
           NEW c, cache' = [cache EXCEPT ![w] = c], c = [k \in Keys |-> c[k]],
           clock' \in Nat, TransactionShape', \A v \in Windows \ {w} : commit'[v] = commit[v],
           commit'[w].at = "sent" => Sound(commit'[w], c[Registry])
    PROVE  RegistryInv'
  <1>1. sent' = [v \in Windows |-> [k \in Keys |-> sent'[v][k]]] BY DEF RegistryShape
  <1>2. cache' = [v \in Windows |-> [k \in Keys |-> cache'[v][k]]] BY DEF RegistryShape
  <1>3. RegistryShape' BY <1>1, <1>2 DEF RegistryShape
  <1>4. NeverPending' /\ RowIsDated' BY DEF NeverPending, RowIsDated
  <1>5. OthersStay(w) BY DEF OthersStay, RegistryShape
  <1>6. WindowInv(w)' BY DEF WindowInv, Replays, Ready, RegistryShape
  <1>7. QED BY <1>3, <1>4, <1>5, <1>6, RegistryWindowStep

LEMMA FlushShapes ==
    ASSUME RegistryInv, NEW w \in Windows, Ready(w)
    PROVE  /\ Nothing = [k \in Keys |-> Nothing[k]] /\ Nothing[Registry] = None
           /\ journal = [k \in Keys |-> journal[k]] /\ journal[Registry] = None
           /\ cache[w] = [k \in Keys |-> cache[w][k]]
           /\ cache = [cache EXCEPT ![w] = cache[w]]
           /\ Cleared(w) = [k \in Keys |-> Cleared(w)[k]] /\ Cleared(w)[Registry] = None
           /\ Reconciled(w) = [k \in Keys |-> Reconciled(w)[k]]
           /\ Reconciled(w)[Registry] = cache[w][Registry]
  <1>1. sent[w][Registry] = None BY DEF WindowInv, Replays
  <1>2. Reconciled(w) = [k \in Keys |-> Reconciled(w)[k]] /\ Reconciled(w)[Registry] = cache[w][Registry]
    BY <1>1 DEF Reconciled
  <1>3. Cleared(w) = [k \in Keys |-> Cleared(w)[k]] /\ Cleared(w)[Registry] = None
    BY DEF Cleared, NeverPending
  <1>4. QED BY <1>2, <1>3 DEF Nothing, RegistryShape, NeverPending

LEMMA RegistryFlushFails ==
    ASSUME RegistryInv, NEW w \in Windows, FlushFails(w)
    PROVE  RegistryInv'
  <1>1. /\ Ready(w) /\ EndFlush(w, FALSE, journal, cache[w])
        /\ UNCHANGED <<life, stored, journal, cache>>
    BY DEF FlushFails
  <1>2. QED BY <1>1, FlushShapes, EndFlushIsSound, RegistryFlush

LEMMA RegistryFlushAnswered ==
    ASSUME RegistryInv, NEW w \in Windows, FlushAnswered(w)
    PROVE  RegistryInv'
  <1>1. /\ Ready(w) /\ UNCHANGED <<life, stored>>
        /\ cache' = [cache EXCEPT ![w] = Reconciled(w)]
        /\ journal' \in {journal, Cleared(w)}
    BY DEF FlushAnswered
  <1>2. cache'[w] = Reconciled(w) /\ clock \in Nat BY <1>1 DEF RegistryShape
  <1>3. ASSUME NEW ok, NEW j, EndFlush(w, ok, j, cache'[w]) PROVE RegistryInv'
    <2>1. PICK shown : shown = cache'[w] OBVIOUS
    <2>2. /\ EndFlush(w, ok, j, shown) /\ shown[Registry] = cache[w][Registry]
          /\ shown = [k \in Keys |-> shown[k]] /\ cache' = [cache EXCEPT ![w] = shown]
          /\ journal' = [k \in Keys |-> journal'[k]] /\ journal'[Registry] = None
      BY <1>1, <1>2, <1>3, <2>1, FlushShapes
    <2>3. QED BY <1>1, <2>2, FlushShapes, EndFlushIsSound, RegistryFlush
  <1>4. ASSUME StartFlush(w, journal'), UNCHANGED <<clock, commit>> PROVE RegistryInv'
    <2>1. TransactionShape' /\ (commit'[w].at = "sent" => Sound(commit'[w], cache'[w][Registry]))
      BY <1>1, <1>2, <1>4, FlushShapes DEF WindowInv, RegistryShape, TransactionShape
    <2>2. QED BY <1>1, <1>2, <1>4, <2>1, FlushShapes, RegistryFlush, ZenonT(60) DEF StartFlush
  <1>5. QED BY <1>3, <1>4 DEF FlushAnswered

LEMMA RegistrySubmit ==
    ASSUME RegistryInv, NEW w \in Windows, Submit(w)
    PROVE  RegistryInv'
  <1>1. Ready(w) /\ UNCHANGED <<life, stored, journal, cache>> BY DEF Submit
  <1>2. PICK base : \/ /\ Continue(w, base, TRUE, journal, cache[w])
                       /\ UNCHANGED <<sent, answer>>
                    \/ /\ commit' = [commit EXCEPT ![w] = [NoCommit EXCEPT !.at = "flushing", !.base = base]]
                       /\ StartFlush(w, journal) \/ UNCHANGED <<sent, answer>>
                       /\ clock' = clock
    BY DEF Submit
  <1>3. /\ clock' \in Nat /\ TransactionShape'
        /\ \A v \in Windows \ {w} : commit'[v] = commit[v]
        /\ commit'[w].at = "sent" => Sound(commit'[w], cache[w][Registry])
    <2>1. CASE Continue(w, base, TRUE, journal, cache[w]) BY <2>1, ContinueIsSound
    <2>2. CASE /\ commit' = [commit EXCEPT ![w] = [NoCommit EXCEPT !.at = "flushing", !.base = base]]
               /\ clock' = clock
      <3>1. PICK c : c = [NoCommit EXCEPT !.at = "flushing", !.base = base] OBVIOUS
      <3>2. CommitShape(c) /\ c.at = "flushing" BY <3>1 DEF NoCommit, CommitShape
      <3>3. TransactionShape' /\ commit'[w] = c
        BY <2>2, <3>1, <3>2, TransactionUpdates DEF RegistryShape
      <3>4. QED BY <2>2, <3>1, <3>2, <3>3 DEF RegistryShape, TransactionShape
    <2>3. QED BY <1>2, <2>1, <2>2
  <1>4. PICK s : sent' = [sent EXCEPT ![w] = s] /\ s \in {sent[w], journal}
    BY <1>2 DEF StartFlush, RegistryShape
  <1>5. s = [k \in Keys |-> s[k]] /\ s[Registry] = None
    <2>1. sent[w] = [k \in Keys |-> sent[w][k]] /\ sent[w][Registry] = None
      BY <1>1 DEF RegistryShape, WindowInv, Replays
    <2>2. QED BY <1>1, <1>4, <2>1, FlushShapes
  <1>6. QED BY <1>1, <1>3, <1>4, <1>5, FlushShapes, RegistryFlush

LEMMA RegistryNativeCommit ==
    ASSUME RegistryInv, NEW w \in Windows, NativeCommit(w)
    PROVE  RegistryInv'
  <1>1. UNCHANGED <<journal, clock, life, sent, cache>> BY DEF NativeCommit, bootVars
  <1>2. PICK l \in {"done", "conflict", "failed"} : commit' = [commit EXCEPT ![w].at = l]
    BY DEF NativeCommit
  <1>3. CommitShape([commit[w] EXCEPT !.at = l]) /\ [commit[w] EXCEPT !.at = l].at = l
    BY DEF RegistryShape, TransactionShape, CommitShape
  <1>4. commit' = [commit EXCEPT ![w] = [commit[w] EXCEPT !.at = l]] BY <1>2
  <1>5. TransactionShape' /\ commit'[w].at = l BY <1>3, <1>4, TransactionUpdates DEF RegistryShape
  <1>6. stored' = [k \in Keys |-> stored'[k]] BY DEF NativeCommit, RegistryShape
  <1>7. RegistryShape' BY <1>1, <1>5, <1>6 DEF RegistryShape
  <1>8. NeverPending' /\ RowIsDated'
    <2>1. stored'[Registry] \in {stored[Registry], commit[w].next}
      BY DEF NativeCommit, RegistryShape
    <2>2. commit[w].next.ts \in Nat \ {0} BY DEF NativeCommit, WindowInv, Sound
    <2>3. QED BY <1>1, <2>1, <2>2 DEF NeverPending, RowIsDated
  <1>9. OthersStay(w) BY <1>1, <1>2 DEF OthersStay, RegistryShape, TransactionShape
  <1>10. Ready(w) BY DEF NativeCommit, NoCommit, WindowInv
  <1>11. WindowInv(w)' BY <1>1, <1>5, <1>10 DEF WindowInv, Replays, Ready
  <1>12. QED BY <1>7, <1>8, <1>9, <1>11, RegistryWindowStep

LEMMA RegistryCommitAnswered ==
    ASSUME RegistryInv, NEW w \in Windows, CommitAnswered(w)
    PROVE  RegistryInv'
  <1>1. PICK rec : rec = Outcome(w) OBVIOUS
  <1>2. /\ UNCHANGED <<stored, journal, clock, life, sent>>
        /\ cache' = [cache EXCEPT ![w][Registry] = rec]
        /\ commit' = [commit EXCEPT ![w] = NoCommit]
    BY <1>1 DEF CommitAnswered, nativeVars, bootVars
  <1>3. TransactionShape' /\ commit'[w] = NoCommit
    BY <1>2, NoCommitShape, TransactionUpdates DEF RegistryShape
  <1>4. RegistryShape'
    <2>1. cache' = [v \in Windows |-> [k \in Keys |-> cache'[v][k]]] BY <1>2 DEF RegistryShape
    <2>2. QED BY <1>2, <1>3, <2>1 DEF RegistryShape
  <1>5. NeverPending' /\ RowIsDated' BY <1>2 DEF NeverPending, RowIsDated
  <1>6. OthersStay(w) BY <1>2 DEF OthersStay, RegistryShape, TransactionShape
  <1>7. WindowInv(w)' BY <1>2, <1>3 DEF WindowInv, Replays, Ready, NoCommit
  <1>8. QED BY <1>4, <1>5, <1>6, <1>7, RegistryWindowStep

LEMMA RegistryBootFails ==
    ASSUME RegistryInv, NEW w \in Windows, BootFails(w)
    PROVE  RegistryInv'
  <1>1. ~Ready(w) BY DEF BootFails, Ready
  <1>2. QED BY <1>1, RegistryDropped DEF BootFails

LEMMA RegistryCrash ==
    ASSUME RegistryInv, NEW w \in Windows, Crash(w)
    PROVE  RegistryInv'
  BY RegistryDropped DEF Crash

LEMMA RegistryWork ==
    ASSUME RegistryInv, NEW w \in Windows, Work(w)
    PROVE  RegistryInv'
  <1>1. CASE NoticeArrives(w) BY <1>1, RegistryStutter DEF NoticeArrives, bootVars
  <1>2. CASE NativeRead(w) BY <1>2, RegistryStutter DEF NativeRead, bootVars
  <1>3. QED
    BY <1>1, <1>2, RegistryNativeWrite, RegistryBootAnswered, RegistryBootWritten,
      RegistryBootFails, RegistryFlushAnswered, RegistryFlushFails, RegistryNativeCommit,
      RegistryCommitAnswered, RegistryRefreshAnswered, RegistryStorageEvent DEF Work

LEMMA RegistryNext == RegistryInv /\ [Next]_vars => RegistryInv'
  <1> SUFFICES ASSUME RegistryInv, [Next]_vars PROVE RegistryInv' OBVIOUS
  <1>1. CASE UNCHANGED vars BY <1>1, RegistryStutter DEF vars, bootVars, windowVars
  <1>2. ASSUME NEW w \in Windows, Focus(w) PROVE RegistryInv'
    BY <1>2, RegistryStutter DEF Focus, bootVars
  <1>3. ASSUME NEW w \in Windows, RefreshFails(w) PROVE RegistryInv'
    BY <1>3, RegistryStutter DEF RefreshFails, bootVars
  <1>4. ASSUME NEW w \in Windows, NativeWriteFails(w) PROVE RegistryInv'
    BY <1>4, RegistryStutter DEF NativeWriteFails, windowVars
  <1>5. QED
    BY <1>1, <1>2, <1>3, <1>4, RegistryWork, RegistryBoot, RegistrySubmit, RegistryCrash,
      RegistryBootFails, RegistryEdit DEF Next

\* While a transaction on the registry is under way, its window does not replace
\* the snapshot the transaction was checked against (transactionKeys).
THEOREM LeaseHolds == Spec => []LeaseKeepsTheSnapshot
  <1>1. RegistryInv => LeaseKeepsTheSnapshot BY DEF WindowInv, Sound, LeaseKeepsTheSnapshot
  <1>2. QED BY <1>1, RegistryInit, RegistryNext, PTL DEF Spec

\* No step writes over the row of the registry but a start and a commit.
LEMMA WhoWritesTheRegistry ==
    ASSUME [Next]_vars
    PROVE  \/ stored'[Registry] = stored[Registry]
           \/ \E w \in Windows : NativeWrite(w) \/ NativeCommit(w)
  <1>1. CASE UNCHANGED vars BY <1>1 DEF vars, nativeVars
  <1>2. ASSUME NEW w \in Windows, Work(w), ~NativeWrite(w), ~NativeCommit(w)
        PROVE  stored' = stored
    BY <1>2 DEF Work, NoticeArrives, BootAnswered, BootWritten, BootFails, FlushAnswered,
      FlushFails, CommitAnswered, NativeRead, RefreshAnswered, StorageEvent, nativeVars
  <1>3. QED
    BY <1>1, <1>2 DEF Next, Boot, Focus, Submit, Crash, BootFails, NativeWriteFails, RefreshFails,
      Edit, nativeVars

\* No commit drops a workspace somebody else registered; only an import replaces
\* the registry (compare_and_write_app_state_record).
THEOREM RegistrationsStayHolds == Spec => RegistrationsStay
  <1>1. ASSUME RegistryInv, [Next]_vars
        PROVE  \/ stored[Registry] = Absent
               \/ stored'[Registry] = stored[Registry]
               \/ stored[Registry].value \subseteq stored'[Registry].value
               \/ \E w \in Windows : /\ commit[w].at = "sent" /\ commit[w].base = None
                                     /\ stored'[Registry] = commit[w].next
    <2>1. ASSUME NEW w \in Windows, NativeWrite(w), stored[Registry] # Absent,
                 stored'[Registry] # stored[Registry]
          PROVE  stored[Registry].value = {}
      <3>1. /\ sent[w][Registry] = [value |-> {}, ts |-> 0] /\ sent[w][Registry] # None
            /\ ~Late(w, Registry)
        BY <1>1, <2>1 DEF NativeWrite, WindowInv, Replays
      <3>2. stored[Registry].ts = 0 BY <1>1, <2>1, <3>1 DEF Late, RowIsDated
      <3>3. QED BY <1>1, <2>1, <3>2 DEF RowIsDated
    <2>2. ASSUME NEW w \in Windows, NativeCommit(w), stored'[Registry] # stored[Registry],
                 commit[w].base # None
          PROVE  stored[Registry].value \subseteq stored'[Registry].value
      <3>1. Matches(w) /\ stored'[Registry] = commit[w].next
        BY <1>1, <2>2 DEF NativeCommit, RegistryShape
      <3>2. commit[w].expected \subseteq commit[w].next.value
        BY <1>1, <2>2 DEF NativeCommit, WindowInv, Sound
      <3>3. QED BY <3>1, <3>2 DEF Matches
    <2>3. ASSUME NEW w \in Windows, NativeCommit(w), stored'[Registry] # stored[Registry]
          PROVE  commit[w].at = "sent" /\ stored'[Registry] = commit[w].next
      BY <1>1, <2>3 DEF NativeCommit, RegistryShape
    <2>4. QED BY <1>1, <2>1, <2>2, <2>3, WhoWritesTheRegistry
  <1>2. QED BY <1>1, RegistryInit, RegistryNext, PTL DEF Spec, RegistrationsStay

-----------------------------------------------------------------------------
(* Types, and what a window that has started can rely on: every row is there *)

HIDE DEF RegistryInv

Rows(k) == [value : IF k = Registry THEN SUBSET Stamps ELSE Values, ts : Stamps]

TypeShape ==
    /\ read = [w \in Windows |-> [k \in Keys |-> read[w][k]]]
    /\ posted = [w \in Windows |-> [k \in Keys |-> posted[w][k]]]
    /\ deferred = [w \in Windows |-> deferred[w]]
    /\ notices = [w \in Windows |-> notices[w]]

SharedTypes ==
    /\ clock \in Stamps
    /\ failures \in 0..MaxFailures
    /\ \A k \in Keys : /\ stored[k] \in Rows(k) \cup {Absent}
                       /\ journal[k] \in Rows(k) \cup {None}
                       /\ edited[k] \in Rows(k) \cup {None}
    /\ stored[Registry] # Absent => stored[Registry].ts <= clock

\* Every transaction that waits can still take a stamp.
Flushing == {w \in Windows : commit[w].at = "flushing"}
RoomIsKept == clock + Cardinality(Flushing) <= MaxClock

TransactionTypes(c) ==
    /\ c.at \in {"idle", "flushing", "sent", "done", "conflict", "failed"}
    /\ c.base \in (SUBSET Stamps) \cup {None, Outdated}
    /\ c.expected \in (SUBSET Stamps) \cup {None}
    /\ c.next \in Rows(Registry) \cup {None}

WindowTypes(w) ==
    /\ life[w] \in {"down", "reading", "writing", "ready", "failed"}
    /\ \A k \in Keys : /\ cache[w][k] \in Rows(k) \cup {None}
                       /\ read[w][k] \in Rows(k) \cup {None, Asked, Absent}
                       /\ sent[w][k] \in Rows(k) \cup {None}
                       /\ posted[w][k] \in Rows(k) \cup {None}
    /\ Answered(w) => /\ answer[w] = [k \in Keys |-> answer[w][k]]
                      /\ \A k \in Keys : answer[w][k] \in Rows(k) \cup {None}
    /\ TransactionTypes(commit[w])
    /\ deferred[w] \subseteq Keys
    /\ notices[w] \subseteq Keys

\* A proposal has a stamp that was given.
ProposalIsDated(w) ==
    commit[w].at \in {"sent", "done", "conflict", "failed"} =>
        commit[w].next \in Rows(Registry) /\ commit[w].next.ts <= clock

\* Rows that were read or written are there, and whoever has started has read or
\* written them all.
RowsAreThere(w) ==
    /\ \A k \in Keys : read[w][k] \in Rows(k) => stored[k] # Absent
    /\ Answered(w) => \A k \in Keys : sent[w][k] # None => stored[k] # Absent
    /\ life[w] = "reading" => answer[w] = None
    /\ life[w] \notin {"reading", "ready"} => read[w] = Nothing
    /\ life[w] = "writing" =>
           \A k \in Keys : /\ cache[w][k] \in Rows(k)
                           /\ sent[w][k] = None => stored[k] # Absent
    /\ Ready(w) => \A k \in Keys : /\ stored[k] # Absent
                                   /\ read[w][k] # Absent
                                   /\ cache[w][k] \in Rows(k)

WindowHolds(w) == WindowTypes(w) /\ ProposalIsDated(w) /\ RowsAreThere(w)

TypesInv ==
    /\ TypeShape
    /\ SharedTypes
    /\ RoomIsKept
    /\ \A w \in Windows : WindowHolds(w)

\* What is proved above may be used before and after each step.
Before == KeptInv /\ RegistryInv /\ TypesInv
Known == Before /\ KeptInv' /\ RegistryInv'

LEMMA RowFacts ==
    ASSUME NEW k \in Keys, NEW r \in Rows(k)
    PROVE  /\ r # None /\ r # Asked /\ r # Absent
           /\ r.ts \in Stamps /\ r.ts \in Nat
           /\ r \in Record
           /\ k = Registry => r.value \in SUBSET Stamps
  <1>1. Stamps \subseteq Nat BY DEF Stamps
  <1>2. CASE k = Registry
    <2>1. r \in [value : SUBSET Stamps, ts : Stamps] BY <1>2 DEF Rows
    <2>2. r \in [value : SUBSET Nat, ts : Nat] BY <1>1, <2>1
    <2>3. QED BY <1>1, <2>1, <2>2 DEF Record
  <1>3. CASE k # Registry
    <2>1. r \in [value : Values, ts : Stamps] BY <1>3 DEF Rows
    <2>2. r \in [value : Values, ts : Nat] BY <1>1, <2>1
    <2>3. QED BY <1>1, <1>3, <2>1, <2>2 DEF Record
  <1>4. QED BY <1>2, <1>3

LEMMA MakeRow ==
    ASSUME NEW t \in Stamps
    PROVE  /\ \A k \in Settings, v \in Values : [value |-> v, ts |-> t] \in Rows(k)
           /\ \A s \in SUBSET Stamps : [value |-> s, ts |-> t] \in Rows(Registry)
  BY DEF Rows

LEMMA InitialRow ==
    ASSUME NEW k \in Keys
    PROVE  [value |-> Initial(k), ts |-> 0] \in Rows(k)
  <1>1. 0 \in Stamps BY DEF Stamps
  <1>2. QED BY <1>1, MakeRow DEF Initial

LEMMA TypesInit == Init => TypesInv
  <1> SUFFICES ASSUME Init PROVE TypesInv OBVIOUS
  <1>1. TypeShape BY DEF Init, TypeShape, Nothing
  <1>2. SharedTypes
    <2>1. \A k \in Keys : stored[k] \in Rows(k) \cup {Absent} BY InitialRow DEF Init
    <2>2. stored[Registry] # Absent => stored[Registry].ts = 0 BY DEF Init
    <2>3. QED BY <2>1, <2>2 DEF Init, SharedTypes, Nothing, Stamps
  <1>3. RoomIsKept
    <2>1. Flushing = {} BY DEF Init, Flushing, NoCommit
    <2>2. QED BY <2>1, FS_EmptySet DEF Init, RoomIsKept
  <1>4. ASSUME NEW w \in Windows PROVE WindowHolds(w)
    <2>1. \A k \in Keys : None \notin Rows(k) BY RowFacts
    <2>2. /\ life[w] = "down" /\ cache[w] = Nothing /\ read[w] = Nothing /\ sent[w] = Nothing
          /\ posted[w] = Nothing /\ answer[w] = None /\ commit[w] = NoCommit
          /\ deferred[w] = {} /\ notices[w] = {}
      BY DEF Init
    <2>3. \A k \in Keys : Nothing[k] = None BY DEF Nothing
    <2>4. WindowTypes(w) BY <2>2, <2>3 DEF WindowTypes, TransactionTypes, NoCommit, Answered
    <2>5. QED
      BY <2>1, <2>2, <2>3, <2>4 DEF WindowHolds, ProposalIsDated, RowsAreThere, Ready, NoCommit,
        Answered
  <1>5. QED BY <1>1, <1>2, <1>3, <1>4 DEF TypesInv

\* Steps of one window.
OthersRest(w) ==
    \A v \in Windows \ {w} :
        /\ life'[v] = life[v] /\ cache'[v] = cache[v] /\ read'[v] = read[v]
        /\ sent'[v] = sent[v] /\ answer'[v] = answer[v] /\ commit'[v] = commit[v]
        /\ deferred'[v] = deferred[v] /\ notices'[v] = notices[v]
        /\ \A k \in Keys : posted'[v][k] \in Rows(k) \cup {None}

TimeGoesOn ==
    /\ clock' >= clock
    /\ \A k \in Keys : stored[k] # Absent => stored'[k] # Absent

LEMMA TypesWindowStep ==
    ASSUME Known, NEW w \in Windows, OthersRest(w), TimeGoesOn,
           TypeShape', SharedTypes', RoomIsKept', WindowHolds(w)'
    PROVE  TypesInv'
  <1>1. ASSUME NEW v \in Windows, v # w PROVE WindowHolds(v)'
    <2>1. WindowHolds(v) BY <1>1 DEF Known, Before, TypesInv
    <2>2. /\ life'[v] = life[v] /\ cache'[v] = cache[v] /\ read'[v] = read[v]
          /\ sent'[v] = sent[v] /\ answer'[v] = answer[v] /\ commit'[v] = commit[v]
          /\ deferred'[v] = deferred[v] /\ notices'[v] = notices[v]
          /\ \A k \in Keys : posted'[v][k] \in Rows(k) \cup {None}
      BY <1>1 DEF OthersRest
    <2>3. WindowTypes(v)' BY <2>1, <2>2 DEF WindowHolds, WindowTypes, Answered
    <2>4. ProposalIsDated(v)'
      <3>1. clock \in Nat /\ clock' \in Nat /\ clock' >= clock
        BY DEF TimeGoesOn, Known, Before, KeptInv, WriteShape
      <3>2. commit[v].next \in Rows(Registry) => commit[v].next.ts \in Nat BY RowFacts
      <3>3. QED BY <2>1, <2>2, <3>1, <3>2 DEF WindowHolds, ProposalIsDated
    <2>5. RowsAreThere(v)' BY <2>1, <2>2 DEF WindowHolds, RowsAreThere, Answered, Ready, TimeGoesOn
    <2>6. QED BY <2>3, <2>4, <2>5 DEF WindowHolds
  <1>2. QED BY <1>1 DEF TypesInv

LEMMA RoomStays ==
    ASSUME TypesInv, Flushing' \subseteq Flushing, clock' = clock
    PROVE  RoomIsKept'
  <1>1. IsFiniteSet(Flushing) BY FS_Subset DEF Flushing
  <1>2. Cardinality(Flushing') <= Cardinality(Flushing) /\ IsFiniteSet(Flushing') BY <1>1, FS_Subset
  <1>3. Cardinality(Flushing) \in Nat /\ Cardinality(Flushing') \in Nat /\ clock \in Nat
    BY <1>1, <1>2, FS_CardinalityType DEF TypesInv, SharedTypes, Stamps
  <1>4. QED BY <1>2, <1>3 DEF TypesInv, RoomIsKept

LEMMA WindowTypesOf ==
    ASSUME Before, NEW w \in Windows
    PROVE  WindowTypes(w) /\ ProposalIsDated(w) /\ RowsAreThere(w)
  BY DEF Before, TypesInv, WindowHolds

LEMMA ShapesOf ==
    ASSUME Before
    PROVE  /\ TypeShape /\ SharedTypes /\ WriteShape /\ RegistryShape /\ clock \in Nat
           /\ RoomIsKept
  BY DEF Before, TypesInv, KeptInv, WriteShape, RegistryInv

LEMMA ShapesAfter ==
    ASSUME Known
    PROVE  Before /\ WriteShape' /\ RegistryShape'
  BY DEF Known, KeptInv, RegistryInv

\* The effect of a refresh: what is asked for has no pending write.
Refreshed(w, r, j) ==
    /\ read' = [v \in Windows |-> [k \in Keys |-> read'[v][k]]]
    /\ deferred' = [v \in Windows |-> deferred'[v]]
    /\ \A v \in Windows \ {w} : read'[v] = read[v] /\ deferred'[v] = deferred[v]
    /\ deferred'[w] \subseteq Keys
    /\ \A k \in Keys : \/ read'[w][k] = None
                       \/ read'[w][k] = Asked /\ j[k] = None
                       \/ read'[w][k] = r[k]

LEMMA RefreshEffect ==
    ASSUME Before, NEW w \in Windows, NEW ks \in SUBSET Keys, NEW r, NEW j, NEW c,
           Refresh(w, ks, r, j, c)
    PROVE  Refreshed(w, r, j)
  <1>1. PICK busy : busy = {k \in ks : Busy(k, j, c)} OBVIOUS
  <1>2. PICK asked : asked = [k \in Keys |-> IF k \in busy THEN None
                                  ELSE IF k \in ks THEN Asked ELSE r[k]]
    OBVIOUS
  <1>3. /\ read' = [read EXCEPT ![w] = asked]
        /\ deferred' = [deferred EXCEPT ![w] = (deferred[w] \ ks) \cup busy]
    BY <1>1, <1>2 DEF Refresh
  <1>4. /\ read = [v \in Windows |-> [k \in Keys |-> read[v][k]]]
        /\ deferred = [v \in Windows |-> deferred[v]]
        /\ deferred[w] \subseteq Keys
    BY ShapesOf, WindowTypesOf DEF TypeShape, WindowTypes
  <1>5. \A k \in Keys : \/ asked[k] = None
                        \/ asked[k] = Asked /\ j[k] = None
                        \/ asked[k] = r[k]
    BY <1>1, <1>2 DEF Busy
  <1>6. read'[w] = asked /\ deferred'[w] = (deferred[w] \ ks) \cup busy BY <1>3, <1>4
  <1>7. read' = [v \in Windows |-> [k \in Keys |-> read'[v][k]]]
    <2>1. asked = [k \in Keys |-> asked[k]] BY <1>2
    <2>2. QED BY <1>3, <1>4, <2>1
  <1>8. QED BY <1>1, <1>3, <1>4, <1>5, <1>6, <1>7 DEF Refreshed

\* Steps that only ask for, answer or drop refreshes.
LEMMA TypesOfRefresh ==
    ASSUME Known, NEW w \in Windows, Ready(w) \/ life[w] = "reading",
           UNCHANGED <<nativeVars, bootVars, cache, commit, posted, edited>>,
           failures' \in 0..MaxFailures,
           TypeShape',
           \A v \in Windows \ {w} : /\ read'[v] = read[v] /\ deferred'[v] = deferred[v]
                                    /\ notices'[v] = notices[v],
           deferred'[w] \subseteq Keys, notices'[w] \subseteq Keys,
           \A k \in Keys : read'[w][k] \in {None, Asked, read[w][k], stored[k]}
    PROVE  TypesInv'
  <1>1. UNCHANGED <<stored, journal, clock, life, sent, answer, cache, commit, posted, edited>>
    BY DEF nativeVars, bootVars
  <1>2. SharedTypes' /\ TimeGoesOn BY <1>1, ShapesOf, ShapesAfter DEF SharedTypes, TimeGoesOn
  <1>3. RoomIsKept' BY <1>1, ShapesOf, ShapesAfter DEF RoomIsKept, Flushing
  <1>4. OthersRest(w) BY <1>1, ShapesAfter, WindowTypesOf DEF OthersRest, WindowTypes
  <1>5. WindowTypes(w) /\ ProposalIsDated(w) /\ RowsAreThere(w) BY ShapesAfter, WindowTypesOf
  <1>6. \A k \in Keys : /\ stored[k] \in Rows(k) \cup {Absent}
                        /\ {None, Asked, Absent} \cap Rows(k) = {}
    BY ShapesOf, ShapesAfter, RowFacts DEF SharedTypes
  <1>7. WindowTypes(w)' BY <1>1, <1>5, <1>6 DEF WindowTypes, Answered
  <1>8. ProposalIsDated(w)' BY <1>1, <1>5 DEF ProposalIsDated
  <1>9. RowsAreThere(w)'
    <2>1. life[w] \in {"ready", "reading"} BY DEF Ready
    <2>2. \A k \in Keys : read'[w][k] \in Rows(k) => stored[k] # Absent
      BY <1>5, <1>6 DEF RowsAreThere
    <2>3. QED BY <1>1, <1>5, <1>6, <2>1, <2>2 DEF RowsAreThere, Answered, Ready
  <1>10. QED BY <1>2, <1>3, <1>4, <1>7, <1>8, <1>9, TypesWindowStep DEF WindowHolds

LEMMA TypesOfRequest ==
    ASSUME Known, NEW w \in Windows, Ready(w), Refreshed(w, read[w], journal),
           UNCHANGED <<nativeVars, bootVars, cache, commit, posted, edited, failures>>,
           notices' = notices \/ notices' = [v \in Windows |-> notices'[v]],
           \A v \in Windows \ {w} : notices'[v] = notices[v], notices'[w] \subseteq Keys
    PROVE  TypesInv'
  <1>1. TypeShape' BY ShapesOf, ShapesAfter DEF Refreshed, TypeShape
  <1>2. failures' \in 0..MaxFailures BY ShapesOf, ShapesAfter DEF SharedTypes
  <1>3. /\ \A v \in Windows \ {w} : read'[v] = read[v] /\ deferred'[v] = deferred[v]
        /\ deferred'[w] \subseteq Keys
        /\ \A k \in Keys : read'[w][k] \in {None, Asked, read[w][k], stored[k]}
    BY DEF Refreshed
  <1>4. QED BY <1>1, <1>2, <1>3, TypesOfRefresh

LEMMA TypesFocus ==
    ASSUME Known, NEW w \in Windows, Focus(w)
    PROVE  TypesInv'
  <1>1. Refreshed(w, read[w], journal) BY ShapesAfter, RefreshEffect DEF Focus
  <1>2. QED BY <1>1, TypesOfRequest, ShapesAfter, WindowTypesOf DEF Focus, WindowTypes

LEMMA TypesNoticeArrives ==
    ASSUME Known, NEW w \in Windows, NoticeArrives(w)
    PROVE  TypesInv'
  <1>1. notices[w] \subseteq Keys /\ Refresh(w, notices[w], read[w], journal, commit[w])
    BY ShapesAfter, WindowTypesOf DEF WindowTypes, NoticeArrives
  <1>2. Refreshed(w, read[w], journal) BY <1>1, ShapesAfter, RefreshEffect
  <1>3. notices' = [v \in Windows |-> notices'[v]] /\ notices'[w] = {}
        /\ \A v \in Windows \ {w} : notices'[v] = notices[v]
    BY ShapesOf, ShapesAfter DEF NoticeArrives, TypeShape
  <1>4. QED BY <1>2, <1>3, TypesOfRequest DEF NoticeArrives

LEMMA TypesNativeRead ==
    ASSUME Known, NEW w \in Windows, NativeRead(w)
    PROVE  TypesInv'
  <1>1. Ready(w) \/ life[w] = "reading"
    BY ShapesAfter, WindowTypesOf DEF NativeRead, RowsAreThere, Nothing, Ready
  <1>2. TypeShape' BY ShapesOf, ShapesAfter DEF NativeRead, TypeShape
  <1>3. QED
    BY <1>1, <1>2, ShapesOf, ShapesAfter, WindowTypesOf, TypesOfRefresh DEF NativeRead, TypeShape,
      SharedTypes, WindowTypes

LEMMA FailureCounts ==
    ASSUME Before, Failure
    PROVE  failures' \in 0..MaxFailures
  BY ShapesOf DEF Failure, SharedTypes

LEMMA TypesRefreshFails ==
    ASSUME Known, NEW w \in Windows, RefreshFails(w)
    PROVE  TypesInv'
  <1>1. TypeShape' BY ShapesOf, ShapesAfter DEF RefreshFails, TypeShape
  <1>2. failures' \in 0..MaxFailures BY ShapesAfter, FailureCounts DEF RefreshFails
  <1>3. QED
    BY <1>1, <1>2, ShapesOf, ShapesAfter, WindowTypesOf, TypesOfRefresh DEF RefreshFails, TypeShape,
      WindowTypes

\* Steps of one window that keep the table and the transactions.
LEMMA TypesOfWindow ==
    ASSUME Known, NEW w \in Windows, UNCHANGED <<stored, clock, commit>>,
           failures' \in 0..MaxFailures,
           TypeShape', OthersRest(w), WindowTypes(w)', RowsAreThere(w)',
           \A k \in Keys : /\ journal'[k] \in Rows(k) \cup {None}
                           /\ edited'[k] \in Rows(k) \cup {None}
    PROVE  TypesInv'
  <1>1. SharedTypes' /\ TimeGoesOn BY ShapesOf, ShapesAfter DEF SharedTypes, TimeGoesOn
  <1>2. RoomIsKept' BY ShapesOf, ShapesAfter DEF RoomIsKept, Flushing
  <1>3. ProposalIsDated(w)' BY ShapesAfter, WindowTypesOf DEF ProposalIsDated
  <1>4. QED BY <1>1, <1>2, <1>3, TypesWindowStep DEF WindowHolds

LEMMA TypesRefreshAnswered ==
    ASSUME Known, NEW w \in Windows, RefreshAnswered(w)
    PROVE  TypesInv'
  <1>1. UNCHANGED <<stored, journal, clock, life, sent, answer, commit, notices, posted,
                    edited, failures>>
    BY DEF RefreshAnswered, nativeVars, bootVars
  <1>2. TypeShape' BY ShapesOf, ShapesAfter DEF RefreshAnswered, TypeShape
  <1>3. WindowTypes(w) /\ RowsAreThere(w) /\ Ready(w)
    BY ShapesAfter, WindowTypesOf DEF RefreshAnswered
  <1>4. OthersRest(w)
    <2>1. \A v \in Windows, k \in Keys : posted[v][k] \in Rows(k) \cup {None}
      BY ShapesAfter, WindowTypesOf DEF WindowTypes
    <2>2. \A v \in Windows \ {w} :
              cache'[v] = cache[v] /\ read'[v] = read[v] /\ deferred'[v] = deferred[v]
      BY ShapesOf, ShapesAfter DEF RefreshAnswered, RegistryShape, TypeShape
    <2>3. QED BY <1>1, <2>1, <2>2 DEF OthersRest
  <1>5. \A k \in Keys : /\ read'[w][k] \in {None, read[w][k]}
                        /\ \/ cache'[w][k] = cache[w][k]
                           \/ cache'[w][k] = read[w][k] /\ read[w][k] \notin {None, Asked}
    BY ShapesOf, ShapesAfter DEF RefreshAnswered, RegistryShape, TypeShape
  <1>6. deferred'[w] \subseteq Keys
    BY <1>3, ShapesOf, ShapesAfter DEF RefreshAnswered, TypeShape, WindowTypes
  <1>7. \A k \in Keys : cache'[w][k] \in Rows(k) BY <1>3, <1>5 DEF RowsAreThere, WindowTypes
  <1>8. WindowTypes(w)' BY <1>1, <1>3, <1>5, <1>6, <1>7 DEF WindowTypes, Answered
  <1>9. RowsAreThere(w)'
    <2>1. \A k \in Keys : None \notin Rows(k) BY RowFacts
    <2>2. QED BY <1>1, <1>3, <1>5, <1>7, <2>1 DEF RowsAreThere, Answered, Ready
  <1>10. QED BY <1>1, <1>2, <1>4, <1>8, <1>9, ShapesOf, ShapesAfter, TypesOfWindow DEF SharedTypes

LEMMA TypesStorageEvent ==
    ASSUME Known, NEW w \in Windows, NEW e \in Settings, StorageEvent(w, e)
    PROVE  TypesInv'
  <1>0. PICK rec : rec = posted[w][e] OBVIOUS
  <1>1. /\ UNCHANGED <<stored, journal, clock, life, sent, answer, commit, deferred, notices,
                       edited, failures>>
        /\ posted' = [posted EXCEPT ![w][e] = None] /\ rec # None /\ Ready(w)
        /\ \/ cache' = [cache EXCEPT ![w][e] = rec] /\ read' = [read EXCEPT ![w][e] = None]
           \/ UNCHANGED <<cache, read>>
    BY <1>0 DEF StorageEvent, nativeVars, bootVars
  <1>2. TypeShape /\ RegistryShape /\ WindowTypes(w) /\ RowsAreThere(w) /\ SharedTypes
    BY ShapesOf, ShapesAfter, WindowTypesOf
  <1>3. TypeShape'
    <2>1. read' = [v \in Windows |-> [k \in Keys |-> read'[v][k]]]
      <3>1. CASE read' = [read EXCEPT ![w][e] = None] BY <1>2, <3>1 DEF TypeShape
      <3>2. CASE read' = read BY <1>2, <3>2 DEF TypeShape
      <3>3. QED BY <1>1, <3>1, <3>2
    <2>2. posted' = [v \in Windows |-> [k \in Keys |-> posted'[v][k]]] BY <1>1, <1>2 DEF TypeShape
    <2>3. QED BY <1>1, <1>2, <2>1, <2>2 DEF TypeShape
  <1>4. rec \in Rows(e) BY <1>0, <1>1, <1>2 DEF WindowTypes
  <1>5. /\ \A v \in Windows \ {w} : cache'[v] = cache[v] /\ read'[v] = read[v]
        /\ \A k \in Keys : cache'[w][k] \in {cache[w][k]} \cup Rows(k)
        /\ \A k \in Keys : read'[w][k] \in {None, read[w][k]}
    <2>1. CASE cache' = [cache EXCEPT ![w][e] = rec] /\ read' = [read EXCEPT ![w][e] = None]
      BY <1>2, <1>4, <2>1 DEF RegistryShape, TypeShape
    <2>2. QED BY <1>1, <2>1
  <1>6. \A v \in Windows, k \in Keys : posted'[v][k] \in Rows(k) \cup {None}
    <2>1. \A v \in Windows, k \in Keys : posted[v][k] \in Rows(k) \cup {None}
      BY ShapesAfter, WindowTypesOf DEF WindowTypes
    <2>2. \A v \in Windows, k \in Keys : posted'[v][k] \in {posted[v][k], None}
      BY <1>1, <1>2 DEF TypeShape
    <2>3. QED BY <2>1, <2>2
  <1>7. OthersRest(w) BY <1>1, <1>5, <1>6 DEF OthersRest
  <1>8. WindowTypes(w)' BY <1>1, <1>2, <1>5, <1>6 DEF WindowTypes, Answered
  <1>9. RowsAreThere(w)'
    <2>1. \A k \in Keys : None \notin Rows(k) BY RowFacts
    <2>2. QED BY <1>1, <1>2, <1>5, <2>1 DEF RowsAreThere, Answered, Ready
  <1>10. QED BY <1>1, <1>2, <1>3, <1>7, <1>8, <1>9, TypesOfWindow DEF SharedTypes

LEMMA PostedTypes ==
    ASSUME Before
    PROVE  \A v \in Windows, k \in Keys : posted[v][k] \in Rows(k) \cup {None}
  BY WindowTypesOf DEF WindowTypes

LEMMA TypesNativeWrite ==
    ASSUME Known, NEW w \in Windows, NativeWrite(w)
    PROVE  TypesInv'
  <1>1. /\ UNCHANGED <<journal, clock, life, sent, cache, read, commit, deferred, posted,
                       edited, failures>>
        /\ answer[w] = Asked
    BY DEF NativeWrite
  <1>2. \A k \in Keys : stored'[k] = IF sent[w][k] = None \/ Late(w, k) THEN stored[k] ELSE sent[w][k]
    BY DEF NativeWrite
  <1>3. /\ WindowTypes(w) /\ ProposalIsDated(w) /\ RowsAreThere(w)
        /\ TypeShape /\ SharedTypes /\ WriteShape
    BY ShapesOf, ShapesAfter, WindowTypesOf
  <1>4. answer'[w] = [k \in Keys |-> IF Late(w, k) THEN stored[k] ELSE None]
    BY <1>3 DEF NativeWrite, WriteShape
  <1>5. notices' = [v \in Windows |-> notices'[v]] /\ notices'[w] \subseteq Keys
    BY <1>3 DEF NativeWrite, TypeShape, WindowTypes, Pending
  <1>6. \A k \in Keys : {None, Asked, Absent} \cap Rows(k) = {} BY RowFacts
  <1>7. TimeGoesOn
    <2>1. \A k \in Keys : sent[w][k] # None => sent[w][k] # Absent BY <1>3, <1>6 DEF WindowTypes
    <2>2. \A k \in Keys : stored[k] # Absent => stored'[k] # Absent BY <1>2, <2>1
    <2>3. QED BY <1>1, <2>2, ShapesOf, ShapesAfter DEF TimeGoesOn
  <1>8. SharedTypes'
    <2>1. stored'[Registry] \in {stored[Registry], [value |-> {}, ts |-> 0]}
      BY <1>2, ShapesAfter DEF Before, RegistryInv, WindowInv, Replays
    <2>2. stored'[Registry] # Absent => stored'[Registry].ts <= clock
      BY <1>3, <2>1 DEF SharedTypes, WriteShape
    <2>3. QED BY <1>1, <1>2, <1>3, <2>2 DEF SharedTypes, WindowTypes
  <1>9. RoomIsKept' /\ TypeShape'
    BY <1>1, <1>3, <1>5, ShapesOf, ShapesAfter DEF RoomIsKept, Flushing, TypeShape
  <1>10. OthersRest(w)
    BY <1>1, <1>3, ShapesAfter, PostedTypes DEF OthersRest, NativeWrite, WriteShape, TypeShape
  <1>11. WindowTypes(w)' /\ ProposalIsDated(w)'
    <2>1. \A k \in Keys : answer'[w][k] \in Rows(k) \cup {None} BY <1>3, <1>4 DEF Late, SharedTypes
    <2>2. answer'[w] = [k \in Keys |-> answer'[w][k]] BY <1>4
    <2>3. QED BY <1>1, <1>3, <1>5, <2>1, <2>2 DEF WindowTypes, ProposalIsDated
  <1>12. RowsAreThere(w)'
    <2>1. \A k \in Keys : sent[w][k] # None => stored'[k] # Absent
      BY <1>2, <1>3, <1>6 DEF Late, WindowTypes
    <2>2. life[w] # "reading" BY <1>1, <1>3 DEF RowsAreThere
    <2>3. QED BY <1>1, <1>3, <1>7, <2>1, <2>2 DEF RowsAreThere, TimeGoesOn, Ready
  <1>13. QED BY <1>7, <1>8, <1>9, <1>10, <1>11, <1>12, TypesWindowStep DEF WindowHolds

LEMMA TypesNativeWriteFails ==
    ASSUME Known, NEW w \in Windows, NativeWriteFails(w)
    PROVE  TypesInv'
  <1>1. UNCHANGED <<stored, journal, clock, life, sent, cache, read, commit, deferred, notices,
                    posted, edited>> /\ answer' = [answer EXCEPT ![w] = Failed] /\ answer[w] = Asked
    BY DEF NativeWriteFails, nativeVars, windowVars
  <1>2. /\ WindowTypes(w) /\ RowsAreThere(w) /\ TypeShape /\ SharedTypes /\ WriteShape
    BY ShapesOf, ShapesAfter, WindowTypesOf
  <1>3. failures' \in 0..MaxFailures BY ShapesAfter, FailureCounts DEF NativeWriteFails
  <1>4. answer'[w] = Failed BY <1>1, <1>2 DEF WriteShape
  <1>5. OthersRest(w) BY <1>1, <1>2, ShapesAfter, PostedTypes DEF OthersRest, WriteShape
  <1>6. TypeShape' /\ WindowTypes(w)' BY <1>1, <1>2, <1>4 DEF TypeShape, WindowTypes, Answered
  <1>7. life[w] # "reading" BY <1>1, <1>2 DEF RowsAreThere
  <1>8. RowsAreThere(w)' BY <1>1, <1>2, <1>4, <1>7 DEF RowsAreThere, Answered, Ready
  <1>9. QED BY <1>1, <1>2, <1>3, <1>5, <1>6, <1>8, TypesOfWindow DEF SharedTypes

LEMMA TypesBoot ==
    ASSUME Known, NEW w \in Windows, Boot(w)
    PROVE  TypesInv'
  <1>1. UNCHANGED <<stored, journal, clock, answer, cache, commit, deferred, notices,
                    posted, edited, failures>> /\ life[w] \in {"down", "failed"}
    BY DEF Boot, nativeVars
  <1>2. /\ WindowTypes(w) /\ RowsAreThere(w) /\ TypeShape /\ SharedTypes /\ WriteShape
        /\ RegistryShape /\ answer[w] = None
    BY <1>1, ShapesOf, ShapesAfter, WindowTypesOf DEF Before, KeptInv, DownIsQuiet
  <1>3. /\ life'[w] = "reading" /\ sent'[w] = journal
        /\ read'[w] = [k \in Keys |-> Asked]
    BY <1>2 DEF Boot, WriteShape, TypeShape
  <1>4. OthersRest(w)
    BY <1>1, <1>2, ShapesAfter, PostedTypes DEF OthersRest, WriteShape, TypeShape, Boot
  <1>5. TypeShape' BY <1>1, <1>2 DEF TypeShape, Boot
  <1>6. \A k \in Keys : Asked \notin Rows(k) BY RowFacts
  <1>7. WindowTypes(w)' /\ RowsAreThere(w)'
    BY <1>1, <1>2, <1>3, <1>6 DEF WindowTypes, RowsAreThere, SharedTypes, Answered, Ready
  <1>8. QED BY <1>1, <1>2, <1>4, <1>5, <1>7, TypesOfWindow DEF SharedTypes

LEMMA TypesDropped ==
    ASSUME Known, NEW w \in Windows, UNCHANGED <<nativeVars, edited>>,
           failures' \in 0..MaxFailures,
           NEW l \in {"down", "failed"}, life' = [life EXCEPT ![w] = l],
           cache' = [cache EXCEPT ![w] = Nothing], read' = [read EXCEPT ![w] = Nothing],
           sent' = [sent EXCEPT ![w] = Nothing], answer' = [answer EXCEPT ![w] = None],
           commit' = [commit EXCEPT ![w] = NoCommit] \/ commit' = commit,
           NEW d \in SUBSET Keys, deferred' = [deferred EXCEPT ![w] = d],
           NEW n \in SUBSET Keys, notices' = [notices EXCEPT ![w] = n],
           posted' = [posted EXCEPT ![w] = Nothing] \/ posted' = posted
    PROVE  TypesInv'
  <1>1. /\ WindowTypes(w) /\ RowsAreThere(w) /\ ProposalIsDated(w)
        /\ TypeShape /\ SharedTypes /\ WriteShape /\ RegistryShape
    BY ShapesOf, ShapesAfter, WindowTypesOf
  <1>2. /\ life'[w] = l /\ cache'[w] = Nothing /\ read'[w] = Nothing /\ sent'[w] = Nothing
        /\ answer'[w] = None /\ commit'[w] \in {NoCommit, commit[w]}
        /\ deferred'[w] = d /\ notices'[w] = n
    BY <1>1 DEF WriteShape, RegistryShape, TypeShape, TransactionShape
  <1>3. \A k \in Keys : Nothing[k] = None /\ None \notin Rows(k) BY RowFacts DEF Nothing
  <1>4. \A v \in Windows, k \in Keys : posted'[v][k] \in Rows(k) \cup {None}
    BY <1>1, <1>3, ShapesAfter, PostedTypes DEF TypeShape
  <1>5. OthersRest(w)
    BY <1>1, <1>4 DEF OthersRest, WriteShape, RegistryShape, TypeShape, TransactionShape
  <1>6. TypeShape'
    <2>1. read' = [v \in Windows |-> [k \in Keys |-> read'[v][k]]] BY <1>1 DEF TypeShape, Nothing
    <2>2. posted' = [v \in Windows |-> [k \in Keys |-> posted'[v][k]]]
      <3>1. CASE posted' = [posted EXCEPT ![w] = Nothing] BY <1>1, <3>1 DEF TypeShape, Nothing
      <3>2. CASE posted' = posted BY <1>1, <3>2 DEF TypeShape
      <3>3. QED BY <3>1, <3>2
    <2>3. QED BY <1>1, <2>1, <2>2 DEF TypeShape
  <1>7. SharedTypes' /\ TimeGoesOn
    <2>1. UNCHANGED <<stored, journal, clock, edited>> /\ clock \in Nat
      BY <1>1 DEF nativeVars, WriteShape
    <2>2. QED BY <1>1, <2>1 DEF SharedTypes, TimeGoesOn
  <1>8. Flushing' \subseteq Flushing BY <1>1 DEF Flushing, RegistryShape, TransactionShape, NoCommit
  <1>9. RoomIsKept' BY <1>8, RoomStays, ShapesAfter DEF Before, nativeVars
  <1>10. WindowTypes(w)'
    BY <1>1, <1>2, <1>3, <1>4 DEF WindowTypes, Answered, TransactionTypes, NoCommit
  <1>11. RowsAreThere(w)' BY <1>2, <1>3 DEF RowsAreThere, Answered, Ready
  <1>12. ProposalIsDated(w)' BY <1>1, <1>2 DEF ProposalIsDated, NoCommit, nativeVars
  <1>13. QED BY <1>5, <1>6, <1>7, <1>9, <1>10, <1>11, <1>12, TypesWindowStep DEF WindowHolds

LEMMA TypesCrash ==
    ASSUME Known, NEW w \in Windows, Crash(w)
    PROVE  TypesInv'
  <1>1. failures' \in 0..MaxFailures BY ShapesAfter, FailureCounts DEF Crash
  <1>2. QED BY <1>1, TypesDropped DEF Crash

LEMMA TypesBootFails ==
    ASSUME Known, NEW w \in Windows, BootFails(w)
    PROVE  TypesInv'
  <1>1. failures' \in 0..MaxFailures
    BY ShapesOf, ShapesAfter, FailureCounts DEF BootFails, SharedTypes
  <1>2. /\ deferred' = [deferred EXCEPT ![w] = deferred[w]] /\ deferred[w] \in SUBSET Keys
        /\ notices' = [notices EXCEPT ![w] = notices[w]] /\ notices[w] \in SUBSET Keys
    BY ShapesOf, ShapesAfter, WindowTypesOf DEF BootFails, TypeShape, WindowTypes
  <1>3. QED BY <1>1, <1>2, TypesDropped DEF BootFails

LEMMA TypesBootAnswered ==
    ASSUME Known, NEW w \in Windows, BootAnswered(w)
    PROVE  TypesInv'
  <1>1. UNCHANGED <<stored, journal, clock, commit, deferred, posted, edited, failures>>
        /\ life[w] = "reading" /\ \A k \in Keys : read[w][k] \notin {None, Asked}
    BY DEF BootAnswered, nativeVars
  <1>2. /\ WindowTypes(w) /\ RowsAreThere(w) /\ TypeShape /\ SharedTypes /\ WriteShape
        /\ RegistryShape /\ answer[w] = None
    BY <1>1, ShapesOf, ShapesAfter, WindowTypesOf DEF RowsAreThere
  <1>3. \A k \in Keys : cache'[w][k] = Chosen(w, k) /\ read'[w][k] = None
    BY <1>2 DEF BootAnswered, RegistryShape, TypeShape, Nothing
  <1>4. \A k \in Keys : sent'[w][k] = IF k \in Promoted(w) THEN Chosen(w, k) ELSE None
    BY <1>2 DEF BootAnswered, WriteShape
  <1>5. \A k \in Keys : Chosen(w, k) \in Rows(k) BY <1>1, <1>2, InitialRow DEF Chosen, WindowTypes
  <1>6. \A k \in Keys : {None, Asked, Absent} \cap Rows(k) = {} BY RowFacts
  <1>7. \A k \in Keys : sent'[w][k] = None => stored[k] # Absent
    BY <1>1, <1>2, <1>4, <1>5, <1>6 DEF Promoted, WindowTypes, RowsAreThere
  <1>8. \/ life'[w] = "ready" /\ answer'[w] = None /\ notices'[w] = Keys
           /\ \A k \in Keys : sent'[w][k] = None
        \/ life'[w] = "writing" /\ answer'[w] = Asked /\ notices'[w] = notices[w]
    BY <1>2, <1>4 DEF BootAnswered, WriteShape, TypeShape
  <1>9. TypeShape'
    <2>1. read' = [v \in Windows |-> [k \in Keys |-> read'[v][k]]]
      BY <1>2 DEF BootAnswered, TypeShape, Nothing
    <2>2. notices' = [v \in Windows |-> notices'[v]] BY <1>2 DEF BootAnswered, TypeShape
    <2>3. QED BY <1>1, <1>2, <2>1, <2>2 DEF TypeShape
  <1>10. OthersRest(w)
    <2>1. \A v \in Windows \ {w} : /\ life'[v] = life[v] /\ answer'[v] = answer[v]
                                   /\ notices'[v] = notices[v]
      BY <1>2 DEF BootAnswered, WriteShape, TypeShape
    <2>2. \A v \in Windows \ {w} : /\ cache'[v] = cache[v] /\ read'[v] = read[v]
                                   /\ sent'[v] = sent[v]
      BY <1>2 DEF BootAnswered, WriteShape, RegistryShape, TypeShape
    <2>3. QED BY <1>1, <2>1, <2>2, ShapesAfter, PostedTypes DEF OthersRest
  <1>11. WindowTypes(w)' BY <1>1, <1>2, <1>3, <1>4, <1>5, <1>8 DEF WindowTypes, Answered
  <1>12. read'[w] = Nothing BY <1>2 DEF BootAnswered, TypeShape
  <1>13. RowsAreThere(w)'
    BY <1>1, <1>3, <1>5, <1>6, <1>7, <1>8, <1>12 DEF RowsAreThere, Answered, Ready
  <1>14. QED BY <1>1, <1>2, <1>9, <1>10, <1>11, <1>13, TypesOfWindow DEF SharedTypes

LEMMA ReconciledTypes ==
    ASSUME Before, NEW w \in Windows, Answered(w), \A k \in Keys : cache[w][k] \in Rows(k)
    PROVE  /\ Reconciled(w) = [k \in Keys |-> Reconciled(w)[k]]
           /\ \A k \in Keys : Reconciled(w)[k] \in Rows(k)
  BY WindowTypesOf DEF Reconciled, WindowTypes

LEMMA ClearedTypes ==
    ASSUME Before, NEW w \in Windows
    PROVE  /\ Cleared(w) = [k \in Keys |-> Cleared(w)[k]]
           /\ \A k \in Keys : Cleared(w)[k] \in {None, journal[k]}
           /\ \A k \in Keys : Cleared(w)[k] \in Rows(k) \cup {None}
  BY ShapesOf DEF Cleared, SharedTypes

LEMMA TypesBootWritten ==
    ASSUME Known, NEW w \in Windows, BootWritten(w)
    PROVE  TypesInv'
  <1>1. /\ UNCHANGED <<stored, clock, read, commit, deferred, posted, edited, failures>>
        /\ life[w] = "writing" /\ Answered(w)
    BY DEF BootWritten, Answered
  <1>2. /\ WindowTypes(w) /\ RowsAreThere(w) /\ TypeShape /\ SharedTypes /\ WriteShape
        /\ RegistryShape
    BY ShapesOf, ShapesAfter, WindowTypesOf
  <1>3. \A k \in Keys : cache'[w][k] \in Rows(k) /\ journal'[k] \in Rows(k) \cup {None}
    <2>1. \A k \in Keys : cache[w][k] \in Rows(k) BY <1>1, <1>2 DEF RowsAreThere
    <2>2. cache'[w] = Reconciled(w) /\ journal' = Cleared(w) BY <1>2 DEF BootWritten, RegistryShape
    <2>3. QED BY <1>1, <2>1, <2>2, ReconciledTypes, ClearedTypes, ShapesAfter
  <1>4. /\ life'[w] = "ready" /\ answer'[w] = None /\ notices'[w] = Keys
        /\ sent'[w] = Nothing
    BY <1>2 DEF BootWritten, WriteShape, TypeShape
  <1>5. \A k \in Keys : Nothing[k] = None /\ {None, Asked, Absent} \cap Rows(k) = {}
    BY RowFacts DEF Nothing
  <1>6. TypeShape' BY <1>1, <1>2 DEF TypeShape, BootWritten
  <1>7. OthersRest(w)
    <2>1. \A v \in Windows \ {w} : /\ life'[v] = life[v] /\ answer'[v] = answer[v]
                                   /\ notices'[v] = notices[v] /\ sent'[v] = sent[v]
                                   /\ cache'[v] = cache[v]
      BY <1>2 DEF BootWritten, WriteShape, RegistryShape, TypeShape
    <2>2. QED BY <1>1, <2>1, ShapesAfter, PostedTypes DEF OthersRest
  <1>8. WindowTypes(w)' BY <1>1, <1>2, <1>3, <1>4, <1>5 DEF WindowTypes, Answered
  <1>9. RowsAreThere(w)'
    <2>1. \A k \in Keys : stored[k] # Absent /\ read[w][k] = None
      BY <1>1, <1>2, <1>5 DEF RowsAreThere
    <2>2. QED BY <1>1, <1>3, <1>4, <1>5, <2>1 DEF RowsAreThere, Answered, Ready
  <1>10. QED BY <1>1, <1>2, <1>3, <1>6, <1>7, <1>8, <1>9, TypesOfWindow DEF SharedTypes

LEMMA RoomCounts ==
    ASSUME Before
    PROVE  /\ IsFiniteSet(Flushing) /\ Cardinality(Flushing) \in Nat
           /\ Room => Stamp \in Stamps /\ clock + Cardinality(Flushing) + 1 <= MaxClock
           /\ \A w \in Windows : commit[w].at = "flushing" =>
                  Stamp \in Stamps /\ Cardinality(Flushing \ {w}) = Cardinality(Flushing) - 1
  <1>1. IsFiniteSet(Flushing) /\ Cardinality(Flushing) \in Nat
    BY FS_Subset, FS_CardinalityType DEF Flushing
  <1>2. clock \in Nat /\ clock + Cardinality(Flushing) <= MaxClock BY ShapesOf DEF RoomIsKept
  <1>3. ASSUME NEW w \in Windows, commit[w].at = "flushing"
        PROVE  /\ Cardinality(Flushing \ {w}) \in Nat
               /\ Cardinality(Flushing \ {w}) = Cardinality(Flushing) - 1
    <2>1. w \in Flushing BY <1>3 DEF Flushing
    <2>2. IsFiniteSet(Flushing \ {w}) /\ Cardinality(Flushing \ {w}) = Cardinality(Flushing) - 1
      BY <1>1, <2>1, FS_RemoveElement
    <2>3. QED BY <2>2, FS_CardinalityType
  <1>4. QED BY <1>1, <1>2, <1>3 DEF Room, Stamp, Stamps, Flushing

LEMMA TypesEdit ==
    ASSUME Known, NEW w \in Windows, NEW e \in Settings, NEW x \in Values, Edit(w, e, x)
    PROVE  TypesInv'
  <1>0. PICK rec : rec = [value |-> x, ts |-> Stamp] OBVIOUS
  <1>1. /\ UNCHANGED <<stored, life, commit, deferred, notices, failures>>
        /\ clock' = Stamp /\ Ready(w) /\ Room
        /\ journal' = [journal EXCEPT ![e] = rec]
        /\ edited' = [edited EXCEPT ![e] = rec]
        /\ cache' = [cache EXCEPT ![w][e] = rec]
        /\ read' = [read EXCEPT ![w][e] = None]
        /\ posted' = [u \in Windows |-> IF u # w /\ Ready(u) THEN [posted[u] EXCEPT ![e] = rec]
                                                             ELSE posted[u]]
        /\ \/ UNCHANGED <<sent, answer>>
           \/ sent' = [sent EXCEPT ![w] = journal'] /\ answer' = [answer EXCEPT ![w] = Asked]
    BY <1>0 DEF Edit, StartFlush
  <1>2. /\ WindowTypes(w) /\ RowsAreThere(w) /\ ProposalIsDated(w)
        /\ TypeShape /\ SharedTypes /\ WriteShape /\ RegistryShape
    BY ShapesOf, ShapesAfter, WindowTypesOf
  <1>3. Stamp \in Stamps /\ Stamp = clock + 1 /\ clock \in Nat
    BY <1>1, ShapesOf, ShapesAfter, RoomCounts DEF Stamp
  <1>4. rec \in Rows(e) BY <1>0, <1>3, MakeRow
  <1>5. \A k \in Keys : journal'[k] \in Rows(k) \cup {None} /\ edited'[k] \in Rows(k) \cup {None}
    BY <1>1, <1>2, <1>4 DEF SharedTypes, WriteShape
  <1>6. /\ \A k \in Keys : cache'[w][k] \in {cache[w][k]} \cup Rows(k)
        /\ \A k \in Keys : read'[w][k] \in {None, read[w][k]}
        /\ \A v \in Windows \ {w} : cache'[v] = cache[v] /\ read'[v] = read[v]
        /\ read' = [v \in Windows |-> [k \in Keys |-> read'[v][k]]]
    <2>1. /\ cache' = [cache EXCEPT ![w][e] = rec]
          /\ cache = [v \in Windows |-> [k \in Keys |-> cache[v][k]]]
      BY <1>1, <1>2 DEF RegistryShape
    <2>2. /\ read' = [read EXCEPT ![w][e] = None]
          /\ read = [v \in Windows |-> [k \in Keys |-> read[v][k]]]
      BY <1>1, <1>2 DEF TypeShape
    <2>3. /\ \A k \in Keys : cache'[w][k] \in {cache[w][k]} \cup Rows(k)
          /\ \A v \in Windows \ {w} : cache'[v] = cache[v]
      BY <2>1, <1>4
    <2>4. /\ \A k \in Keys : read'[w][k] \in {None, read[w][k]}
          /\ \A v \in Windows \ {w} : read'[v] = read[v]
          /\ read' = [v \in Windows |-> [k \in Keys |-> read'[v][k]]]
      BY <2>2
    <2>5. QED BY <2>3, <2>4
  <1>7. TypeShape'
    <2>2. posted' = [v \in Windows |-> [k \in Keys |-> posted'[v][k]]]
      <3>1. posted = [v \in Windows |-> [k \in Keys |-> posted[v][k]]] BY <1>2 DEF TypeShape
      <3>2. \A v \in Windows : posted'[v] = [k \in Keys |-> posted'[v][k]]
        <4> TAKE v \in Windows
        <4>1. posted[v] = [k \in Keys |-> posted[v][k]] BY <3>1
        <4>2. posted'[v] \in {posted[v], [posted[v] EXCEPT ![e] = rec]} BY <1>1
        <4>3. QED BY <4>1, <4>2
      <3>3. posted' = [v \in Windows |-> posted'[v]] BY <1>1
      <3>4. QED BY <3>2, <3>3
    <2>3. QED BY <1>1, <1>2, <1>6, <2>2 DEF TypeShape
  <1>8. SharedTypes' /\ TimeGoesOn
    <2>1. stored[Registry] # Absent => stored[Registry].ts <= clock /\ stored[Registry].ts \in Nat
      BY <1>2, RowFacts DEF SharedTypes
    <2>2. QED BY <1>1, <1>2, <1>3, <1>5, <2>1 DEF SharedTypes, TimeGoesOn
  <1>9. RoomIsKept' BY <1>1, <1>3, ShapesAfter, RoomCounts DEF RoomIsKept, Flushing
  <1>10. \A v \in Windows, k \in Keys : posted'[v][k] \in Rows(k) \cup {None}
    <2>1. \A v \in Windows, k \in Keys : posted'[v][k] \in {posted[v][k]} \cup Rows(k)
      BY <1>1, <1>2, <1>4 DEF TypeShape
    <2>2. QED BY <2>1, ShapesAfter, PostedTypes
  <1>11. /\ \A v \in Windows \ {w} : sent'[v] = sent[v] /\ answer'[v] = answer[v]
         /\ \/ sent'[w] = sent[w] /\ answer'[w] = answer[w]
            \/ sent'[w] = journal' /\ answer'[w] = Asked
    BY <1>1, <1>2 DEF WriteShape
  <1>12. OthersRest(w) BY <1>1, <1>6, <1>10, <1>11 DEF OthersRest
  <1>13. WindowTypes(w)'
    <2>1. Answered(w)' => answer'[w] = answer[w] /\ Answered(w) BY <1>11 DEF Answered
    <2>2. \A k \in Keys : sent'[w][k] \in Rows(k) \cup {None} BY <1>2, <1>5, <1>11 DEF WindowTypes
    <2>3. QED BY <1>1, <1>2, <1>6, <1>10, <2>1, <2>2 DEF WindowTypes
  <1>14. ProposalIsDated(w)'
    <2>1. commit[w].next \in Rows(Registry) => commit[w].next.ts \in Nat BY RowFacts
    <2>2. QED BY <1>1, <1>2, <1>3, <2>1 DEF ProposalIsDated
  <1>15. RowsAreThere(w)'
    <2>1. \A k \in Keys : {None, Asked, Absent} \cap Rows(k) = {} BY RowFacts
    <2>2. QED BY <1>1, <1>2, <1>6, <2>1 DEF RowsAreThere, Ready
  <1>16. QED BY <1>7, <1>8, <1>9, <1>12, <1>13, <1>14, <1>15, TypesWindowStep DEF WindowHolds

\* What a step may do to the transaction of a window.
CommitStep(w) ==
    /\ clock' \in Stamps /\ clock' >= clock
    /\ RoomIsKept'
    /\ \A v \in Windows \ {w} : commit'[v] = commit[v]
    /\ TransactionTypes(commit'[w])
    /\ ProposalIsDated(w)'

LEMMA ContinueTypes ==
    ASSUME Before, NEW w \in Windows, NEW base, NEW ok, NEW j, NEW shown,
           Continue(w, base, ok, j, shown), shown[Registry] \in Rows(Registry),
           base \in (SUBSET Stamps) \cup {None, Outdated},
           Stamp \in Stamps, clock + Cardinality(Flushing \ {w}) + 1 <= MaxClock
    PROVE  CommitStep(w)
  <1>1. PICK c : /\ commit' = [commit EXCEPT ![w] = c]
                 /\ c = NoCommit \/ (c = Proposed(base, shown) /\ Unmoved(base, shown))
    BY DEF Continue
  <1>2. clock' = Stamp /\ Stamp = clock + 1 /\ clock \in Nat BY ShapesOf DEF Continue, Stamp
  <1>3. commit'[w] = c /\ \A v \in Windows \ {w} : commit'[v] = commit[v]
    BY <1>1, ShapesOf DEF RegistryShape, TransactionShape
  <1>4. shown[Registry].value \in SUBSET Stamps BY RowFacts
  <1>5. ASSUME c = NoCommit PROVE TransactionTypes(c) /\ c.at = "idle"
    BY <1>5 DEF TransactionTypes, NoCommit
  <1>6. ASSUME c = Proposed(base, shown), Unmoved(base, shown)
        PROVE  /\ c.at = "sent" /\ TransactionTypes(c)
               /\ c.next \in Rows(Registry) /\ c.next.ts = Stamp
    <2>0. PICK s : s = IF base = None THEN Payload ELSE base \cup {Stamp} OBVIOUS
    <2>1. s \in SUBSET Stamps
      <3>1. base # None => base = shown[Registry].value BY <1>6 DEF Unmoved
      <3>2. QED BY <1>4, <2>0, <3>1 DEF Payload
    <2>2. c = [at |-> "sent", base |-> base, expected |-> shown[Registry].value,
               next |-> [value |-> s, ts |-> Stamp]]
      BY <1>6, <2>0 DEF Proposed
    <2>3. [value |-> s, ts |-> Stamp] \in Rows(Registry) BY <2>1, MakeRow
    <2>4. QED BY <1>4, <2>2, <2>3 DEF TransactionTypes
  <1>7. TransactionTypes(c) /\ c.at \in {"idle", "sent"}
        /\ (c.at = "sent" => c.next \in Rows(Registry) /\ c.next.ts = Stamp)
    BY <1>1, <1>5, <1>6
  <1>8. ProposalIsDated(w)' BY <1>2, <1>3, <1>7, ShapesOf DEF ProposalIsDated
  <1>9. RoomIsKept'
    <2>1. Flushing' = Flushing \ {w} BY <1>3, <1>7 DEF Flushing
    <2>2. IsFiniteSet(Flushing \ {w}) BY RoomCounts, FS_Subset
    <2>3. Cardinality(Flushing \ {w}) \in Nat BY <2>2, FS_CardinalityType
    <2>4. QED BY <1>2, <2>1, <2>3 DEF RoomIsKept
  <1>10. QED BY <1>2, <1>3, <1>7, <1>8, <1>9 DEF CommitStep

LEMMA CommitRests ==
    ASSUME Before, NEW w \in Windows, UNCHANGED <<clock, commit>>
    PROVE  CommitStep(w)
  <1>1. RoomIsKept' BY ShapesOf DEF RoomIsKept, Flushing
  <1>2. clock' \in Stamps /\ clock' >= clock BY ShapesOf DEF SharedTypes
  <1>3. TransactionTypes(commit'[w]) /\ ProposalIsDated(w)'
    BY WindowTypesOf DEF WindowTypes, ProposalIsDated
  <1>4. QED BY <1>1, <1>2, <1>3 DEF CommitStep

LEMMA EndFlushTypes ==
    ASSUME Before, NEW w \in Windows, NEW ok, NEW j, NEW shown, EndFlush(w, ok, j, shown),
           shown[Registry] \in Rows(Registry)
    PROVE  CommitStep(w) /\ Refreshed(w, Voided(w, shown), j)
  <1>1. deferred[w] \subseteq Keys /\ TransactionTypes(commit[w]) BY WindowTypesOf DEF WindowTypes
  <1>2. CASE commit[w].at = "flushing"
    <2>1. Continue(w, commit[w].base, ok, j, shown) BY <1>2 DEF EndFlush
    <2>2. Stamp \in Stamps /\ clock + Cardinality(Flushing \ {w}) + 1 <= MaxClock
      BY <1>2, RoomCounts, ShapesOf DEF RoomIsKept
    <2>3. CommitStep(w) BY <1>1, <2>1, <2>2, ContinueTypes DEF TransactionTypes
    <2>4. PICK ks, c : ks \in SUBSET Keys /\ Refresh(w, ks, Voided(w, shown), j, c)
      BY <1>1, <2>1 DEF Continue
    <2>5. QED BY <2>3, <2>4, RefreshEffect
  <1>3. CASE commit[w].at # "flushing"
    <2>1. Refresh(w, deferred[w], Voided(w, shown), j, commit[w]) /\ UNCHANGED <<clock, commit>>
      BY <1>3 DEF EndFlush
    <2>2. QED BY <1>1, <2>1, CommitRests, RefreshEffect
  <1>4. QED BY <1>2, <1>3

\* What a step may do to the refreshes of a window.
ReadStep(w) ==
    /\ read' = [v \in Windows |-> [k \in Keys |-> read'[v][k]]]
    /\ deferred' = [v \in Windows |-> deferred'[v]]
    /\ \A v \in Windows \ {w} : read'[v] = read[v] /\ deferred'[v] = deferred[v]
    /\ deferred'[w] \subseteq Keys
    /\ \A k \in Keys : read'[w][k] \in {None, Asked, read[w][k]}

LEMMA RefreshedReads ==
    ASSUME NEW w \in Windows, NEW shown, NEW j, Refreshed(w, Voided(w, shown), j)
    PROVE  ReadStep(w)
  BY DEF Refreshed, ReadStep, Voided

\* The end of a flush, or of one turn of it, and what else a window that has started
\* does to its flush, its refreshes and its transaction.
LEMMA TypesOfFlush ==
    ASSUME Known, NEW w \in Windows, Ready(w), CommitStep(w), ReadStep(w),
           UNCHANGED <<stored, life, notices, posted, edited>>, failures' \in 0..MaxFailures,
           \A k \in Keys : journal'[k] \in Rows(k) \cup {None},
           NEW c, cache' = [cache EXCEPT ![w] = c], \A k \in Keys : c[k] \in Rows(k),
           \/ UNCHANGED <<sent, answer>>
           \/ /\ sent' = [sent EXCEPT ![w] = Nothing] \/ sent' = [sent EXCEPT ![w] = journal']
              /\ answer' = [answer EXCEPT ![w] = None] \/ answer' = [answer EXCEPT ![w] = Asked]
    PROVE  TypesInv'
  <1>1. /\ WindowTypes(w) /\ RowsAreThere(w) /\ TypeShape /\ SharedTypes /\ WriteShape
        /\ RegistryShape
    BY ShapesOf, ShapesAfter, WindowTypesOf
  <1>2. \/ sent'[w] = sent[w] /\ answer'[w] = answer[w]
        \/ sent'[w] \in {Nothing, journal'} /\ answer'[w] \in {None, Asked}
    BY <1>1 DEF WriteShape
  <1>3. cache'[w] = c BY <1>1 DEF RegistryShape
  <1>4. \A k \in Keys : Nothing[k] = None /\ {None, Asked, Absent} \cap Rows(k) = {}
    BY RowFacts DEF Nothing
  <1>5. TypeShape' BY <1>1 DEF TypeShape, ReadStep
  <1>6. SharedTypes' /\ TimeGoesOn
    <2>1. stored[Registry] # Absent => stored[Registry].ts <= clock /\ stored[Registry].ts \in Nat
      BY <1>1, RowFacts DEF SharedTypes
    <2>2. clock \in Nat /\ clock' \in Nat /\ clock' \in Stamps /\ clock' >= clock
      BY <1>1 DEF CommitStep, WriteShape, Stamps
    <2>3. QED BY <1>1, <2>1, <2>2 DEF SharedTypes, TimeGoesOn
  <1>7. OthersRest(w)
    <2>1. \A v \in Windows \ {w} : /\ sent'[v] = sent[v] /\ answer'[v] = answer[v]
                                   /\ cache'[v] = cache[v]
      BY <1>1 DEF WriteShape, RegistryShape
    <2>2. QED BY <2>1, ShapesAfter, PostedTypes DEF OthersRest, ReadStep, CommitStep
  <1>8. WindowTypes(w)'
    <2>1. Answered(w)' => answer'[w] = answer[w] /\ Answered(w) BY <1>2 DEF Answered
    <2>2. \A k \in Keys : sent'[w][k] \in Rows(k) \cup {None} BY <1>1, <1>2, <1>4 DEF WindowTypes
    <2>3. \A k \in Keys : read'[w][k] \in Rows(k) \cup {None, Asked, Absent}
      BY <1>1 DEF ReadStep, WindowTypes
    <2>4. QED BY <1>1, <1>3, <2>1, <2>2, <2>3 DEF WindowTypes, ReadStep, CommitStep
  <1>9. RowsAreThere(w)' BY <1>1, <1>3, <1>4 DEF RowsAreThere, Ready, ReadStep
  <1>10. QED BY <1>5, <1>6, <1>7, <1>8, <1>9, TypesWindowStep DEF WindowHolds, CommitStep

LEMMA TypesFlushFails ==
    ASSUME Known, NEW w \in Windows, FlushFails(w)
    PROVE  TypesInv'
  <1>1. /\ Ready(w) /\ EndFlush(w, FALSE, journal, cache[w])
        /\ UNCHANGED <<stored, journal, life, cache, notices, posted, edited, failures>>
    BY DEF FlushFails
  <1>2. \A k \in Keys : cache[w][k] \in Rows(k) BY <1>1, WindowTypesOf, ShapesAfter DEF RowsAreThere
  <1>3. cache' = [cache EXCEPT ![w] = cache[w]] BY <1>1, ShapesOf, ShapesAfter DEF RegistryShape
  <1>4. CommitStep(w) /\ ReadStep(w) BY <1>1, <1>2, EndFlushTypes, RefreshedReads, ShapesAfter
  <1>5. sent' = [sent EXCEPT ![w] = Nothing] /\ answer' = [answer EXCEPT ![w] = None]
    BY <1>1 DEF EndFlush
  <1>6. failures' \in 0..MaxFailures /\ \A k \in Keys : journal'[k] \in Rows(k) \cup {None}
    BY <1>1, ShapesOf, ShapesAfter DEF SharedTypes
  <1>7. QED BY <1>1, <1>2, <1>3, <1>4, <1>5, <1>6, TypesOfFlush

LEMMA TypesFlushAnswered ==
    ASSUME Known, NEW w \in Windows, FlushAnswered(w)
    PROVE  TypesInv'
  <1>1. /\ Ready(w) /\ Answered(w) /\ UNCHANGED <<stored, life, notices, posted, edited>>
        /\ cache' = [cache EXCEPT ![w] = Reconciled(w)]
    BY DEF FlushAnswered, Answered
  <1>2. PICK c : c = Reconciled(w) OBVIOUS
  <1>3. \A k \in Keys : c[k] \in Rows(k)
    BY <1>1, <1>2, ReconciledTypes, WindowTypesOf, ShapesAfter DEF RowsAreThere
  <1>4. cache'[w] = c /\ cache' = [cache EXCEPT ![w] = c]
    BY <1>1, <1>2, ShapesOf, ShapesAfter DEF RegistryShape
  <1>5. PICK j : j = journal' OBVIOUS
  <1>6. /\ \A k \in Keys : journal'[k] \in Rows(k) \cup {None}
        /\ failures' \in 0..MaxFailures
    BY ShapesOf, ShapesAfter, ClearedTypes, FailureCounts DEF FlushAnswered, SharedTypes
  <1>7. ASSUME NEW ok, NEW i, EndFlush(w, ok, i, c) PROVE TypesInv'
    <2>1. CommitStep(w) /\ ReadStep(w) BY <1>3, <1>7, EndFlushTypes, RefreshedReads, ShapesAfter
    <2>2. sent' = [sent EXCEPT ![w] = Nothing] /\ answer' = [answer EXCEPT ![w] = None]
      BY <1>7 DEF EndFlush
    <2>3. QED BY <1>1, <1>3, <1>4, <1>6, <2>1, <2>2, TypesOfFlush
  <1>8. ASSUME StartFlush(w, journal'), read' = [read EXCEPT ![w] = Voided(w, c)],
               UNCHANGED <<clock, commit, deferred>>
        PROVE  TypesInv'
    <2>1. CommitStep(w) BY <1>8, CommitRests, ShapesAfter
    <2>2. ReadStep(w)
      <3>1. TypeShape /\ deferred[w] \subseteq Keys
        BY ShapesOf, ShapesAfter, WindowTypesOf DEF WindowTypes
      <3>2. PICK voided : /\ voided = Voided(w, c) OBVIOUS
      <3>3. /\ voided = [k \in Keys |-> voided[k]]
            /\ \A k \in Keys : voided[k] \in {None, read[w][k]}
        BY <3>2 DEF Voided
      <3>4. /\ read' = [v \in Windows |-> [k \in Keys |-> read'[v][k]]]
            /\ read'[w] = voided /\ \A v \in Windows \ {w} : read'[v] = read[v]
        BY <1>8, <3>1, <3>2, <3>3 DEF TypeShape
      <3>5. QED BY <1>8, <3>1, <3>3, <3>4 DEF ReadStep, TypeShape
    <2>3. QED BY <1>1, <1>3, <1>4, <1>6, <1>8, <2>1, <2>2, TypesOfFlush DEF StartFlush
  <1>9. QED BY <1>4, <1>5, <1>7, <1>8 DEF FlushAnswered

LEMMA TypesSubmit ==
    ASSUME Known, NEW w \in Windows, Submit(w)
    PROVE  TypesInv'
  <1>1. /\ Ready(w) /\ Room /\ commit[w] = NoCommit
        /\ UNCHANGED <<stored, journal, life, cache, notices, posted, edited, failures>>
    BY DEF Submit
  <1>2. PICK base \in {cache[w][Registry].value, Outdated, None} :
           \/ /\ Continue(w, base, TRUE, journal, cache[w])
              /\ UNCHANGED <<sent, answer>>
           \/ /\ commit' = [commit EXCEPT ![w] = [NoCommit EXCEPT !.at = "flushing", !.base = base]]
              /\ StartFlush(w, journal) \/ UNCHANGED <<sent, answer>>
              /\ UNCHANGED <<clock, read, deferred>>
    BY DEF Submit
  <1>3. WindowTypes(w) /\ RowsAreThere(w) /\ TypeShape /\ SharedTypes /\ RegistryShape
    BY ShapesOf, ShapesAfter, WindowTypesOf
  <1>4. \A k \in Keys : cache[w][k] \in Rows(k) BY <1>1, <1>3 DEF RowsAreThere
  <1>5. base \in (SUBSET Stamps) \cup {None, Outdated} BY <1>2, <1>4, RowFacts
  <1>6. /\ Stamp \in Stamps /\ clock + Cardinality(Flushing) + 1 <= MaxClock
        /\ IsFiniteSet(Flushing) /\ Cardinality(Flushing) \in Nat
        /\ w \notin Flushing /\ Flushing \ {w} = Flushing
    BY <1>1, ShapesAfter, RoomCounts DEF Flushing, NoCommit
  <1>7. CASE Continue(w, base, TRUE, journal, cache[w]) /\ UNCHANGED <<sent, answer>>
    <2>1. CommitStep(w) BY <1>4, <1>5, <1>6, <1>7, ContinueTypes, ShapesAfter
    <2>2. PICK ks, c : ks \in SUBSET Keys /\ Refresh(w, ks, Voided(w, cache[w]), journal, c)
      BY <1>3, <1>7 DEF Continue, WindowTypes
    <2>3. ReadStep(w) BY <2>2, RefreshEffect, RefreshedReads, ShapesAfter
    <2>4. cache' = [cache EXCEPT ![w] = cache[w]] BY <1>1, <1>3 DEF RegistryShape
    <2>5. failures' \in 0..MaxFailures /\ \A k \in Keys : journal'[k] \in Rows(k) \cup {None}
      BY <1>1, <1>3 DEF SharedTypes
    <2>6. QED BY <1>1, <1>4, <1>7, <2>1, <2>3, <2>4, <2>5, TypesOfFlush
  <1>8. CASE /\ commit' = [commit EXCEPT ![w] = [NoCommit EXCEPT !.at = "flushing", !.base = base]]
             /\ StartFlush(w, journal) \/ UNCHANGED <<sent, answer>>
             /\ UNCHANGED <<clock, read, deferred>>
    <2>1. PICK c : c = [NoCommit EXCEPT !.at = "flushing", !.base = base] OBVIOUS
    <2>2. c.at = "flushing" /\ TransactionTypes(c) BY <1>5, <2>1 DEF NoCommit, TransactionTypes
    <2>3. commit'[w] = c /\ \A v \in Windows \ {w} : commit'[v] = commit[v]
      BY <1>3, <1>8, <2>1 DEF RegistryShape, TransactionShape
    <2>4. RoomIsKept'
      <3>1. Flushing' = Flushing \cup {w} BY <2>2, <2>3 DEF Flushing
      <3>2. Cardinality(Flushing \cup {w}) = Cardinality(Flushing) + 1 BY <1>6, FS_AddElement
      <3>3. clock \in Nat BY ShapesOf, ShapesAfter
      <3>4. QED BY <1>6, <1>8, <3>1, <3>2, <3>3 DEF RoomIsKept
    <2>5. CommitStep(w)
      BY <1>3, <1>8, <2>2, <2>3, <2>4, ShapesOf, ShapesAfter DEF CommitStep, ProposalIsDated, SharedTypes
    <2>6. ReadStep(w) BY <1>3, <1>8 DEF ReadStep, TypeShape, WindowTypes
    <2>7. cache' = [cache EXCEPT ![w] = cache[w]] BY <1>1, <1>3 DEF RegistryShape
    <2>8. failures' \in 0..MaxFailures /\ \A k \in Keys : journal'[k] \in Rows(k) \cup {None}
      BY <1>1, <1>3 DEF SharedTypes
    <2>9. QED BY <1>1, <1>4, <1>8, <2>5, <2>6, <2>7, <2>8, TypesOfFlush DEF StartFlush
  <1>9. QED BY <1>2, <1>7, <1>8

LEMMA TypesNativeCommit ==
    ASSUME Known, NEW w \in Windows, NativeCommit(w)
    PROVE  TypesInv'
  <1>1. /\ UNCHANGED <<journal, clock, life, sent, answer, cache, read, deferred, posted, edited>>
        /\ commit[w].at = "sent"
    BY DEF NativeCommit, bootVars
  <1>2. PICK l \in {"done", "conflict", "failed"} : commit' = [commit EXCEPT ![w].at = l]
    BY DEF NativeCommit
  <1>3. /\ WindowTypes(w) /\ RowsAreThere(w) /\ ProposalIsDated(w) /\ TypeShape /\ SharedTypes
        /\ WriteShape /\ RegistryShape
    BY ShapesOf, ShapesAfter, WindowTypesOf
  <1>4. commit[w].next \in Rows(Registry) /\ commit[w].next.ts <= clock
    BY <1>1, <1>3 DEF ProposalIsDated
  <1>5. PICK next : next = commit[w].next OBVIOUS
  <1>6. stored' = stored \/ stored' = [stored EXCEPT ![Registry] = next] BY <1>5 DEF NativeCommit
  <1>7. SharedTypes' /\ TimeGoesOn
    <2>1. next \in Rows(Registry) /\ next # Absent /\ next.ts <= clock /\ clock \in Nat
      BY <1>4, <1>5, RowFacts, ShapesOf, ShapesAfter
    <2>2. /\ \A k \in Keys : stored'[k] \in Rows(k) \cup {Absent}
          /\ \A k \in Keys : stored[k] # Absent => stored'[k] # Absent
          /\ stored'[Registry] # Absent => stored'[Registry].ts <= clock
      BY <1>3, <1>6, <2>1 DEF SharedTypes, WriteShape
    <2>3. failures' \in 0..MaxFailures
      BY <1>3, FailureCounts, ShapesAfter DEF NativeCommit, SharedTypes
    <2>4. QED BY <1>1, <1>3, <2>1, <2>2, <2>3 DEF SharedTypes, TimeGoesOn
  <1>8. /\ commit'[w].at = l /\ commit'[w].base = commit[w].base
        /\ commit'[w].expected = commit[w].expected /\ commit'[w].next = commit[w].next
        /\ \A v \in Windows \ {w} : commit'[v] = commit[v]
    BY <1>2, <1>3 DEF RegistryShape, TransactionShape, CommitShape
  <1>9. RoomIsKept'
    <2>1. Flushing' \subseteq Flushing BY <1>8 DEF Flushing
    <2>2. QED BY <1>1, <2>1, RoomStays, ShapesAfter DEF Before
  <1>10. /\ notices' = [v \in Windows |-> notices'[v]] /\ notices'[w] \subseteq Keys
         /\ \A v \in Windows \ {w} : notices'[v] = notices[v]
    <2>1. notices' = notices \/ notices' = [notices EXCEPT ![w] = notices[w] \cup {Registry}]
      BY DEF NativeCommit
    <2>2. notices = [v \in Windows |-> notices[v]] /\ notices[w] \subseteq Keys
      BY <1>3 DEF TypeShape, WindowTypes
    <2>3. QED BY <2>1, <2>2
  <1>11. TypeShape' /\ OthersRest(w)
    BY <1>1, <1>3, <1>8, <1>10, PostedTypes, ShapesAfter DEF TypeShape, OthersRest
  <1>12. WindowTypes(w)' /\ ProposalIsDated(w)'
    <2>1. TransactionTypes(commit'[w]) BY <1>3, <1>8 DEF WindowTypes, TransactionTypes
    <2>2. WindowTypes(w)' BY <1>1, <1>3, <1>10, <2>1 DEF WindowTypes, Answered
    <2>3. ProposalIsDated(w)' BY <1>1, <1>4, <1>8 DEF ProposalIsDated
    <2>4. QED BY <2>2, <2>3
  <1>13. RowsAreThere(w)' BY <1>1, <1>3, <1>7 DEF RowsAreThere, TimeGoesOn, Answered, Ready
  <1>14. QED BY <1>7, <1>9, <1>11, <1>12, <1>13, TypesWindowStep DEF WindowHolds

LEMMA TypesCommitAnswered ==
    ASSUME Known, NEW w \in Windows, CommitAnswered(w)
    PROVE  TypesInv'
  <1>1. /\ UNCHANGED <<stored, journal, clock, life, sent, answer, notices, posted, edited, failures>>
        /\ commit[w].at \in {"done", "conflict", "failed"}
        /\ commit' = [commit EXCEPT ![w] = NoCommit]
    BY DEF CommitAnswered, nativeVars, bootVars
  <1>2. /\ WindowTypes(w) /\ RowsAreThere(w) /\ ProposalIsDated(w) /\ TypeShape /\ SharedTypes
        /\ WriteShape /\ RegistryShape
    BY ShapesOf, ShapesAfter, WindowTypesOf
  <1>3. Ready(w) BY <1>1, ShapesAfter DEF Before, RegistryInv, WindowInv, NoCommit
  <1>4. PICK rec : rec = Outcome(w) /\ rec \in Rows(Registry)
    BY <1>1, <1>2, <1>3 DEF Outcome, ProposalIsDated, RowsAreThere
  <1>5. cache' = [cache EXCEPT ![w][Registry] = rec] BY <1>4 DEF CommitAnswered
  <1>6. PICK c : c = [cache[w] EXCEPT ![Registry] = rec] OBVIOUS
  <1>7. cache' = [cache EXCEPT ![w] = c] /\ cache'[w] = c BY <1>2, <1>5, <1>6 DEF RegistryShape
  <1>8. \A k \in Keys : c[k] \in Rows(k) BY <1>2, <1>3, <1>4, <1>6 DEF RowsAreThere, RegistryShape
  <1>9. commit'[w] = NoCommit /\ \A v \in Windows \ {w} : commit'[v] = commit[v]
    BY <1>1, <1>2 DEF RegistryShape, TransactionShape
  <1>10. CommitStep(w)
    <2>1. Flushing' \subseteq Flushing BY <1>9 DEF Flushing, NoCommit
    <2>2. RoomIsKept' BY <1>1, <2>1, RoomStays, ShapesAfter DEF Before
    <2>3. TransactionTypes(commit'[w]) /\ ProposalIsDated(w)'
      BY <1>9 DEF TransactionTypes, ProposalIsDated, NoCommit
    <2>4. clock' \in Stamps /\ clock' >= clock BY <1>1, <1>2, ShapesOf, ShapesAfter DEF SharedTypes
    <2>5. QED BY <1>9, <2>2, <2>3, <2>4 DEF CommitStep
  <1>11. ReadStep(w)
    <2>1. PICK ks : ks \in SUBSET Keys /\ Refresh(w, ks, Voided(w, c), journal, NoCommit)
      BY <1>2, <1>7 DEF CommitAnswered, WindowTypes
    <2>2. QED BY <2>1, RefreshEffect, RefreshedReads, ShapesAfter
  <1>12. failures' \in 0..MaxFailures /\ \A k \in Keys : journal'[k] \in Rows(k) \cup {None}
    BY <1>1, <1>2 DEF SharedTypes
  <1>13. QED BY <1>1, <1>3, <1>7, <1>8, <1>10, <1>11, <1>12, TypesOfFlush

LEMMA TypesStutter ==
    ASSUME Known, UNCHANGED vars
    PROVE  TypesInv'
  <1>1. UNCHANGED <<stored, journal, clock, life, sent, answer, cache, read, commit, deferred,
                    notices, posted, edited, failures>>
    BY DEF vars, nativeVars, bootVars, windowVars
  <1>2. TypeShape' /\ SharedTypes' /\ RoomIsKept'
    BY <1>1, ShapesOf, ShapesAfter DEF TypeShape, SharedTypes, RoomIsKept, Flushing
  <1>3. ASSUME NEW w \in Windows PROVE WindowHolds(w)'
    BY <1>1, WindowTypesOf, ShapesAfter DEF WindowHolds, WindowTypes, ProposalIsDated, RowsAreThere,
      Answered, Ready
  <1>4. QED BY <1>2, <1>3 DEF TypesInv

LEMMA TypesNext == Before /\ [Next]_vars => Before'
  <1> SUFFICES ASSUME Before, [Next]_vars PROVE Before' OBVIOUS
  <1>1. Known BY KeptNext, RegistryNext DEF Before, Known
  <1>2. ASSUME NEW w \in Windows, Work(w) PROVE TypesInv'
    BY <1>1, <1>2, TypesNoticeArrives, TypesNativeWrite, TypesBootAnswered, TypesBootWritten,
      TypesBootFails, TypesFlushAnswered, TypesFlushFails, TypesNativeCommit, TypesCommitAnswered,
      TypesNativeRead, TypesRefreshAnswered, TypesStorageEvent DEF Work
  <1>3. TypesInv'
    BY <1>1, <1>2, TypesStutter, TypesBoot, TypesFocus, TypesSubmit, TypesCrash, TypesBootFails,
      TypesNativeWriteFails, TypesRefreshFails, TypesEdit DEF Next
  <1>4. QED BY <1>1, <1>3 DEF Known, Before

\* What is in the table, the journal and the windows has the shapes the code gives it,
\* and a stamp never exceeds the clock.
THEOREM TypeCorrect == Spec => []TypeOK
  <1>1. ASSUME Before PROVE TypeOK
    <2>1. \A k \in Keys : Rows(k) \subseteq Record BY RowFacts
    <2>2. /\ TypeShape /\ SharedTypes /\ WriteShape /\ RegistryShape
          /\ \A w \in Windows : WindowTypes(w)
      BY <1>1, ShapesOf, WindowTypesOf
    <2>3. PICK Maybe : Maybe = Record \cup {None} OBVIOUS
    <2>4. /\ stored \in [Keys -> Record \cup {Absent}]
          /\ journal \in [Keys -> Maybe] /\ edited \in [Keys -> Maybe]
      BY <2>1, <2>2, <2>3 DEF SharedTypes, WriteShape
    <2>5. /\ life \in [Windows -> {"down", "reading", "writing", "ready", "failed"}]
          /\ deferred \in [Windows -> SUBSET Keys] /\ notices \in [Windows -> SUBSET Keys]
      BY <2>2 DEF WriteShape, TypeShape, WindowTypes
    <2>6. cache \in [Windows -> [Keys -> Maybe]] /\ sent \in [Windows -> [Keys -> Maybe]]
      <3>1. \A w \in Windows, k \in Keys : cache[w][k] \in Maybe /\ sent[w][k] \in Maybe
        BY <2>1, <2>2, <2>3 DEF WindowTypes
      <3>2. /\ cache = [w \in Windows |-> [k \in Keys |-> cache[w][k]]]
            /\ sent = [w \in Windows |-> [k \in Keys |-> sent[w][k]]]
        BY <2>2 DEF WriteShape, RegistryShape
      <3>3. \A w \in Windows : cache[w] \in [Keys -> Maybe] /\ sent[w] \in [Keys -> Maybe]
        BY <3>1, <3>2
      <3>4. QED BY <3>2, <3>3
    <2>7. /\ read \in [Windows -> [Keys -> Maybe \cup {Asked, Absent}]]
          /\ posted \in [Windows -> [Keys -> Maybe]]
      <3>1. \A w \in Windows, k \in Keys : /\ read[w][k] \in Maybe \cup {Asked, Absent}
                                           /\ posted[w][k] \in Maybe
        BY <2>1, <2>2, <2>3 DEF WindowTypes
      <3>2. /\ read = [w \in Windows |-> [k \in Keys |-> read[w][k]]]
            /\ posted = [w \in Windows |-> [k \in Keys |-> posted[w][k]]]
        BY <2>2 DEF TypeShape
      <3>3. ASSUME NEW w \in Windows PROVE posted[w] \in [Keys -> Maybe]
        <4>1. posted[w] = [k \in Keys |-> posted[w][k]] BY <3>2
        <4>2. QED BY <3>1, <4>1
      <3>4. PICK answers : answers = Maybe \cup {Asked, Absent} OBVIOUS
      <3>5. ASSUME NEW w \in Windows PROVE read[w] \in [Keys -> answers]
        <4>1. read[w] = [k \in Keys |-> read[w][k]] BY <3>2
        <4>2. QED BY <3>1, <3>4, <4>1
      <3>6. QED BY <3>2, <3>3, <3>4, <3>5
    <2>8. answer \in [Windows -> [Keys -> Maybe] \cup {None, Asked, Failed}]
      <3>1. ASSUME NEW w \in Windows, Answered(w) PROVE answer[w] \in [Keys -> Maybe]
        BY <2>1, <2>2, <2>3, <3>1 DEF WindowTypes
      <3>2. QED BY <2>2, <3>1 DEF WriteShape, Answered
    <2>9. commit \in [Windows -> [at : {"idle", "flushing", "sent", "done", "conflict", "failed"},
                                  base : (SUBSET Stamps) \cup {None, Outdated},
                                  expected : (SUBSET Stamps) \cup {None},
                                  next : Maybe]]
      <3>1. ASSUME NEW w \in Windows
            PROVE  commit[w] \in [at : {"idle", "flushing", "sent", "done", "conflict", "failed"},
                                  base : (SUBSET Stamps) \cup {None, Outdated},
                                  expected : (SUBSET Stamps) \cup {None},
                                  next : Maybe]
        <4>1. CommitShape(commit[w]) /\ TransactionTypes(commit[w])
          BY <2>2 DEF RegistryShape, TransactionShape, WindowTypes
        <4>2. QED BY <2>1, <2>3, <4>1 DEF CommitShape, TransactionTypes
      <3>2. QED BY <2>2, <3>1 DEF RegistryShape, TransactionShape
    <2>10. \A k \in Keys : journal[k] # None => journal[k].ts <= clock
      BY <1>1 DEF Before, KeptInv, PendingIsOlder, Older, Dated, RegistryInv, NeverPending
    <2>11. \A k \in Keys : stored[k] # Absent => stored[k].ts <= clock
      BY <1>1, <2>2 DEF Before, KeptInv, RowIsOlder, Older, Dated, SharedTypes
    <2>12. QED
      BY <2>2, <2>3, <2>4, <2>5, <2>6, <2>7, <2>8, <2>9, <2>10, <2>11 DEF TypeOK, SharedTypes
  <1>2. Init => Before BY KeptInit, RegistryInit, TypesInit DEF Before
  <1>3. QED BY <1>1, <1>2, TypesNext, PTL DEF Spec

-----------------------------------------------------------------------------
(* What a window shows *)

\* What is pending for a setting is its last edit.
JournalIsLatest == \A k \in Settings : journal[k] \in {None, edited[k]}

\* Whatever a window shows, the table or the journal has something as new.
ShownIsReached(w) ==
    \A k \in Keys : \/ cache[w][k].ts <= stored[k].ts
                    \/ journal[k] # None /\ cache[w][k].ts <= journal[k].ts

\* An answer that has been read is in the past, but no older than what is shown; what
\* is asked for now will not be older either.
ReadIsPast(w) == \A k \in Keys : read[w][k] \in Rows(k) => read[w][k].ts <= stored[k].ts
ReadIsNews(w) ==
    \A k \in Keys : /\ read[w][k] = Asked => cache[w][k].ts <= stored[k].ts
                    /\ read[w][k] \in Rows(k) => cache[w][k].ts <= read[w][k].ts

\* A write that was answered left its record in the table, or a younger one.
AnswerIsPast(w) ==
    Answered(w) =>
        \A k \in Keys : /\ sent[w][k] # None => sent[w][k].ts <= stored[k].ts
                        /\ answer[w][k] # None => /\ sent[w][k] # None
                                                  /\ sent[w][k].ts < answer[w][k].ts
                                                  /\ answer[w][k].ts <= stored[k].ts

\* A window that starts will show what it replays or what it has read.
StartShows(w) ==
    life[w] = "writing" =>
        \A k \in Keys : \/ sent[w][k] = None /\ cache[w][k].ts <= stored[k].ts
                        \/ sent[w][k] = cache[w][k]

\* A proposal is younger than the registry it was made from.
ProposalIsNews(w) ==
    commit[w].at \in {"sent", "done"} =>
        /\ cache[w][Registry].ts <= commit[w].next.ts
        /\ commit[w].at = "done" => commit[w].next.ts <= stored[Registry].ts

WindowShows(w) ==
    /\ ReadIsPast(w) /\ AnswerIsPast(w) /\ StartShows(w) /\ ProposalIsNews(w)
    /\ Ready(w) => ShownIsReached(w) /\ ReadIsNews(w)

ShownInv == JournalIsLatest /\ \A w \in Windows : WindowShows(w)

\* What is known before and after a step.
Sure == Before /\ Before' /\ ShownInv

NeverBack(w) ==
    Ready(w) /\ life'[w] = "ready" =>
        \A k \in Keys : ~SupersededAnswer(w, k) => cache'[w][k].ts >= cache[w][k].ts
Goes == ShownInv' /\ \A w \in Windows : NeverBack(w)

LEMMA RowStamps ==
    \A k \in Keys : \A r \in Rows(k) : r.ts \in Nat /\ r.ts \in Stamps /\ r \notin {None, Asked, Absent}
  BY RowFacts

LEMMA WindowShowsOf ==
    ASSUME Sure, NEW w \in Windows
    PROVE  /\ JournalIsLatest
           /\ ReadIsPast(w) /\ AnswerIsPast(w) /\ StartShows(w) /\ ProposalIsNews(w)
           /\ Ready(w) => ShownIsReached(w) /\ ReadIsNews(w)
  BY DEF Sure, ShownInv, WindowShows

LEMMA SureTypes ==
    ASSUME Sure
    PROVE  /\ SharedTypes /\ TypeShape /\ WriteShape /\ RegistryShape /\ clock \in Nat
           /\ SharedTypes' /\ TypeShape' /\ WriteShape' /\ RegistryShape' /\ clock' \in Nat
           /\ \A w \in Windows : WindowTypes(w) /\ RowsAreThere(w) /\ ProposalIsDated(w)
           /\ \A w \in Windows : WindowTypes(w)' /\ RowsAreThere(w)' /\ ProposalIsDated(w)'
  BY DEF Sure, Before, TypesInv, WindowHolds, KeptInv, WriteShape, RegistryInv

\* Rows do not grow older, and a pending write that goes is in the table.
RowsGrow ==
    \A k \in Keys : stored[k] # Absent => stored'[k] # Absent /\ stored[k].ts <= stored'[k].ts
NothingLost ==
    \A k \in Keys : journal[k] # None => \/ journal'[k] # None /\ journal[k].ts <= journal'[k].ts
                                         \/ journal[k].ts <= stored'[k].ts /\ stored'[k] # Absent

OthersRestToo(w) ==
    \A v \in Windows \ {w} :
        /\ life'[v] = life[v] /\ cache'[v] = cache[v] /\ read'[v] = read[v]
        /\ sent'[v] = sent[v] /\ answer'[v] = answer[v] /\ commit'[v] = commit[v]

LEMMA ShownWindowStep ==
    ASSUME Sure, NEW w \in Windows, OthersRestToo(w), RowsGrow, NothingLost,
           JournalIsLatest', WindowShows(w)', NeverBack(w)
    PROVE  Goes
  <1>1. ASSUME NEW v \in Windows, v # w PROVE WindowShows(v)' /\ NeverBack(v)
    <2>1. /\ life'[v] = life[v] /\ cache'[v] = cache[v] /\ read'[v] = read[v]
          /\ sent'[v] = sent[v] /\ answer'[v] = answer[v] /\ commit'[v] = commit[v]
      BY <1>1 DEF OthersRestToo
    <2>2. WindowTypes(v) /\ RowsAreThere(v) /\ ProposalIsDated(v) /\ SharedTypes /\ SharedTypes'
      BY SureTypes
    <2>3. \A k \in Keys : stored[k] # Absent =>
              stored[k].ts \in Nat /\ stored'[k].ts \in Nat /\ stored[k].ts <= stored'[k].ts
              /\ stored'[k] # Absent
      BY <2>2, RowStamps, SureTypes DEF RowsGrow, SharedTypes
    <2>4. ReadIsPast(v)' BY <2>1, <2>2, <2>3, RowStamps, WindowShowsOf DEF ReadIsPast, RowsAreThere
    <2>5. AnswerIsPast(v)'
      <3>1. ASSUME Answered(v) PROVE AnswerIsPast(v)'
        BY <2>1, <2>2, <2>3, <3>1, RowStamps, WindowShowsOf DEF AnswerIsPast, Answered,
          RowsAreThere, WindowTypes
      <3>2. QED BY <2>1, <3>1 DEF AnswerIsPast, Answered
    <2>6. StartShows(v)'
      <3> SUFFICES ASSUME life[v] = "writing", NEW k \in Keys, sent[v][k] # cache[v][k]
                   PROVE  sent[v][k] = None /\ cache[v][k].ts <= stored'[k].ts
        BY <2>1 DEF StartShows
      <3>1. sent[v][k] = None /\ cache[v][k].ts <= stored[k].ts BY WindowShowsOf DEF StartShows
      <3>2. stored[k] # Absent /\ cache[v][k] \in Rows(k) BY <2>2, <3>1 DEF RowsAreThere
      <3>3. QED BY <2>3, <3>1, <3>2, RowStamps
    <2>7. Ready(v) => \A k \in Keys : cache[v][k] \in Rows(k) /\ stored[k] # Absent
      BY <2>2 DEF RowsAreThere
    <2>8. ProposalIsNews(v)'
      <3>1. commit[v].at \in {"sent", "done"} => /\ commit[v].next \in Rows(Registry)
                                                /\ Ready(v)
        BY <2>2, SureTypes DEF ProposalIsDated, Sure, Before, RegistryInv, WindowInv, NoCommit
      <3>2. QED BY <2>1, <2>3, <2>7, <3>1, RowStamps, WindowShowsOf DEF ProposalIsNews
    <2>9. Ready(v) => ReadIsNews(v)' BY <2>1, <2>3, <2>7, RowStamps, WindowShowsOf DEF ReadIsNews
    <2>10. Ready(v) => ShownIsReached(v)'
      <3>1. \A k \in Keys : journal[k] # None =>
                journal[k].ts \in Nat /\ (journal'[k] # None => journal'[k].ts \in Nat)
        BY <2>2, RowStamps DEF SharedTypes
      <3>2. \A k \in Keys : stored'[k] # Absent => stored'[k].ts \in Nat
        BY <2>2, RowStamps DEF SharedTypes
      <3>3. QED
        BY <2>1, <2>3, <2>7, <3>1, <3>2, RowStamps, WindowShowsOf DEF ShownIsReached, NothingLost
    <2>11. NeverBack(v) BY <2>1, <2>7, RowStamps DEF NeverBack
    <2>12. QED BY <2>1, <2>4, <2>5, <2>6, <2>8, <2>9, <2>10, <2>11 DEF WindowShows, Ready
  <1>2. \A v \in Windows : WindowShows(v)' /\ NeverBack(v) BY <1>1
  <1>3. QED BY <1>2 DEF Goes, ShownInv

\* In a window that has started: requests are made for rows without a pending write, and
\* a new version of the cache voids the refresh under way.
ReadsFollow(w) ==
    \A k \in Keys : \/ read'[w][k] = None
                    \/ read'[w][k] = Asked /\ journal'[k] = None
                    \/ read'[w][k] = read[w][k] /\ cache'[w][k] = cache[w][k]

LEMMA ReadsAreNews ==
    ASSUME Sure, NEW w \in Windows, Ready(w), Ready(w)', RowsGrow, ShownIsReached(w)',
           ReadsFollow(w)
    PROVE  ReadIsPast(w)' /\ ReadIsNews(w)'
  <1> SUFFICES ASSUME NEW k \in Keys
               PROVE  /\ read'[w][k] \in Rows(k) => read'[w][k].ts <= stored'[k].ts
                      /\ read'[w][k] = Asked => cache'[w][k].ts <= stored'[k].ts
                      /\ read'[w][k] \in Rows(k) => cache'[w][k].ts <= read'[w][k].ts
    BY DEF ReadIsPast, ReadIsNews
  <1>1. /\ stored[k] \in Rows(k) /\ stored'[k] \in Rows(k)
        /\ cache[w][k] \in Rows(k) /\ cache'[w][k] \in Rows(k)
        /\ stored[k].ts <= stored'[k].ts
    BY SureTypes DEF RowsAreThere, SharedTypes, RowsGrow
  <1>2. /\ read[w][k] \in Rows(k) => read[w][k].ts <= stored[k].ts
        /\ read[w][k] = Asked => cache[w][k].ts <= stored[k].ts
        /\ read[w][k] \in Rows(k) => cache[w][k].ts <= read[w][k].ts
    BY WindowShowsOf DEF ReadIsPast, ReadIsNews
  <1>3. CASE read'[w][k] = Asked /\ journal'[k] = None BY <1>3, RowStamps DEF ShownIsReached
  <1>4. CASE read'[w][k] = read[w][k] /\ cache'[w][k] = cache[w][k]
    <2>1. cache'[w][k].ts \in Nat /\ stored[k].ts \in Nat /\ stored'[k].ts \in Nat
          /\ (read[w][k] \in Rows(k) => read[w][k].ts \in Nat)
      BY <1>1, RowStamps
    <2>2. QED BY <1>1, <1>2, <1>4, <2>1
  <1>5. CASE read'[w][k] = None BY <1>5, RowStamps
  <1>6. QED BY <1>3, <1>4, <1>5 DEF ReadsFollow

\* Steps of a window that change nothing but what is asked for.
LEMMA ShownOfRefresh ==
    ASSUME Sure, NEW w \in Windows, Ready(w), ReadsFollow(w),
           UNCHANGED <<stored, journal, life, sent, answer, cache, commit, edited>>,
           \A v \in Windows \ {w} : read'[v] = read[v]
    PROVE  Goes
  <1>1. \A k \in Keys : stored[k] # Absent => stored[k].ts \in Nat
    BY SureTypes, RowStamps DEF SharedTypes
  <1>2. \A k \in Keys : journal[k] # None => journal[k].ts \in Nat
    BY SureTypes, RowStamps DEF SharedTypes
  <1>3. RowsGrow /\ NothingLost BY <1>1, <1>2 DEF RowsGrow, NothingLost
  <1>4. Ready(w)' /\ ShownIsReached(w)' BY WindowShowsOf DEF Ready, ShownIsReached
  <1>5. ReadIsPast(w)' /\ ReadIsNews(w)' BY <1>3, <1>4, ReadsAreNews
  <1>6. AnswerIsPast(w)' /\ ProposalIsNews(w)' /\ StartShows(w)' /\ JournalIsLatest'
    BY WindowShowsOf DEF AnswerIsPast, ProposalIsNews, StartShows, Answered, JournalIsLatest
  <1>7. \A k \in Keys : cache[w][k].ts \in Nat BY SureTypes, RowStamps DEF RowsAreThere
  <1>8. NeverBack(w) BY <1>7 DEF NeverBack
  <1>9. OthersRestToo(w) BY DEF OthersRestToo
  <1>10. QED BY <1>3, <1>4, <1>5, <1>6, <1>8, <1>9, ShownWindowStep DEF WindowShows

LEMMA RefreshedFollows ==
    ASSUME Before, NEW w \in Windows, NEW shown, NEW j, Refreshed(w, Voided(w, shown), j),
           j = journal', cache'[w] = shown
    PROVE  ReadsFollow(w)
  BY DEF Refreshed, Voided, ReadsFollow

LEMMA ShownFocus ==
    ASSUME Sure, NEW w \in Windows, Focus(w)
    PROVE  Goes
  <1>1. Refreshed(w, read[w], journal) BY RefreshEffect DEF Focus, Sure
  <1>2. UNCHANGED <<stored, journal, life, sent, answer, cache, commit, edited>> /\ Ready(w)
    BY DEF Focus, nativeVars, bootVars
  <1>3. ReadsFollow(w) /\ \A v \in Windows \ {w} : read'[v] = read[v]
    BY <1>1, <1>2 DEF Refreshed, ReadsFollow
  <1>4. QED BY <1>2, <1>3, ShownOfRefresh

LEMMA ShownNoticeArrives ==
    ASSUME Sure, NEW w \in Windows, NoticeArrives(w)
    PROVE  Goes
  <1>1. notices[w] \subseteq Keys /\ Refresh(w, notices[w], read[w], journal, commit[w])
    BY SureTypes DEF WindowTypes, NoticeArrives
  <1>2. Refreshed(w, read[w], journal) BY <1>1, RefreshEffect DEF Sure
  <1>3. UNCHANGED <<stored, journal, life, sent, answer, cache, commit, edited>> /\ Ready(w)
    BY DEF NoticeArrives, nativeVars, bootVars
  <1>4. ReadsFollow(w) /\ \A v \in Windows \ {w} : read'[v] = read[v]
    BY <1>2, <1>3 DEF Refreshed, ReadsFollow
  <1>5. QED BY <1>3, <1>4, ShownOfRefresh

LEMMA ShownRefreshFails ==
    ASSUME Sure, NEW w \in Windows, RefreshFails(w)
    PROVE  Goes
  <1>1. UNCHANGED <<stored, journal, life, sent, answer, cache, commit, edited>> /\ Ready(w)
    BY DEF RefreshFails, nativeVars, bootVars
  <1>2. ReadsFollow(w) /\ \A v \in Windows \ {w} : read'[v] = read[v]
    BY <1>1, SureTypes DEF RefreshFails, ReadsFollow, TypeShape
  <1>3. QED BY <1>1, <1>2, ShownOfRefresh

LEMMA NothingMoves ==
    ASSUME Sure, UNCHANGED <<stored, journal>>
    PROVE  RowsGrow /\ NothingLost
  <1>1. \A k \in Keys : stored[k] # Absent => stored[k].ts \in Nat
    BY SureTypes, RowStamps DEF SharedTypes
  <1>2. \A k \in Keys : journal[k] # None => journal[k].ts \in Nat
    BY SureTypes, RowStamps DEF SharedTypes
  <1>3. QED BY <1>1, <1>2 DEF RowsGrow, NothingLost

LEMMA ShownNativeRead ==
    ASSUME Sure, NEW w \in Windows, NativeRead(w)
    PROVE  Goes
  <1>1. UNCHANGED <<stored, journal, life, sent, answer, cache, commit, edited>>
    BY DEF NativeRead, nativeVars, bootVars
  <1>2. /\ \A v \in Windows \ {w} : read'[v] = read[v]
        /\ \A k \in Keys : read'[w][k] = IF read[w][k] = Asked THEN stored[k] ELSE read[w][k]
    BY SureTypes DEF NativeRead, TypeShape
  <1>3. ReadIsPast(w)'
    <2>1. \A k \in Keys : stored[k] \in Rows(k) => stored[k].ts <= stored[k].ts BY RowStamps
    <2>2. QED BY <1>1, <1>2, <2>1, WindowShowsOf DEF ReadIsPast
  <1>4. Ready(w)' => ReadIsNews(w)' /\ ShownIsReached(w)'
    <2>1. \A k \in Keys : Asked \notin Rows(k) /\ (stored[k] = Asked => stored[k] \notin Rows(k) \cup {Absent})
      BY RowStamps
    <2>2. \A k \in Keys : stored[k] # Asked BY <2>1, SureTypes DEF SharedTypes
    <2>3. QED BY <1>1, <1>2, <2>2, WindowShowsOf DEF Ready, ReadIsNews, ShownIsReached
  <1>5. life[w] # "writing" BY SureTypes DEF NativeRead, RowsAreThere, Nothing
  <1>6. AnswerIsPast(w)' /\ ProposalIsNews(w)' /\ StartShows(w)' /\ JournalIsLatest'
    BY <1>1, WindowShowsOf DEF AnswerIsPast, ProposalIsNews, StartShows, Answered, JournalIsLatest
  <1>7. NeverBack(w) BY <1>1, SureTypes, RowStamps DEF RowsAreThere, NeverBack
  <1>8. QED
    BY <1>1, <1>2, <1>3, <1>4, <1>6, <1>7, NothingMoves, ShownWindowStep DEF WindowShows,
      OthersRestToo

LEMMA ShownRefreshAnswered ==
    ASSUME Sure, NEW w \in Windows, RefreshAnswered(w)
    PROVE  Goes
  <1>1. UNCHANGED <<stored, journal, clock, life, sent, answer, commit, edited>> /\ Ready(w)
    BY DEF RefreshAnswered, nativeVars, bootVars
  <1>2. /\ \A v \in Windows \ {w} : read'[v] = read[v] /\ cache'[v] = cache[v]
        /\ \A k \in Keys : \/ read'[w][k] = None
                           \/ read'[w][k] = read[w][k] /\ cache'[w][k] = cache[w][k]
    BY SureTypes DEF RefreshAnswered, TypeShape, RegistryShape
  \* What is shown is what was read, of a key that nobody has leased.
  <1>3. \A k \in Keys : \/ cache'[w][k] = cache[w][k]
                        \/ /\ cache'[w][k] = read[w][k] /\ read[w][k] \in Rows(k)
                           /\ ~Busy(k, journal, commit[w])
    <2> TAKE k \in Keys
    <2>1. \/ cache'[w][k] = cache[w][k]
          \/ /\ cache'[w][k] = read[w][k] /\ read[w][k] \notin {None, Asked}
             /\ ~Busy(k, journal, commit[w])
      BY SureTypes DEF RefreshAnswered, RegistryShape
    <2>2. read[w][k] \in Rows(k) \cup {None, Asked}
      BY <1>1, SureTypes, ZenonT(60) DEF WindowTypes, RowsAreThere
    <2>3. QED BY <2>1, <2>2
  <1>4. \A k \in Keys : /\ cache[w][k].ts \in Nat
                        /\ read[w][k] \in Rows(k) => read[w][k].ts \in Nat
    BY <1>1, SureTypes, RowStamps DEF RowsAreThere
  <1>5. Ready(w)' /\ ShownIsReached(w)'
    BY <1>1, <1>3, WindowShowsOf DEF Ready, ShownIsReached, ReadIsPast
  <1>6. RowsGrow /\ NothingLost BY <1>1, NothingMoves
  <1>7. ReadIsPast(w)' /\ ReadIsNews(w)' BY <1>1, <1>2, <1>5, <1>6, ReadsAreNews DEF ReadsFollow
  <1>8. ProposalIsNews(w)'
    <2>1. commit[w].at \in {"sent", "done"} => cache'[w][Registry] = cache[w][Registry]
      BY <1>3 DEF Busy, Leased
    <2>2. QED BY <1>1, <2>1, WindowShowsOf DEF ProposalIsNews
  <1>9. AnswerIsPast(w)' /\ StartShows(w)' /\ JournalIsLatest'
    BY <1>1, WindowShowsOf DEF AnswerIsPast, StartShows, Answered, JournalIsLatest, Ready
  <1>10. NeverBack(w) BY <1>1, <1>3, <1>4, WindowShowsOf DEF NeverBack, ReadIsNews
  <1>11. QED
    BY <1>1, <1>2, <1>5, <1>6, <1>7, <1>8, <1>9, <1>10, ShownWindowStep DEF WindowShows,
      OthersRestToo

\* The last edit of a setting is at least as new as anything that is shown of it.
LEMMA EditIsNewest ==
    ASSUME Sure, NEW w \in Windows, Ready(w), NEW k \in Settings, journal[k] # None
    PROVE  /\ journal[k] = edited[k]
           /\ cache[w][k].ts \in Nat /\ journal[k].ts \in Nat /\ stored[k].ts \in Nat
           /\ cache[w][k].ts <= journal[k].ts /\ stored[k].ts <= journal[k].ts
  <1>1. journal[k] = edited[k] BY WindowShowsOf DEF JournalIsLatest
  <1>2. stored[k] \in Rows(k) /\ journal[k] \in Rows(k) /\ cache[w][k] \in Rows(k)
    BY SureTypes DEF RowsAreThere, SharedTypes
  <1>3. stored[k].ts <= journal[k].ts
    BY <1>1, <1>2, RowStamps DEF Sure, Before, KeptInv, RowIsOlder, Older
  <1>4. cache[w][k].ts <= stored[k].ts \/ cache[w][k].ts <= journal[k].ts
    BY WindowShowsOf DEF ShownIsReached
  <1>5. stored[k].ts \in Nat /\ journal[k].ts \in Nat /\ cache[w][k].ts \in Nat BY <1>2, RowStamps
  <1>6. QED BY <1>1, <1>3, <1>4, <1>5

LEMMA ShownStorageEvent ==
    ASSUME Sure, NEW w \in Windows, NEW e \in Settings, StorageEvent(w, e)
    PROVE  Goes
  <1>0. PICK rec : rec = posted[w][e] OBVIOUS
  <1>1. /\ UNCHANGED <<stored, journal, clock, life, sent, answer, commit, edited>>
        /\ rec # None /\ Ready(w)
        /\ \/ /\ cache' = [cache EXCEPT ![w][e] = rec] /\ read' = [read EXCEPT ![w][e] = None]
              /\ journal[e] = rec
           \/ UNCHANGED <<cache, read>>
    BY <1>0 DEF StorageEvent, nativeVars, bootVars
  <1>2. \A k \in Keys : cache[w][k].ts \in Nat BY <1>1, SureTypes, RowStamps DEF RowsAreThere
  <1>3. /\ \A v \in Windows \ {w} : read'[v] = read[v] /\ cache'[v] = cache[v]
        /\ \A k \in Keys : \/ read'[w][k] = read[w][k] /\ cache'[w][k] = cache[w][k]
                           \/ /\ k = e /\ read'[w][k] = None
                              /\ journal[k] # None /\ cache'[w][k] = journal[k]
    <2>1. CASE UNCHANGED <<cache, read>> BY <2>1
    <2>2. CASE /\ cache' = [cache EXCEPT ![w][e] = rec] /\ read' = [read EXCEPT ![w][e] = None]
               /\ journal[e] = rec
      <3>1. /\ cache = [v \in Windows |-> [k \in Keys |-> cache[v][k]]]
            /\ read = [v \in Windows |-> [k \in Keys |-> read[v][k]]]
        BY SureTypes DEF RegistryShape, TypeShape
      <3>2. QED BY <1>1, <2>2, <3>1
    <2>3. QED BY <1>1, <2>1, <2>2
  <1>4. RowsGrow /\ NothingLost BY <1>1, NothingMoves
  <1>5. journal[e] # None => journal[e].ts \in Nat /\ cache[w][e].ts <= journal[e].ts
    BY <1>1, EditIsNewest
  <1>6. Ready(w)' /\ ShownIsReached(w)' BY <1>1, <1>3, <1>5, WindowShowsOf DEF Ready, ShownIsReached
  <1>7. ReadIsPast(w)' /\ ReadIsNews(w)' BY <1>1, <1>3, <1>4, <1>6, ReadsAreNews DEF ReadsFollow
  <1>8. cache'[w][Registry] = cache[w][Registry] BY <1>3
  <1>9. AnswerIsPast(w)' /\ StartShows(w)' /\ ProposalIsNews(w)' /\ JournalIsLatest'
    BY <1>1, <1>8, WindowShowsOf DEF AnswerIsPast, StartShows, ProposalIsNews, Answered,
      JournalIsLatest, Ready
  <1>10. NeverBack(w) BY <1>2, <1>3, <1>5 DEF NeverBack
  <1>11. QED
    BY <1>1, <1>3, <1>4, <1>6, <1>7, <1>9, <1>10, ShownWindowStep DEF WindowShows, OthersRestToo

LEMMA ShownNativeWrite ==
    ASSUME Sure, NEW w \in Windows, NativeWrite(w)
    PROVE  Goes
  <1>1. /\ UNCHANGED <<journal, clock, life, sent, cache, read, commit, edited>>
        /\ answer[w] = Asked
        /\ \A k \in Keys : stored'[k] = IF sent[w][k] = None \/ Late(w, k) THEN stored[k]
                                                                         ELSE sent[w][k]
    BY DEF NativeWrite
  <1>2. /\ answer'[w] = [k \in Keys |-> IF Late(w, k) THEN stored[k] ELSE None]
        /\ \A v \in Windows \ {w} : answer'[v] = answer[v]
    BY SureTypes DEF NativeWrite, WriteShape
  <1>3. \A k \in Keys : /\ stored[k] # Absent => stored[k].ts \in Nat
                        /\ sent[w][k] # None => sent[w][k].ts \in Nat /\ sent[w][k] # Absent
                        /\ journal[k] # None => journal[k].ts \in Nat
    <2>1. \A k \in Keys : /\ stored[k] \in Rows(k) \cup {Absent}
                          /\ journal[k] \in Rows(k) \cup {None}
      BY SureTypes DEF SharedTypes
    <2>2. \A k \in Keys : sent[w][k] \in Rows(k) \cup {None} BY SureTypes DEF WindowTypes
    <2>3. QED BY <2>1, <2>2, RowStamps
  <1>4. RowsGrow /\ NothingLost BY <1>1, <1>3 DEF RowsGrow, NothingLost, Late
  <1>5. AnswerIsPast(w)'
    <2>1. \A k \in Keys : /\ sent[w][k] # None => sent[w][k].ts <= stored'[k].ts
                          /\ Late(w, k) => /\ sent[w][k] # None
                                           /\ sent[w][k].ts < stored[k].ts
                                           /\ stored[k].ts <= stored'[k].ts
      BY <1>1, <1>3 DEF Late
    <2>2. QED BY <1>1, <1>2, <2>1 DEF AnswerIsPast
  <1>6. \A k \in Keys : stored[k] # Absent => /\ stored'[k].ts \in Nat /\ stored[k].ts \in Nat
                                              /\ stored[k].ts <= stored'[k].ts
    BY <1>1, <1>3 DEF Late
  <1>7. ReadIsPast(w)'
    BY <1>1, <1>6, RowStamps, SureTypes, WindowShowsOf DEF ReadIsPast, RowsAreThere
  <1>8. StartShows(w)'
    <2> SUFFICES ASSUME life[w] = "writing", NEW k \in Keys, sent[w][k] # cache[w][k]
                 PROVE  sent[w][k] = None /\ cache[w][k].ts <= stored'[k].ts
      BY <1>1 DEF StartShows
    <2>1. sent[w][k] = None /\ cache[w][k].ts <= stored[k].ts BY WindowShowsOf DEF StartShows
    <2>2. stored[k] # Absent /\ cache[w][k] \in Rows(k) BY <2>1, SureTypes DEF RowsAreThere
    <2>3. QED BY <1>6, <2>1, <2>2, RowStamps
  <1>9. Ready(w) => \A k \in Keys : cache[w][k].ts \in Nat /\ stored[k] # Absent
    BY SureTypes, RowStamps DEF RowsAreThere
  <1>10. ProposalIsNews(w)'
    <2>1. commit[w].at = "done" => /\ commit[w].next.ts \in Nat
                                   /\ Ready(w)
      BY SureTypes, RowStamps DEF ProposalIsDated, Sure, Before, RegistryInv, WindowInv, NoCommit
    <2>2. QED BY <1>1, <1>6, <1>9, <2>1, WindowShowsOf DEF ProposalIsNews
  <1>11. Ready(w) => ReadIsNews(w)' /\ ShownIsReached(w)'
    BY <1>1, <1>6, <1>9, WindowShowsOf DEF ReadIsNews, ShownIsReached
  <1>12. JournalIsLatest' /\ NeverBack(w)
    BY <1>1, <1>9, WindowShowsOf DEF JournalIsLatest, NeverBack
  <1>13. QED
    BY <1>1, <1>2, <1>4, <1>5, <1>7, <1>8, <1>10, <1>11, <1>12, ShownWindowStep DEF WindowShows,
      OthersRestToo, Ready

LEMMA ShownNativeWriteFails ==
    ASSUME Sure, NEW w \in Windows, NativeWriteFails(w)
    PROVE  Goes
  <1>1. UNCHANGED <<stored, journal, clock, life, sent, cache, read, commit, edited>>
    BY DEF NativeWriteFails, nativeVars, windowVars
  <1>2. answer'[w] = Failed /\ \A v \in Windows \ {w} : answer'[v] = answer[v]
    BY SureTypes DEF NativeWriteFails, WriteShape
  <1>3. ReadIsPast(w)' /\ AnswerIsPast(w)' /\ StartShows(w)' /\ ProposalIsNews(w)' /\ JournalIsLatest'
    BY <1>1, <1>2, WindowShowsOf DEF ReadIsPast, AnswerIsPast, StartShows, ProposalIsNews, Answered,
      JournalIsLatest
  <1>4. Ready(w) => ReadIsNews(w)' /\ ShownIsReached(w)'
    BY <1>1, WindowShowsOf DEF ReadIsNews, ShownIsReached
  <1>5. NeverBack(w) BY <1>1, SureTypes, RowStamps DEF RowsAreThere, NeverBack
  <1>6. QED
    BY <1>1, <1>2, <1>3, <1>4, <1>5, NothingMoves, ShownWindowStep DEF WindowShows, OthersRestToo,
      Ready

LEMMA ShownBoot ==
    ASSUME Sure, NEW w \in Windows, Boot(w)
    PROVE  Goes
  <1>1. UNCHANGED <<stored, journal, clock, answer, cache, commit, edited>>
        /\ life[w] \in {"down", "failed"}
    BY DEF Boot, nativeVars
  <1>2. /\ life'[w] = "reading" /\ \A k \in Keys : read'[w][k] = Asked
        /\ \A v \in Windows \ {w} : /\ life'[v] = life[v] /\ sent'[v] = sent[v]
                                    /\ read'[v] = read[v]
    BY SureTypes DEF Boot, WriteShape, TypeShape
  <1>3. ~Answered(w)' /\ JournalIsLatest'
    BY <1>1, <1>2, SureTypes, WindowShowsOf DEF RowsAreThere, Answered, JournalIsLatest
  <1>4. ReadIsPast(w)' /\ AnswerIsPast(w)' /\ StartShows(w)' /\ ProposalIsNews(w)'
    BY <1>1, <1>2, <1>3, RowStamps, WindowShowsOf DEF ReadIsPast, AnswerIsPast, StartShows,
      ProposalIsNews
  <1>5. ~Ready(w) /\ ~Ready(w)' /\ NeverBack(w) BY <1>1, <1>2 DEF Ready, NeverBack
  <1>6. QED
    BY <1>1, <1>2, <1>3, <1>4, <1>5, NothingMoves, ShownWindowStep DEF WindowShows, OthersRestToo

LEMMA ShownBootAnswered ==
    ASSUME Sure, NEW w \in Windows, BootAnswered(w)
    PROVE  Goes
  <1>1. UNCHANGED <<stored, journal, clock, commit, edited>>
        /\ life[w] = "reading" /\ \A k \in Keys : read[w][k] \notin {None, Asked}
    BY DEF BootAnswered, nativeVars
  <1>2. /\ \A k \in Keys : /\ cache'[w][k] = Chosen(w, k)
                           /\ sent'[w][k] = IF k \in Promoted(w) THEN Chosen(w, k) ELSE None
        /\ read'[w] = Nothing
        /\ \A v \in Windows \ {w} : /\ cache'[v] = cache[v] /\ sent'[v] = sent[v]
                                    /\ read'[v] = read[v]
    BY SureTypes DEF BootAnswered, RegistryShape, TypeShape, WriteShape
  <1>3. /\ answer'[w] \in {None, Asked}
        /\ life'[w] = "ready" => Promoted(w) = {}
        /\ \A v \in Windows \ {w} : life'[v] = life[v] /\ answer'[v] = answer[v]
    BY <1>1, SureTypes DEF BootAnswered, WriteShape, RowsAreThere
  <1>4. \A k \in Keys : sent'[w][k] # cache'[w][k] =>
            k \notin Promoted(w) /\ sent'[w][k] = None /\ cache'[w][k].ts <= stored[k].ts
    <2> SUFFICES ASSUME NEW k \in Keys, k \notin Promoted(w)
                 PROVE  cache'[w][k].ts <= stored[k].ts
      BY <1>2
    <2>1. sent[w][k] = None /\ read[w][k] \in Rows(k) BY <1>1, SureTypes DEF Promoted, WindowTypes
    <2>2. read[w][k] # Absent BY <2>1, RowStamps
    <2>3. QED BY <1>2, <2>1, <2>2, WindowShowsOf DEF Chosen, ReadIsPast
  <1>5. \A k \in Keys : Nothing[k] = None BY DEF Nothing
  <1>6. ReadIsPast(w)' /\ AnswerIsPast(w)' /\ StartShows(w)' /\ JournalIsLatest'
    BY <1>1, <1>2, <1>3, <1>4, <1>5, RowStamps, WindowShowsOf DEF ReadIsPast, AnswerIsPast,
      StartShows, Answered, JournalIsLatest
  <1>7. ProposalIsNews(w)'
    <2>1. commit[w] = NoCommit BY <1>1 DEF Sure, Before, RegistryInv, WindowInv, Ready
    <2>2. QED BY <1>1, <2>1 DEF ProposalIsNews, NoCommit
  <1>8. Ready(w)' => ReadIsNews(w)' /\ ShownIsReached(w)'
    <2> SUFFICES ASSUME Ready(w)' PROVE ReadIsNews(w)' /\ ShownIsReached(w)' OBVIOUS
    <2>1. \A k \in Keys : sent'[w][k] = None /\ cache'[w][k] \in Rows(k)
      BY <1>2, <1>3, SureTypes DEF Ready, RowsAreThere
    <2>2. \A k \in Keys : cache'[w][k].ts <= stored[k].ts BY <1>4, <2>1, RowStamps
    <2>3. QED BY <1>1, <1>2, <1>5, <2>2, RowStamps DEF ReadIsNews, ShownIsReached
  <1>9. NeverBack(w) BY <1>1 DEF NeverBack, Ready
  <1>10. QED
    BY <1>1, <1>2, <1>3, <1>6, <1>7, <1>8, <1>9, NothingMoves, ShownWindowStep DEF WindowShows,
      OthersRestToo

\* What is cleared from the journal is in the table.
LEMMA ClearedIsStored ==
    ASSUME Sure, NEW w \in Windows, Answered(w), stored' = stored, edited' = edited,
           journal' \in {journal, Cleared(w)}
    PROVE  RowsGrow /\ NothingLost /\ JournalIsLatest'
  <1>1. \A k \in Keys : journal'[k] = journal[k] \/ (journal'[k] = None /\ journal[k] = sent[w][k])
    BY DEF Cleared
  <1>2. \A k \in Keys : /\ stored[k] # Absent => stored[k].ts \in Nat
                        /\ journal[k] # None => journal[k].ts \in Nat
    BY SureTypes, RowStamps DEF SharedTypes
  <1>3. \A k \in Keys : sent[w][k] # None =>
            stored[k] # Absent /\ sent[w][k].ts <= stored[k].ts
    BY SureTypes, WindowShowsOf DEF AnswerIsPast, RowsAreThere
  <1>4. QED BY <1>1, <1>2, <1>3, WindowShowsOf DEF RowsGrow, NothingLost, JournalIsLatest

LEMMA ShownBootWritten ==
    ASSUME Sure, NEW w \in Windows, BootWritten(w)
    PROVE  Goes
  <1>1. /\ UNCHANGED <<stored, clock, read, commit, edited>>
        /\ life[w] = "writing" /\ Answered(w) /\ journal' = Cleared(w)
    BY DEF BootWritten, Answered
  <1>2. /\ cache'[w] = Reconciled(w) /\ answer'[w] = None
        /\ \A v \in Windows \ {w} : /\ cache'[v] = cache[v] /\ sent'[v] = sent[v]
                                    /\ life'[v] = life[v] /\ answer'[v] = answer[v]
        /\ life'[w] = "ready"
    BY SureTypes DEF BootWritten, RegistryShape, WriteShape
  <1>3. RowsGrow /\ NothingLost /\ JournalIsLatest' BY <1>1, ClearedIsStored
  <1>4. read[w] = Nothing /\ \A k \in Keys : Nothing[k] = None
    BY <1>1, SureTypes DEF RowsAreThere, Nothing
  <1>5. \A k \in Keys : cache[w][k].ts <= stored[k].ts
    BY <1>1, SureTypes, RowStamps, WindowShowsOf DEF StartShows, AnswerIsPast, RowsAreThere
  <1>6. \A k \in Keys : cache'[w][k].ts <= stored[k].ts
    BY <1>1, <1>2, <1>5, WindowShowsOf DEF Reconciled, AnswerIsPast
  <1>7. ReadIsPast(w)' /\ ReadIsNews(w)' BY <1>1, <1>4, RowStamps DEF ReadIsPast, ReadIsNews
  <1>8. AnswerIsPast(w)' /\ StartShows(w)' /\ ShownIsReached(w)'
    BY <1>1, <1>2, <1>6 DEF AnswerIsPast, StartShows, ShownIsReached, Answered
  <1>9. ProposalIsNews(w)'
    <2>1. commit[w] = NoCommit BY <1>1 DEF Sure, Before, RegistryInv, WindowInv, Ready
    <2>2. QED BY <1>1, <2>1 DEF ProposalIsNews, NoCommit
  <1>10. NeverBack(w) BY <1>1 DEF NeverBack, Ready
  <1>11. QED
    BY <1>1, <1>2, <1>3, <1>7, <1>8, <1>9, <1>10, ShownWindowStep DEF WindowShows, OthersRestToo

LEMMA ShownDropped ==
    ASSUME Sure, NEW w \in Windows, UNCHANGED <<nativeVars, edited>>,
           NEW l \in {"down", "failed"}, life' = [life EXCEPT ![w] = l],
           cache' = [cache EXCEPT ![w] = Nothing], read' = [read EXCEPT ![w] = Nothing],
           sent' = [sent EXCEPT ![w] = Nothing], answer' = [answer EXCEPT ![w] = None],
           commit' = [commit EXCEPT ![w] = NoCommit] \/ commit' = commit
    PROVE  Goes
  <1>1. UNCHANGED <<stored, journal, clock, edited>> BY DEF nativeVars
  <1>2. /\ life'[w] = l /\ read'[w] = Nothing /\ answer'[w] = None
        /\ \A v \in Windows \ {w} :
             /\ life'[v] = life[v] /\ cache'[v] = cache[v] /\ read'[v] = read[v]
             /\ sent'[v] = sent[v] /\ answer'[v] = answer[v] /\ commit'[v] = commit[v]
    BY SureTypes DEF RegistryShape, TransactionShape, WriteShape, TypeShape
  <1>3. commit'[w] = NoCommit BY <1>2 DEF Sure, Before, RegistryInv, WindowInv, Ready
  <1>4. \A k \in Keys : Nothing[k] = None BY DEF Nothing
  <1>5. ReadIsPast(w)' /\ AnswerIsPast(w)' /\ StartShows(w)' /\ ProposalIsNews(w)' /\ JournalIsLatest'
    BY <1>1, <1>2, <1>3, <1>4, RowStamps, WindowShowsOf DEF ReadIsPast, AnswerIsPast, StartShows,
      ProposalIsNews, Answered, NoCommit, JournalIsLatest
  <1>6. ~Ready(w)' /\ NeverBack(w) BY <1>2 DEF Ready, NeverBack
  <1>7. QED BY <1>1, <1>2, <1>5, <1>6, NothingMoves, ShownWindowStep DEF WindowShows, OthersRestToo

LEMMA ShownCrash ==
    ASSUME Sure, NEW w \in Windows, Crash(w)
    PROVE  Goes
  BY ShownDropped DEF Crash

LEMMA ShownBootFails ==
    ASSUME Sure, NEW w \in Windows, BootFails(w)
    PROVE  Goes
  BY ShownDropped DEF BootFails

LEMMA ShownNativeCommit ==
    ASSUME Sure, NEW w \in Windows, NativeCommit(w)
    PROVE  Goes
  <1>1. /\ UNCHANGED <<journal, clock, life, sent, answer, cache, read, edited>>
        /\ commit[w].at = "sent"
    BY DEF NativeCommit, bootVars
  <1>2. PICK l \in {"done", "conflict", "failed"} :
            /\ commit' = [commit EXCEPT ![w].at = l]
            /\ \/ l # "done" /\ stored' = stored
               \/ Matches(w) /\ stored' = [stored EXCEPT ![Registry] = commit[w].next]
    BY DEF NativeCommit
  <1>3. /\ commit'[w].at = l /\ commit'[w].next = commit[w].next
        /\ \A v \in Windows \ {w} : commit'[v] = commit[v]
    BY <1>2, SureTypes DEF RegistryShape, TransactionShape, CommitShape
  <1>4. PICK next : next = commit[w].next OBVIOUS
  <1>5. \/ l # "done" /\ stored' = stored
        \/ Matches(w) /\ stored' = [stored EXCEPT ![Registry] = next]
    BY <1>2, <1>4
  <1>6. Ready(w) /\ next \in Rows(Registry) /\ next.ts \in Nat
    BY <1>1, <1>4, SureTypes, RowStamps DEF ProposalIsDated, Sure, Before, RegistryInv, WindowInv,
      NoCommit
  <1>7. \A k \in Keys : /\ stored[k] \in Rows(k) /\ stored[k].ts \in Nat
                        /\ cache[w][k] \in Rows(k) /\ cache[w][k].ts \in Nat
    BY <1>6, SureTypes, RowStamps DEF RowsAreThere, SharedTypes
  <1>8. \A k \in Keys : /\ stored'[k].ts \in Nat /\ stored[k].ts <= stored'[k].ts
                        /\ stored'[k] # Absent
    BY <1>4, <1>5, <1>6, <1>7, SureTypes, RowStamps DEF Matches, WriteShape
  <1>9. RowsGrow /\ NothingLost
    <2>1. \A k \in Keys : journal[k] # None => journal[k].ts \in Nat
      BY SureTypes, RowStamps DEF SharedTypes
    <2>2. QED BY <1>1, <1>8, <2>1 DEF RowsGrow, NothingLost
  <1>10. ProposalIsNews(w)'
    <2>1. l = "done" => stored'[Registry] = next BY <1>5, SureTypes DEF WriteShape
    <2>2. QED BY <1>1, <1>3, <1>4, <1>6, <2>1, WindowShowsOf DEF ProposalIsNews
  <1>11. ReadIsPast(w)' BY <1>1, <1>7, <1>8, RowStamps, WindowShowsOf DEF ReadIsPast
  <1>12. ReadIsNews(w)' /\ ShownIsReached(w)'
    BY <1>1, <1>6, <1>7, <1>8, WindowShowsOf DEF ReadIsNews, ShownIsReached
  <1>13. AnswerIsPast(w)'
    <2>1. \A k \in Keys : sent[w][k] # None => sent[w][k].ts \in Nat
      <3>1. \A k \in Keys : sent[w][k] \in Rows(k) \cup {None} BY SureTypes DEF WindowTypes
      <3>2. QED BY <3>1, RowStamps
    <2>2. Answered(w) => \A k \in Keys : answer[w][k] # None => answer[w][k].ts \in Nat
      <3>1. Answered(w) => \A k \in Keys : answer[w][k] \in Rows(k) \cup {None}
        BY SureTypes DEF WindowTypes
      <3>2. QED BY <3>1, RowStamps
    <2>3. Answered(w)' <=> Answered(w) BY <1>1 DEF Answered
    <2>4. QED BY <1>1, <1>7, <1>8, <2>1, <2>2, <2>3, WindowShowsOf DEF AnswerIsPast
  <1>14. StartShows(w)' /\ JournalIsLatest' /\ NeverBack(w)
    BY <1>1, <1>6, <1>7, WindowShowsOf DEF StartShows, JournalIsLatest, NeverBack, Ready
  <1>15. QED
    BY <1>1, <1>3, <1>9, <1>10, <1>11, <1>12, <1>13, <1>14, ShownWindowStep DEF WindowShows,
      OthersRestToo, Ready

\* Steps of a window that has started and stays so.
LEMMA ShownStep ==
    ASSUME Sure, NEW w \in Windows, Ready(w), life' = life, OthersRestToo(w), RowsGrow, NothingLost,
           JournalIsLatest', ShownIsReached(w)', ReadsFollow(w), AnswerIsPast(w)',
           ProposalIsNews(w)', NeverBack(w)
    PROVE  Goes
  <1>1. Ready(w)' /\ StartShows(w)' BY DEF Ready, StartShows
  <1>2. ReadIsPast(w)' /\ ReadIsNews(w)' BY <1>1, ReadsAreNews
  <1>3. QED BY <1>1, <1>2, ShownWindowStep DEF WindowShows

LEMMA ShownIsDated ==
    ASSUME Sure, NEW w \in Windows, Ready(w), NEW k \in Keys
    PROVE  cache[w][k].ts \in Nat /\ cache[w][k].ts <= clock
  <1>1. /\ cache[w][k] \in Rows(k) /\ stored[k] \in Rows(k) /\ stored[k] # Absent
        /\ journal[k] \in Rows(k) \cup {None}
    BY SureTypes, RowStamps DEF RowsAreThere, SharedTypes
  <1>2. stored[k].ts <= clock
    BY <1>1, SureTypes DEF Sure, Before, KeptInv, RowIsOlder, Older, Dated, SharedTypes
  <1>3. journal[k] # None => journal[k].ts <= clock
    BY DEF Sure, Before, KeptInv, PendingIsOlder, Older, Dated, RegistryInv, NeverPending
  <1>4. cache[w][k].ts <= stored[k].ts \/ (journal[k] # None /\ cache[w][k].ts <= journal[k].ts)
    BY WindowShowsOf DEF ShownIsReached
  <1>5. /\ cache[w][k].ts \in Nat /\ stored[k].ts \in Nat /\ clock \in Nat
        /\ journal[k] # None => journal[k].ts \in Nat
    BY <1>1, RowStamps, SureTypes
  <1>6. QED BY <1>2, <1>3, <1>4, <1>5

LEMMA ShownEdit ==
    ASSUME Sure, NEW w \in Windows, NEW e \in Settings, NEW x \in Values, Edit(w, e, x)
    PROVE  Goes
  <1>0. PICK rec : rec = [value |-> x, ts |-> Stamp] OBVIOUS
  <1>1. /\ UNCHANGED <<stored, life, commit>> /\ clock' = Stamp /\ Ready(w)
        /\ journal' = [journal EXCEPT ![e] = rec]
        /\ edited' = [edited EXCEPT ![e] = rec]
        /\ cache' = [cache EXCEPT ![w][e] = rec]
        /\ read' = [read EXCEPT ![w][e] = None]
        /\ \/ UNCHANGED <<sent, answer>>
           \/ sent' = [sent EXCEPT ![w] = journal'] /\ answer' = [answer EXCEPT ![w] = Asked]
    BY <1>0 DEF Edit, StartFlush
  <1>2. rec.ts = Stamp /\ Stamp = clock + 1 /\ clock \in Nat BY <1>0, SureTypes DEF Stamp
  <1>3. /\ journal'[e] = rec /\ edited'[e] = rec
        /\ \A k \in Keys : k # e => journal'[k] = journal[k] /\ edited'[k] = edited[k]
    BY <1>1, SureTypes DEF WriteShape
  <1>4. /\ cache'[w][e] = rec
        /\ \A k \in Keys : k # e => cache'[w][k] = cache[w][k]
        /\ \A v \in Windows \ {w} : cache'[v] = cache[v]
    BY <1>1, SureTypes DEF RegistryShape
  <1>5. /\ read'[w][e] = None
        /\ \A k \in Keys : k # e => read'[w][k] = read[w][k]
        /\ \A v \in Windows \ {w} : read'[v] = read[v]
    BY <1>1, SureTypes DEF TypeShape
  <1>6. /\ \A v \in Windows \ {w} : sent'[v] = sent[v] /\ answer'[v] = answer[v]
        /\ ~Answered(w)' \/ (sent'[w] = sent[w] /\ answer'[w] = answer[w] /\ Answered(w))
    BY <1>1, SureTypes DEF WriteShape, Answered
  <1>7. rec # None BY <1>3, <1>1, SureTypes DEF WriteShape, SharedTypes, IsEdit, Edit
  <1>8. RowsGrow /\ NothingLost
    <2>1. \A k \in Keys : /\ stored[k] # Absent => stored[k].ts \in Nat
                          /\ journal[k] # None => journal[k].ts \in Nat
      BY SureTypes, RowStamps DEF SharedTypes
    <2>2. journal[e] # None => journal[e].ts <= clock
      BY DEF Sure, Before, KeptInv, PendingIsOlder, Older, Dated
    <2>3. QED BY <1>1, <1>2, <1>3, <1>7, <2>1, <2>2 DEF RowsGrow, NothingLost
  <1>9. JournalIsLatest' BY <1>3, WindowShowsOf DEF JournalIsLatest
  <1>10. ShownIsReached(w)' BY <1>1, <1>2, <1>3, <1>4, <1>7, WindowShowsOf DEF ShownIsReached
  <1>11. ReadsFollow(w) BY <1>4, <1>5 DEF ReadsFollow
  <1>12. AnswerIsPast(w)' BY <1>1, <1>6, WindowShowsOf DEF AnswerIsPast
  <1>13. ProposalIsNews(w)' BY <1>1, <1>4, WindowShowsOf DEF ProposalIsNews
  <1>14. NeverBack(w)
    <2>1. \A k \in Keys : cache[w][k].ts \in Nat /\ cache[w][k].ts <= clock BY <1>1, ShownIsDated
    <2>2. QED BY <1>2, <1>4, <2>1 DEF NeverBack
  <1>15. QED
    BY <1>1, <1>4, <1>5, <1>6, <1>8, <1>9, <1>10, <1>11, <1>12, <1>13, <1>14, ShownStep DEF
      OthersRestToo

\* A proposal that is made now is younger than anything that is shown.
LEMMA ProposalIsYoung ==
    ASSUME Sure, NEW w \in Windows, Ready(w), NEW base, NEW ok, NEW j, NEW shown,
           Continue(w, base, ok, j, shown), cache'[w][Registry] = cache[w][Registry]
    PROVE  ProposalIsNews(w)'
  <1>1. PICK c : commit' = [commit EXCEPT ![w] = c] /\ c \in {NoCommit, Proposed(base, shown)}
    BY DEF Continue
  <1>2. commit'[w] = c BY <1>1, SureTypes DEF RegistryShape, TransactionShape
  <1>3. cache[w][Registry].ts \in Nat /\ cache[w][Registry].ts <= clock BY ShownIsDated
  <1>4. /\ Proposed(base, shown).at = "sent" /\ Proposed(base, shown).next.ts = Stamp
        /\ Stamp = clock + 1 /\ clock \in Nat
    BY SureTypes DEF Proposed, Stamp
  <1>5. NoCommit.at = "idle" BY DEF NoCommit
  <1>6. QED BY <1>1, <1>2, <1>3, <1>4, <1>5 DEF ProposalIsNews

LEMMA ProposalRests ==
    ASSUME Sure, NEW w \in Windows, stored' = stored, commit'[w] = commit[w],
           cache'[w][Registry] = cache[w][Registry]
    PROVE  ProposalIsNews(w)'
  BY WindowShowsOf DEF ProposalIsNews

LEMMA EndFlushShows ==
    ASSUME Sure, NEW w \in Windows, Ready(w), NEW ok, NEW j, NEW shown,
           EndFlush(w, ok, j, shown), shown[Registry] \in Rows(Registry), stored' = stored,
           cache'[w] = shown, shown[Registry] = cache[w][Registry], j = journal'
    PROVE  /\ ReadsFollow(w) /\ ProposalIsNews(w)' /\ AnswerIsPast(w)'
           /\ \A v \in Windows \ {w} : /\ read'[v] = read[v] /\ commit'[v] = commit[v]
                                       /\ sent'[v] = sent[v] /\ answer'[v] = answer[v]
  <1>1. CommitStep(w) /\ Refreshed(w, Voided(w, shown), j) BY EndFlushTypes DEF Sure
  <1>2. ReadsFollow(w) BY <1>1, RefreshedFollows DEF Sure
  <1>3. ProposalIsNews(w)' BY ProposalIsYoung, ProposalRests DEF EndFlush
  <1>4. answer'[w] = None BY SureTypes DEF EndFlush, WriteShape
  <1>5. QED
    BY <1>1, <1>2, <1>3, <1>4, SureTypes DEF EndFlush, WriteShape, CommitStep, Refreshed,
      AnswerIsPast, Answered

\* What a flush makes a window show is in the table, and older than what was shown only
\* when a superseded answer is.
LEMMA ReconciledShows ==
    ASSUME Sure, NEW w \in Windows, Ready(w), Answered(w), NEW k \in Keys
    PROVE  LET new == Reconciled(w)[k] IN
           /\ new = cache[w][k] \/ new.ts <= stored[k].ts
           /\ ~SupersededAnswer(w, k) => new.ts >= cache[w][k].ts
  <1>1. PICK new : new = Reconciled(w)[k] OBVIOUS
  <1>2. cache[w][k].ts \in Nat BY SureTypes, RowStamps DEF RowsAreThere
  <1>3. CASE new = cache[w][k] BY <1>1, <1>2, <1>3
  <1>4. CASE new # cache[w][k]
    <2>1. k \in Settings BY <1>1, <1>4, FlushShapes DEF Sure, Before
    <2>2. PICK send, ans, shown, pend : /\ send = sent[w][k] /\ ans = answer[w][k]
                                        /\ shown = cache[w][k] /\ pend = journal[k]
      OBVIOUS
    <2>3. /\ send # None /\ new = (IF ans # None THEN ans ELSE send)
          /\ shown.value # new.value
          /\ IF pend = None THEN shown.value = send.value ELSE pend = send
      BY <1>1, <1>4, <2>2 DEF Reconciled, Overtaken
    <2>4. /\ send.ts <= stored[k].ts
          /\ ans # None => send.ts < ans.ts /\ ans.ts <= stored[k].ts
      BY <2>2, <2>3, WindowShowsOf DEF AnswerIsPast
    <2>5. stored[k].ts \in Nat BY SureTypes, RowStamps DEF RowsAreThere, SharedTypes
    <2>6. send \in Rows(k) \cup {None} /\ ans \in Rows(k) \cup {None}
      BY <2>2, SureTypes DEF WindowTypes
    <2>7. send.ts \in Nat /\ (ans # None => ans.ts \in Nat) BY <2>3, <2>6, RowStamps
    <2>8. pend # None => /\ pend.ts \in Nat /\ shown.ts <= pend.ts /\ stored[k].ts <= pend.ts
      BY <2>1, <2>2, EditIsNewest
    <2>9. ans # None => pend = None BY <2>3, <2>4, <2>5, <2>7, <2>8
    <2>10. ~SupersededAnswer(w, k) /\ ans # None => shown.ts <= send.ts
      BY <1>2, <2>2, <2>7, <2>9 DEF SupersededAnswer, Answered
    <2>11. ~SupersededAnswer(w, k) => new.ts >= shown.ts
      BY <1>2, <2>2, <2>3, <2>4, <2>5, <2>7, <2>8, <2>9, <2>10
    <2>12. new.ts <= stored[k].ts BY <2>3, <2>4
    <2>13. QED BY <1>1, <2>2, <2>11, <2>12
  <1>5. QED BY <1>3, <1>4

LEMMA ShownFlushFails ==
    ASSUME Sure, NEW w \in Windows, FlushFails(w)
    PROVE  Goes
  <1>1. /\ UNCHANGED <<stored, journal, life, cache, edited>> /\ Ready(w)
        /\ EndFlush(w, FALSE, journal, cache[w])
    BY DEF FlushFails
  <1>2. cache[w][Registry] \in Rows(Registry) /\ \A k \in Keys : cache[w][k].ts \in Nat
    BY <1>1, SureTypes, RowStamps DEF RowsAreThere
  <1>3. PICK shown, j : shown = cache[w] /\ j = journal OBVIOUS
  <1>4. EndFlush(w, FALSE, j, shown) /\ shown[Registry] \in Rows(Registry)
        /\ cache'[w] = shown /\ shown[Registry] = cache[w][Registry] /\ j = journal'
    BY <1>1, <1>2, <1>3
  <1>5. /\ ReadsFollow(w) /\ ProposalIsNews(w)' /\ AnswerIsPast(w)'
        /\ \A v \in Windows \ {w} : /\ read'[v] = read[v] /\ commit'[v] = commit[v]
                                    /\ sent'[v] = sent[v] /\ answer'[v] = answer[v]
    BY <1>1, <1>4, EndFlushShows
  <1>6. ShownIsReached(w)' /\ JournalIsLatest'
    BY <1>1, WindowShowsOf DEF ShownIsReached, JournalIsLatest
  <1>7. NeverBack(w) BY <1>1, <1>2 DEF NeverBack
  <1>8. QED BY <1>1, <1>5, <1>6, <1>7, NothingMoves, ShownStep DEF OthersRestToo

LEMMA ShownFlushAnswered ==
    ASSUME Sure, NEW w \in Windows, FlushAnswered(w)
    PROVE  Goes
  <1>1. /\ Ready(w) /\ Answered(w) /\ UNCHANGED <<stored, life, edited>>
        /\ cache' = [cache EXCEPT ![w] = Reconciled(w)]
        /\ journal' \in {journal, Cleared(w)}
    BY DEF FlushAnswered, Answered
  <1>2. PICK c : c = Reconciled(w) OBVIOUS
  <1>3. /\ cache'[w] = c /\ \A v \in Windows \ {w} : cache'[v] = cache[v]
    BY <1>1, <1>2, SureTypes DEF RegistryShape
  <1>4. c[Registry] = cache[w][Registry] /\ c[Registry] \in Rows(Registry)
    BY <1>1, <1>2, FlushShapes, SureTypes DEF Sure, Before, RowsAreThere
  <1>5. RowsGrow /\ NothingLost /\ JournalIsLatest' BY <1>1, ClearedIsStored
  <1>6. \A k \in Keys : /\ c[k] = cache[w][k] \/ c[k].ts <= stored[k].ts
                        /\ ~SupersededAnswer(w, k) => c[k].ts >= cache[w][k].ts
    BY <1>1, <1>2, ReconciledShows
  <1>7. NeverBack(w) BY <1>3, <1>6 DEF NeverBack
  <1>8. ShownIsReached(w)'
    <2>1. ASSUME NEW k \in Keys, c[k] = cache[w][k]
          PROVE  \/ c[k].ts <= stored[k].ts
                 \/ journal'[k] # None /\ c[k].ts <= journal'[k].ts
      <3>1. /\ cache[w][k].ts \in Nat /\ stored[k].ts \in Nat
            /\ journal[k] # None => journal[k].ts \in Nat
            /\ journal'[k] # None => journal'[k].ts \in Nat
        <4>1. /\ cache[w][k] \in Rows(k) /\ stored[k] \in Rows(k)
              /\ journal[k] \in Rows(k) \cup {None} /\ journal'[k] \in Rows(k) \cup {None}
          BY <1>1, SureTypes DEF RowsAreThere, SharedTypes
        <4>2. QED BY <4>1, RowStamps
      <3>2. \/ cache[w][k].ts <= stored[k].ts
            \/ journal[k] # None /\ cache[w][k].ts <= journal[k].ts
        BY <1>1, WindowShowsOf DEF ShownIsReached
      <3>3. journal[k] # None => \/ journal'[k] # None /\ journal[k].ts <= journal'[k].ts
                                 \/ journal[k].ts <= stored[k].ts
        BY <1>1, <1>5 DEF NothingLost
      <3>4. QED BY <2>1, <3>1, <3>2, <3>3
    <2>2. QED BY <1>1, <1>3, <1>6, <2>1 DEF ShownIsReached
  <1>9. ASSUME NEW ok, NEW j, j = journal', EndFlush(w, ok, j, c) PROVE Goes
    <2>1. /\ ReadsFollow(w) /\ ProposalIsNews(w)' /\ AnswerIsPast(w)'
          /\ \A v \in Windows \ {w} : /\ read'[v] = read[v] /\ commit'[v] = commit[v]
                                      /\ sent'[v] = sent[v] /\ answer'[v] = answer[v]
      BY <1>1, <1>3, <1>4, <1>9, EndFlushShows
    <2>2. QED BY <1>1, <1>3, <1>5, <1>7, <1>8, <2>1, ShownStep DEF OthersRestToo
  <1>10. ASSUME StartFlush(w, journal'), read' = [read EXCEPT ![w] = Voided(w, c)],
                UNCHANGED <<clock, commit, deferred>>
         PROVE  Goes
    <2>1. answer'[w] = Asked /\ \A v \in Windows \ {w} : /\ read'[v] = read[v]
                                                        /\ sent'[v] = sent[v]
                                                        /\ answer'[v] = answer[v]
      BY <1>10, SureTypes DEF StartFlush, WriteShape, TypeShape
    <2>2. read'[w] = Voided(w, c) BY <1>10, SureTypes DEF TypeShape
    <2>3. ReadsFollow(w) BY <1>3, <2>2 DEF Voided, ReadsFollow
    <2>4. AnswerIsPast(w)' BY <2>1 DEF AnswerIsPast, Answered
    <2>5. ProposalIsNews(w)' BY <1>1, <1>3, <1>4, <1>10, ProposalRests
    <2>6. QED
      BY <1>1, <1>3, <1>5, <1>7, <1>8, <1>10, <2>1, <2>3, <2>4, <2>5, ShownStep DEF OthersRestToo
  <1>11. CASE /\ journal' = Cleared(w)
              /\ IF Pending(journal') = {}
                   THEN EndFlush(w, TRUE, journal', cache'[w])
                   ELSE /\ StartFlush(w, journal')
                        /\ read' = [read EXCEPT ![w] = Voided(w, cache'[w])]
                        /\ UNCHANGED <<clock, commit, deferred>>
    <2>1. PICK j : j = journal' OBVIOUS
    <2>2. QED BY <1>3, <1>9, <1>10, <1>11, <2>1
  <1>12. CASE UNCHANGED journal /\ EndFlush(w, FALSE, journal, cache'[w])
    <2>1. PICK j : j = journal' OBVIOUS
    <2>2. EndFlush(w, FALSE, j, c) BY <1>3, <1>12, <2>1
    <2>3. QED BY <1>9, <2>1, <2>2
  <1>13. QED BY <1>11, <1>12 DEF FlushAnswered

LEMMA ShownSubmit ==
    ASSUME Sure, NEW w \in Windows, Submit(w)
    PROVE  Goes
  <1>1. /\ UNCHANGED <<stored, journal, life, cache, edited>> /\ Ready(w)
    BY DEF Submit
  <1>2. PICK base :
           \/ /\ Continue(w, base, TRUE, journal, cache[w])
              /\ UNCHANGED <<sent, answer>>
           \/ /\ commit' = [commit EXCEPT ![w] = [NoCommit EXCEPT !.at = "flushing", !.base = base]]
              /\ StartFlush(w, journal) \/ UNCHANGED <<sent, answer>>
              /\ UNCHANGED <<clock, read, deferred>>
    BY DEF Submit
  <1>3. \A k \in Keys : cache[w][k].ts \in Nat BY <1>1, SureTypes, RowStamps DEF RowsAreThere
  <1>4. ShownIsReached(w)' /\ JournalIsLatest'
    BY <1>1, WindowShowsOf DEF ShownIsReached, JournalIsLatest
  <1>5. NeverBack(w) BY <1>1, <1>3 DEF NeverBack
  <1>6. CASE Continue(w, base, TRUE, journal, cache[w]) /\ UNCHANGED <<sent, answer>>
    <2>1. PICK shown, j : shown = cache[w] /\ j = journal OBVIOUS
    <2>2. Continue(w, base, TRUE, j, shown) /\ cache'[w] = shown /\ j = journal' BY <1>1, <1>6, <2>1
    <2>3. ProposalIsNews(w)' BY <1>1, <2>2, ProposalIsYoung
    <2>4. deferred[w] \subseteq Keys BY SureTypes DEF WindowTypes
    <2>5. PICK ks, c : ks \in SUBSET Keys /\ Refresh(w, ks, Voided(w, shown), j, c)
      BY <2>2, <2>4 DEF Continue
    <2>6. Refreshed(w, Voided(w, shown), j) BY <2>5, RefreshEffect DEF Sure
    <2>7. ReadsFollow(w) /\ \A v \in Windows \ {w} : read'[v] = read[v]
      <3>1. ReadsFollow(w) BY <2>2, <2>6, RefreshedFollows DEF Sure
      <3>2. QED BY <2>6, <3>1 DEF Refreshed
    <2>8. \A v \in Windows \ {w} : commit'[v] = commit[v]
      BY <1>6, SureTypes DEF Continue, RegistryShape, TransactionShape
    <2>9. AnswerIsPast(w)' BY <1>1, <1>6, WindowShowsOf DEF AnswerIsPast, Answered
    <2>10. QED
      BY <1>1, <1>4, <1>5, <1>6, <2>3, <2>7, <2>8, <2>9, NothingMoves, ShownStep DEF OthersRestToo
  <1>7. CASE /\ commit' = [commit EXCEPT ![w] = [NoCommit EXCEPT !.at = "flushing", !.base = base]]
             /\ StartFlush(w, journal) \/ UNCHANGED <<sent, answer>>
             /\ UNCHANGED <<clock, read, deferred>>
    <2>1. commit'[w].at = "flushing" /\ \A v \in Windows \ {w} : commit'[v] = commit[v]
      BY <1>7, SureTypes DEF NoCommit, RegistryShape, TransactionShape
    <2>2. /\ \A v \in Windows \ {w} : sent'[v] = sent[v] /\ answer'[v] = answer[v]
          /\ ~Answered(w)' \/ UNCHANGED <<sent, answer>>
      BY <1>7, SureTypes DEF StartFlush, WriteShape, Answered
    <2>3. ProposalIsNews(w)' BY <2>1 DEF ProposalIsNews
    <2>4. AnswerIsPast(w)' BY <1>1, <2>2, WindowShowsOf DEF AnswerIsPast, Answered
    <2>5. ReadsFollow(w) BY <1>1, <1>7 DEF ReadsFollow
    <2>6. QED
      BY <1>1, <1>4, <1>5, <1>7, <2>1, <2>2, <2>3, <2>4, <2>5, NothingMoves, ShownStep DEF
        OthersRestToo
  <1>8. QED BY <1>2, <1>6, <1>7

LEMMA ShownCommitAnswered ==
    ASSUME Sure, NEW w \in Windows, CommitAnswered(w)
    PROVE  Goes
  <1>1. /\ UNCHANGED <<stored, journal, clock, life, sent, answer, edited>>
        /\ commit[w].at \in {"done", "conflict", "failed"}
        /\ commit' = [commit EXCEPT ![w] = NoCommit]
    BY DEF CommitAnswered, nativeVars, bootVars
  <1>2. Ready(w) BY <1>1 DEF Sure, Before, RegistryInv, WindowInv, NoCommit
  <1>3. PICK rec : rec = Outcome(w) OBVIOUS
  <1>4. cache' = [cache EXCEPT ![w][Registry] = rec] BY <1>3 DEF CommitAnswered
  <1>5. /\ cache'[w][Registry] = rec
        /\ \A k \in Keys : k # Registry => cache'[w][k] = cache[w][k]
        /\ \A v \in Windows \ {w} : cache'[v] = cache[v]
    <2>1. cache = [v \in Windows |-> [k \in Keys |-> cache[v][k]]] BY SureTypes DEF RegistryShape
    <2>2. QED BY <1>4, <2>1
  <1>6. \A k \in Keys : cache[w][k].ts \in Nat BY <1>2, SureTypes, RowStamps DEF RowsAreThere
  <1>7. rec = cache[w][Registry] \/ (rec.ts <= stored[Registry].ts /\ cache[w][Registry].ts <= rec.ts)
    BY <1>1, <1>3, WindowShowsOf DEF Outcome, ProposalIsNews
  <1>8. rec.ts \in Nat
    <2>1. rec \in Rows(Registry)
      BY <1>1, <1>2, <1>3, SureTypes DEF Outcome, ProposalIsDated, RowsAreThere
    <2>2. QED BY <2>1, RowStamps
  <1>9. commit'[w].at = "idle" /\ \A v \in Windows \ {w} : commit'[v] = commit[v]
    BY <1>1, SureTypes DEF NoCommit, RegistryShape, TransactionShape
  <1>10. ShownIsReached(w)' BY <1>1, <1>2, <1>5, <1>7, WindowShowsOf DEF ShownIsReached
  <1>11. NeverBack(w) BY <1>5, <1>6, <1>7, <1>8 DEF NeverBack
  <1>12. ReadsFollow(w) /\ \A v \in Windows \ {w} : read'[v] = read[v]
    <2>1. PICK shown, j : shown = cache'[w] /\ j = journal OBVIOUS
    <2>2. deferred[w] \subseteq Keys BY SureTypes DEF WindowTypes
    <2>3. PICK ks : ks \in SUBSET Keys /\ Refresh(w, ks, Voided(w, shown), j, NoCommit)
      BY <2>1, <2>2 DEF CommitAnswered
    <2>4. Refreshed(w, Voided(w, shown), j) BY <2>3, RefreshEffect DEF Sure
    <2>5. j = journal' /\ cache'[w] = shown BY <1>1, <2>1
    <2>6. QED
      <3>1. ReadsFollow(w) BY <2>4, <2>5, RefreshedFollows DEF Sure
      <3>2. QED BY <2>4, <3>1 DEF Refreshed
  <1>13. AnswerIsPast(w)' /\ ProposalIsNews(w)' /\ JournalIsLatest'
    BY <1>1, <1>9, WindowShowsOf DEF AnswerIsPast, Answered, ProposalIsNews, JournalIsLatest
  <1>14. QED
    BY <1>1, <1>2, <1>5, <1>9, <1>10, <1>11, <1>12, <1>13, NothingMoves, ShownStep DEF OthersRestToo

LEMMA ShownStutter ==
    ASSUME Sure, UNCHANGED vars
    PROVE  Goes
  <1>1. UNCHANGED <<stored, journal, clock, life, sent, answer, cache, read, commit, edited>>
    BY DEF vars, nativeVars, bootVars, windowVars
  <1>2. ASSUME NEW w \in Windows PROVE WindowShows(w)' /\ NeverBack(w)
    <2>1. WindowShows(w)'
      BY <1>1, WindowShowsOf DEF WindowShows, ReadIsPast, AnswerIsPast, StartShows, ProposalIsNews,
        Answered, Ready, ReadIsNews, ShownIsReached
    <2>2. NeverBack(w) BY <1>1, SureTypes, RowStamps DEF RowsAreThere, NeverBack
    <2>3. QED BY <2>1, <2>2
  <1>3. JournalIsLatest' BY <1>1 DEF Sure, ShownInv, JournalIsLatest
  <1>4. QED BY <1>2, <1>3 DEF Goes, ShownInv

LEMMA ShownInit == Init => ShownInv
  <1> SUFFICES ASSUME Init PROVE ShownInv OBVIOUS
  <1>1. /\ \A k \in Keys : journal[k] = None
        /\ \A w \in Windows : /\ life[w] = "down" /\ answer[w] = None /\ commit[w].at = "idle"
                              /\ \A k \in Keys : read[w][k] = None
    BY DEF Init, Nothing, NoCommit
  <1>2. ASSUME NEW w \in Windows PROVE WindowShows(w)
    BY <1>1, RowStamps DEF WindowShows, ReadIsPast, AnswerIsPast, StartShows, ProposalIsNews,
      Answered, Ready
  <1>3. QED BY <1>1, <1>2 DEF ShownInv, JournalIsLatest

LEMMA ShownNext ==
    ASSUME Before, ShownInv, [Next]_vars
    PROVE  Goes
  <1>1. Sure BY TypesNext DEF Sure
  <1>2. ASSUME NEW w \in Windows, Work(w) PROVE Goes
    BY <1>1, <1>2, ShownNoticeArrives, ShownNativeWrite, ShownBootAnswered, ShownBootWritten,
      ShownBootFails, ShownFlushAnswered, ShownFlushFails, ShownNativeCommit, ShownCommitAnswered,
      ShownNativeRead, ShownRefreshAnswered, ShownStorageEvent DEF Work
  <1>3. QED
    BY <1>1, <1>2, ShownStutter, ShownBoot, ShownFocus, ShownSubmit, ShownCrash, ShownBootFails,
      ShownNativeWriteFails, ShownRefreshFails, ShownEdit DEF Next

\* A window that has started never goes back to an older value than it shows, of a setting
\* or of the registry, in whatever order answers and events arrive; a superseded answer to
\* a flush of the value that is shown again since is the exception the property names.
THEOREM ShownNeverGoesBackHolds == Spec => ShownNeverGoesBack
  <1>1. ASSUME Before, ShownInv, [Next]_vars
        PROVE  \A w \in Windows, k \in Keys :
                   Ready(w) /\ life'[w] = "ready" /\ ~SupersededAnswer(w, k)
                       => cache'[w][k].ts >= cache[w][k].ts
    BY <1>1, ShownNext DEF Goes, NeverBack
  <1>2. Before /\ ShownInv /\ [Next]_vars => Before' /\ ShownInv' BY TypesNext, ShownNext DEF Goes
  <1>3. Init => Before /\ ShownInv BY KeptInit, RegistryInit, TypesInit, ShownInit DEF Before
  <1>4. QED BY <1>1, <1>2, <1>3, PTL DEF Spec, ShownNeverGoesBack

=============================================================================
