-------------------------- MODULE WorkspaceAccess ---------------------------
(***************************************************************************)
(* Access to one workspace: unlocking it by its password, idle and explicit *)
(* locks (workspace-unlock.ts), and its secret vault. The native side keeps *)
(* the session (secret_vault_session.rs), the interface a view of it that   *)
(* every use of a secret reads (environment-vault-session.ts), the vault    *)
(* panel edits it and saves the encrypted envelope                          *)
(* (EnvironmentVaultPanel.svelte), and other parts of the interface open it *)
(* with the workspace password (environment-vault-session-loader.ts).       *)
(*                                                                          *)
(* Native commands are synchronous: the main thread executes them in the    *)
(* order they were sent, and their answers arrive in that order.            *)
(***************************************************************************)
EXTENDS Integers, SequencesExt

CONSTANTS
    None,           \* no session, no envelope, no panel
    MaxAttempts,    \* WORKSPACE_UNLOCK_MAX_ATTEMPTS
    MaxMade,        \* bound: sessions opened and contents made
    MaxInputs,      \* bound: what users and timers ask for
    MaxFailures     \* bound: commands that fail

Names == 1..MaxMade
Sessions == [gen : Names, content : Names]
Panels == [busy : BOOLEAN, read : BOOLEAN, auto : BOOLEAN,
           env : Names \cup {None}, vault : Sessions \cup {None}]

\* What the constants must be.
AccessConstants ==
    /\ MaxAttempts \in Nat \ {0}
    /\ MaxMade \in Nat /\ MaxInputs \in Nat /\ MaxFailures \in Nat
    /\ None \notin Panels

VARIABLES
    session,    \* environment_vault_sessions: reference generation and content
    file,       \* the content of the envelope in the workspace folder
    view,       \* environmentVaultSessions of the interface
    closing,    \* closingCount of the current lifetime
    asked,      \* commands sent and not executed
    answered,   \* commands executed whose answer has not arrived
    panel,      \* the state of the mounted vault panel, or None
    unlocked,   \* unlockedWorkspaceSessions has the workspace
    verifying,  \* verifications under way
    current,    \* pendingWorkspaceVerifications
    attempts, cooling,  \* the attempt record, and whether lockedUntil is ahead
    locks,      \* number of times the workspace was locked (history)
    made, inputs, failures  \* bounded: names drawn, inputs and failures so far

vaultVars == <<session, file, view, closing, asked, answered, panel, made>>
unlockVars == <<unlocked, verifying, current, attempts, cooling, locks>>
vars == <<vaultVars, unlockVars, inputs, failures>>

VaultOps == {"open", "create", "mutate"}

\* "by" is the flow that waits for the answer. "live" says that the lifetime the
\* command was sent under is still the current one, "env" is the envelope it
\* carries or brings back, "out" the session it left.
Commands == [op : VaultOps \cup {"close", "read", "write"},
             by : {"init", "reopen", "op", "failed", "lockVault", "lock", "orphan",
                   "gone", "consumer"},
             live : BOOLEAN, ok : BOOLEAN,
             env : Names \cup {None}, out : Sessions \cup {None}]

TypeOK ==
    /\ session \in Sessions \cup {None} /\ view \in Sessions \cup {None}
    /\ file \in Names \cup {None}
    /\ closing \in Nat
    /\ asked \in Seq(Commands) /\ answered \in Seq(Commands)
    /\ panel \in Panels \cup {None}
    /\ unlocked \in BOOLEAN /\ cooling \in BOOLEAN
    /\ verifying \subseteq [id : 1..MaxInputs, right : BOOLEAN, since : Nat]
    /\ current \in 0..MaxInputs
    /\ attempts \in 0..MaxAttempts
    /\ locks \in Nat /\ made \in 0..MaxMade
    /\ inputs \in 0..MaxInputs /\ failures \in 0..MaxFailures

-----------------------------------------------------------------------------
(* Sending. The operators below describe the whole effect of a step on the  *)
(* view and the commands as a record, so that a handler can chain them.     *)

Command(op, by, env) ==
    [op |-> op, by |-> by, live |-> TRUE, ok |-> TRUE, env |-> env, out |-> None]

Quiet == [view |-> view, closing |-> closing, asked |-> asked, answered |-> answered,
          panel |-> panel]
World == [Quiet EXCEPT !.answered = Tail(@)]   \* while an answer is taken

Become(w) ==
    /\ view' = w.view /\ closing' = w.closing /\ asked' = w.asked
    /\ answered' = w.answered /\ panel' = w.panel

Send(w, op, by, env) == [w EXCEPT !.asked = Append(@, Command(op, by, env))]

\* closeEnvironmentVaultSession: a new lifetime silences what is pending.
Close(w, by, env) ==
    LET silence(s) == [i \in DOMAIN s |-> [s[i] EXCEPT !.live = FALSE]]
    IN  [w EXCEPT !.view = None, !.closing = @ + 1,
                  !.asked = Append(silence(@), Command("close", by, env)),
                  !.answered = silence(@)]

\* Mutant: commands are sent while a close is under way.
Sendable_Always(w) == TRUE

\* invokeVaultCommand: nothing is sent while a close is under way.
Sendable(w) == w.closing = 0

\* resetLocalVaultState and vaultReadSucceeded.
Reset(w, env) ==
    [w EXCEPT !.panel = [@ EXCEPT !.read = TRUE, !.auto = FALSE, !.env = env, !.vault = None]]

\* tryOpenVaultWithWorkspaceSession and createAndPersistVault up to their await,
\* after a reset.
TryOpen(w) ==
    IF w.panel.busy \/ ~unlocked THEN w
    ELSE LET tried == [w EXCEPT !.panel.auto = TRUE]
         IN  IF ~Sendable(w) THEN tried
             ELSE Send([tried EXCEPT !.panel.busy = TRUE],
                       IF w.panel.env = None THEN "create" ELSE "open", "op", w.panel.env)

\* The effect of the panel is torn down: writes under way go on without it.
Teardown(w) ==
    LET leave(s) == [i \in DOMAIN s |->
                        [s[i] EXCEPT !.by = IF @ \in {"consumer", "lock", "orphan"} THEN @
                                            ELSE IF s[i].op = "write" THEN "orphan" ELSE "gone"]]
    IN  Close([w EXCEPT !.panel = None, !.asked = leave(@), !.answered = leave(@)],
              "gone", None)

-----------------------------------------------------------------------------
(* The main thread.                                                         *)

\* Every command that may fail (a wrong password, an unreadable file, a full
\* disk, a duplicate name) fails as a whole.
Outcome(c, ok) ==
    LET new == [gen |-> made + 1, content |-> made + 1] IN
    IF ~ok \/ (c.op = "mutate" /\ session = None) THEN [c EXCEPT !.ok = FALSE]
    ELSE CASE c.op = "open" -> [c EXCEPT !.out = [gen |-> made + 1, content |-> c.env]]
           [] c.op = "create" -> [c EXCEPT !.out = new, !.env = made + 1]
           [] c.op = "mutate" -> [c EXCEPT !.out = [session EXCEPT !.content = made + 1],
                                           !.env = made + 1]
           [] c.op = "read" -> [c EXCEPT !.env = file]
           [] OTHER -> c

Execute(ok) ==
    /\ asked # <<>>
    /\ LET before == Head(asked)
           c == Outcome(before, ok)
           makes == before.op \in VaultOps /\ c.ok
       IN
       /\ ~ok => c.op # "close" /\ failures < MaxFailures
       /\ failures' = IF ok THEN failures ELSE failures + 1
       /\ asked' = Tail(asked)
       /\ answered' = Append(answered, c)
       /\ session' = IF c.op = "close" THEN None ELSE IF makes THEN c.out ELSE session
       /\ file' = IF c.op = "write" /\ c.ok THEN c.env ELSE file
       /\ makes => made < MaxMade
       /\ made' = IF makes THEN made + 1 ELSE made
    /\ UNCHANGED <<view, closing, panel, unlockVars, inputs>>

-----------------------------------------------------------------------------
(* Answers: each action is the code of one flow from one await to the next. *)

Arrived(by, ops) == answered # <<>> /\ Head(answered).by = by /\ Head(answered).op \in ops
Answer == Head(answered)

\* Mutant: an answer of an earlier lifetime counts.
Current_AnyLifetime(c) == c.ok

\* isCurrent of invokeVaultCommand, and its ok.
Current(c) == c.live /\ closing = 0 /\ c.ok

\* setEnvironmentVaultSession.
Seen(c) == IF Current(c) THEN [World EXCEPT !.view = c.out] ELSE World

\* Mutant: an answered close is counted off twice.
Closed_Twice == [World EXCEPT !.closing = @ - 2]

Closed == [World EXCEPT !.closing = @ - 1]

\* initializeVault reads the envelope, then resets the panel and tries to open.
InitialClosed ==
    /\ Arrived("init", {"close"})
    /\ Become(Send(Closed, "read", "init", None))
    /\ UNCHANGED <<session, file, made, unlockVars, inputs, failures>>

InitialRead ==
    /\ Arrived("init", {"read"})
    /\ Become(IF Answer.ok THEN TryOpen(Reset(World, Answer.env)) ELSE World)
    /\ UNCHANGED <<session, file, made, unlockVars, inputs, failures>>

\* reopenVault: another writer changed the envelope.
Reopened ==
    /\ Arrived("reopen", {"close"})
    /\ Become(TryOpen(Reset(Closed, Answer.env)))
    /\ UNCHANGED <<session, file, made, unlockVars, inputs, failures>>

PanelOpened ==
    /\ Arrived("op", {"open"})
    /\ LET w == Seen(Answer) IN
       Become([w EXCEPT !.panel.busy = FALSE,
                        !.panel.vault = IF Current(Answer) THEN Answer.out ELSE @])
    /\ UNCHANGED <<session, file, made, unlockVars, inputs, failures>>

\* persistVaultMutation starts the write of the envelope.
PanelMutated ==
    /\ Arrived("op", {"create", "mutate"})
    /\ LET w == Seen(Answer) IN
       Become(IF Current(Answer)
              THEN [w EXCEPT !.asked = Append(@, [Command("write", "op", Answer.env)
                                                     EXCEPT !.out = Answer.out])]
              ELSE [w EXCEPT !.panel.busy = FALSE])
    /\ UNCHANGED <<session, file, made, unlockVars, inputs, failures>>

\* A write that failed revokes the session it does not match.
PanelWritten ==
    /\ Arrived("op", {"write"})
    /\ Become(IF Answer.ok
              THEN [World EXCEPT !.panel = [@ EXCEPT !.busy = FALSE, !.env = Answer.env,
                                                     !.vault = Answer.out]]
              ELSE Close(World, "failed", panel.env))
    /\ UNCHANGED <<session, file, made, unlockVars, inputs, failures>>

FailureClosed ==
    /\ Arrived("failed", {"close"})
    /\ Become([Closed EXCEPT !.panel = [@ EXCEPT !.busy = FALSE, !.env = Answer.env,
                                                 !.vault = None]])
    /\ UNCHANGED <<session, file, made, unlockVars, inputs, failures>>

\* The write of a panel that is gone: its event reaches the panel of today, which
\* takes the envelope over when busy and starts over when not.
OrphanWritten ==
    /\ Arrived("orphan", {"write"})
    /\ Become(IF ~Answer.ok THEN Close(World, "gone", None)
              ELSE IF panel = None THEN World
              ELSE IF panel.busy THEN [World EXCEPT !.panel.env = Answer.env]
              ELSE Close([World EXCEPT !.panel.read = FALSE], "reopen", Answer.env))
    /\ UNCHANGED <<session, file, made, unlockVars, inputs, failures>>

\* The end of handleLockVault.
VaultLocked ==
    /\ Arrived("lockVault", {"close"})
    /\ Become(LET w == Reset(Closed, panel.env)
              IN  [w EXCEPT !.panel.busy = FALSE, !.panel.read = panel.read])
    /\ UNCHANGED <<session, file, made, unlockVars, inputs, failures>>

Dropped ==
    /\ answered # <<>> /\ Answer.by = "gone"
    /\ Become(IF Answer.op = "close" THEN Closed ELSE World)
    /\ UNCHANGED <<session, file, made, unlockVars, inputs, failures>>

\* Mutant: the verification under way survives the lock.
MarkLocked_KeepsVerification ==
    /\ unlocked' = FALSE
    /\ current' = current
    /\ locks' = locks + 1

\* markWorkspaceLocked: it revokes the verification under way as well.
MarkLocked ==
    /\ unlocked' = FALSE
    /\ current' = 0
    /\ locks' = locks + 1

\* lockWorkspaceEnvironmentVaultSession after its close; the gate then takes the
\* panel away.
WorkspaceLocked ==
    /\ Arrived("lock", {"close"})
    /\ MarkLocked
    /\ Become(IF panel = None THEN Closed ELSE Teardown(Closed))
    /\ UNCHANGED <<session, file, made, verifying, attempts, cooling, inputs, failures>>

\* openEnvironmentVaultSessionFromWorkspaceUnlock after the read and after the open.
ConsumerRead ==
    /\ Arrived("consumer", {"read"})
    /\ Become(IF Answer.ok /\ Answer.env # None /\ unlocked /\ Sendable(World)
              THEN Send(World, "open", "consumer", Answer.env) ELSE World)
    /\ UNCHANGED <<session, file, made, unlockVars, inputs, failures>>

ConsumerOpened ==
    /\ Arrived("consumer", {"open"})
    /\ Become(Seen(Answer))
    /\ UNCHANGED <<session, file, made, unlockVars, inputs, failures>>

Answers ==
    \/ InitialClosed \/ InitialRead \/ Reopened \/ PanelOpened \/ PanelMutated
    \/ PanelWritten \/ FailureClosed \/ OrphanWritten \/ VaultLocked \/ Dropped
    \/ WorkspaceLocked \/ ConsumerRead \/ ConsumerOpened

-----------------------------------------------------------------------------
(* Users and timers.                                                        *)

Ask == inputs < MaxInputs /\ inputs' = inputs + 1

OpenPanel ==
    /\ Ask /\ unlocked /\ panel = None
    /\ Become(Close([Quiet EXCEPT !.panel = [busy |-> FALSE, read |-> FALSE, auto |-> FALSE,
                                             env |-> None, vault |-> None]], "init", None))
    /\ UNCHANGED <<session, file, made, unlockVars, failures>>

ClosePanel ==
    /\ Ask /\ panel # None
    /\ Become(Teardown(Quiet))
    /\ UNCHANGED <<session, file, made, unlockVars, failures>>

\* handleVaultSubmit with a password of the user's.
SubmitVault ==
    /\ Ask /\ panel # None /\ panel.read /\ ~panel.busy /\ panel.vault = None
    /\ Sendable(Quiet)
    /\ Become(Send([Quiet EXCEPT !.panel.busy = TRUE],
                   IF panel.env = None THEN "create" ELSE "open", "op", panel.env))
    /\ UNCHANGED <<session, file, made, unlockVars, failures>>

\* handleSecretSubmit and handleRemoveSecret.
MutateSecret ==
    /\ Ask /\ panel # None /\ ~panel.busy /\ panel.vault # None
    /\ Sendable(Quiet)
    /\ Become(Send([Quiet EXCEPT !.panel.busy = TRUE], "mutate", "op", None))
    /\ UNCHANGED <<session, file, made, unlockVars, failures>>

LockVault ==
    /\ Ask /\ panel # None /\ ~panel.busy
    /\ Become(Close([Quiet EXCEPT !.panel.busy = TRUE], "lockVault", None))
    /\ UNCHANGED <<session, file, made, unlockVars, failures>>

\* The settings page, or the shell for a workspace that was idle for too long.
LockWorkspace ==
    /\ Ask /\ unlocked
    /\ Become(Close(Quiet, "lock", None))
    /\ UNCHANGED <<session, file, made, unlockVars, failures>>

ConsumerOpens ==
    /\ Ask /\ view = None
    /\ ~\E c \in ToSet(asked \o answered) : c.by = "consumer"
    /\ Become(Send(Quiet, "read", "consumer", None))
    /\ UNCHANGED <<session, file, made, unlockVars, failures>>

\* unlockWorkspace up to its await: a newer verification replaces the one before.
BeginVerification(right) ==
    /\ Ask /\ ~unlocked /\ ~cooling
    /\ verifying' = verifying \cup {[id |-> inputs', right |-> right, since |-> locks]}
    /\ current' = inputs'
    /\ UNCHANGED <<vaultVars, unlocked, attempts, cooling, locks, failures>>

\* The form is cancelled or gone: its AbortSignal.
AbandonVerification(v) ==
    /\ Ask /\ v \in verifying
    /\ verifying' = verifying \ {v}
    /\ current' = IF current = v.id THEN 0 ELSE current
    /\ UNCHANGED <<vaultVars, unlocked, attempts, cooling, locks, failures>>

IsCurrentVerification(v) == current = v.id

\* The rest of unlockWorkspace, with recordWorkspaceUnlockFailure.
FinishVerification(v) ==
    /\ v \in verifying
    /\ verifying' = verifying \ {v}
    /\ IF ~IsCurrentVerification(v) THEN UNCHANGED <<unlocked, current, attempts, cooling>>
       ELSE /\ current' = 0
            /\ unlocked' = v.right
            /\ attempts' = IF v.right THEN 0
                           ELSE IF attempts = MaxAttempts THEN attempts ELSE attempts + 1
            /\ cooling' = (~v.right /\ attempts' = MaxAttempts)
    /\ UNCHANGED <<vaultVars, locks, inputs, failures>>

CooldownEnds ==
    /\ cooling
    /\ cooling' = FALSE
    /\ UNCHANGED <<vaultVars, unlocked, verifying, current, attempts, locks, inputs, failures>>

-----------------------------------------------------------------------------
Init ==
    /\ session = None /\ view = None /\ file = None
    /\ closing = 0 /\ asked = <<>> /\ answered = <<>> /\ panel = None
    /\ unlocked = TRUE   \* by its registration, or an earlier verification
    /\ verifying = {} /\ current = 0 /\ attempts = 0 /\ cooling = FALSE
    /\ locks = 0 /\ made = 0 /\ inputs = 0 /\ failures = 0

Next ==
    \/ \E ok \in BOOLEAN : Execute(ok)
    \/ Answers
    \/ OpenPanel \/ ClosePanel \/ SubmitVault \/ MutateSecret \/ LockVault
    \/ LockWorkspace \/ ConsumerOpens
    \/ \E right \in BOOLEAN : BeginVerification(right)
    \/ \E v \in verifying : AbandonVerification(v) \/ FinishVerification(v)
    \/ CooldownEnds

Spec == Init /\ [][Next]_vars

-----------------------------------------------------------------------------
(* Properties.                                                              *)

Closes(s) == Cardinality({i \in DOMAIN s : s[i].op = "close"})

\* Once nothing is under way, the view the interface resolves secrets through is
\* the native session, generation and content, or neither exists: no answer of an
\* earlier lifetime and no close that overtakes it leaves a view whose references
\* are refused, or a session the interface takes for closed. The interface counts
\* the closes under way exactly (environment-vault-session.ts).
QuietViewIsSession ==
    /\ closing = Closes(asked) + Closes(answered)
    /\ asked = <<>> /\ answered = <<>> => view = session

\* A workspace is published as locked only when the native session is gone and
\* nothing under way brings one back, whatever panels and consumers were doing;
\* and only a right password verified since the last lock, outside a cooldown,
\* unlocks it again (workspace-unlock.ts).
LockIsFinal ==
    [][/\ unlocked /\ ~unlocked' =>
            /\ session = None
            /\ \A c \in ToSet(asked' \o answered') : c.op \in VaultOps => ~c.live
       /\ ~unlocked /\ unlocked' =>
            ~cooling /\ \E v \in verifying : v.right /\ v.since = locks]_vars
=============================================================================
