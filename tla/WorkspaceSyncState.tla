------------------------- MODULE WorkspaceSyncState -------------------------
(***************************************************************************)
(* The versions that sending and receiving move, and what is promised of   *)
(* them.  The panel, its workflows and their calls are in WorkspaceSync.   *)
(***************************************************************************)
EXTENDS Integers, SequencesExt

VARIABLES
    local,          \* the data of this computer: a version number
    head,           \* the versions committed in the clone
    remote,         \* the versions at the remote
    upstream,       \* the branch has an upstream
    flow,           \* the workflows of every panel
    lost            \* history: versions that another workflow overwrote before a commit

\* A send that says so has published what it read: the version is in the history of the
\* remote, although the file is written, committed and pushed by separate calls between
\* which other workflows save, pull and push, and other computers push. Exempt are a send
\* whose settings were edited meanwhile, and a version that a later save replaced.
SentIsPublished ==
    [][\A i \in DOMAIN flow : \A s \in DOMAIN flow[i] :
          LET fl == flow[i][s] IN
          fl.kind = "send" /\ fl.step = "answered" /\ fl.ok /\ flow'[i][s].step = "idle"
              => fl.astray \/ fl.content \in lost \/ fl.content \in ToSet(remote)]_flow

\* A receive that fetched and says so has the fetched versions, or refused: what it loads
\* comes from a clone that contains the tip it fetched, whatever failed before or meanwhile.
\* Exempt are a receive whose settings were edited or whose own inspection was superseded or
\* failed, and a branch without upstream, for which it cannot know that it is behind.
ReceivedIsCurrent ==
    [][\A i \in DOMAIN flow : \A s \in DOMAIN flow[i] :
          LET fl == flow[i][s] IN
          fl.kind = "receive" /\ fl.step = "import" /\ fl.action \in {"fetch", "pull"}
              => fl.astray \/ ~upstream \/ fl.tip \in ToSet(head)]_local

\* What was reported as sent is at the remote, what is received is not older than it
\* (SyncSettingsPanel.svelte, workspace_sync_git.rs).
SyncIsExact == SentIsPublished /\ ReceivedIsCurrent
=============================================================================
