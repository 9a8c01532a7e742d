---------------------------- MODULE BriefEvidence ----------------------------
(***************************************************************************)
(* What the page of a brief tells of the work orders linked to it.  The    *)
(* evidence is a listing of the queue and then one read after the other,   *)
(* while the queue goes on changing; a file that cannot be read makes the  *)
(* lookup incomplete.  What is shown stays until the next refresh, and     *)
(* links are made from it.                                                 *)
(***************************************************************************)
EXTENDS QueueFolder

CONSTANT DiscoveryLimit   \* files that are looked at without a link to them

ASSUME DiscoveryAssumption == DiscoveryLimit \in Nat

VARIABLES
    links,       \* brief run links: repository of the brief, linked work order
    evidence,    \* what the page has read
    throughout,  \* history: the files that the brief had ever since the listing
    sometime     \* history: the orders meant for its repository at some time since then

briefVars == <<links, evidence, throughout, sometime>>

\* selected: the orders linked at the refresh; view: the files to read that are within the
\* discovery limit; found: the status of the orders that name the repository; reported:
\* the orders with a report; failed: queueLookupIncomplete; partial: files were not in view.
Evidence ==
    [repository : Repositories, selected : SUBSET OrderNames,
     toRead : SUBSET (OrderNames \cup ReportNames), view : SUBSET (OrderNames \cup ReportNames),
     found : [OrderNames -> Statuses \cup {None}], reported : SUBSET OrderNames,
     failed : BOOLEAN, partial : BOOLEAN]

ASSUME EvidenceAssumption == None \notin Evidence \cup Statuses

NoEvidence == links = {} /\ evidence = None /\ throughout = {} /\ sometime = {}
BriefInit == FolderInit /\ NoEvidence

Collecting == evidence # None /\ evidence.toRead # {}
Shown(p) == evidence # None /\ evidence.toRead = {} /\ evidence.repository = p

\* The orders that name a repository and the reports; the orders that were meant to.
There(p) == {n \in OrderFiles : orders[n].repository = p} \cup ReportFiles
Meant(p) == {n \in DOMAIN asked : asked[n] # None /\ asked[n].repository = p}

-----------------------------------------------------------------------------
(* Collecting *)

\* refresh aborts the one before it. readBriefRunEvidence: the listing is sorted by path,
\* reports come first; without a link only the files in view are read.
Refresh(p) ==
    LET files == OrderFiles \cup ReportFiles
        selected == {n \in OrderNames : <<p, n>> \in links}
        blank == [repository |-> p, selected |-> selected, toRead |-> {}, view |-> {},
                  found |-> [n \in OrderNames |-> None], reported |-> {},
                  failed |-> ~Listable, partial |-> FALSE]
    IN
    /\ \/ ~Listable /\ evidence' = blank
       \/ /\ Listable
          /\ \E view \in SUBSET files :
                /\ view = files \/ Cardinality(view) = DiscoveryLimit
                /\ Cardinality(view) <= DiscoveryLimit
                /\ view \cap OrderFiles = {} \/ ReportFiles \subseteq view
                /\ evidence' = [blank EXCEPT !.view = view, !.partial = view # files,
                                              !.toRead = IF selected = {} THEN view ELSE files]
    /\ throughout' = There(p)
    /\ sometime' = Meant(p)
    /\ UNCHANGED <<folderVars, links>>

\* Mutant: a link to a file beyond the discovery limit finds nothing.
Counts_Discovered(e, f, n) == f \in e.view

\* Whether a file counts that is work order n or reports on it: a link bypasses the limit.
Counts(e, f, n) == f \in e.view \/ n \in e.selected

\* readQueueFile refuses a file that is gone or too large.
ReadFile(f) ==
    LET rest == [evidence EXCEPT !.toRead = @ \ {f}, !.view = @ \ {f}] IN
    /\ evidence # None /\ f \in evidence.toRead
    /\ \/ /\ f \in OrderFiles
          /\ evidence' = IF Counts(evidence, f, f) /\ orders[f].repository = evidence.repository
                         THEN [rest EXCEPT !.found[f] = orders[f].status] ELSE rest
       \/ /\ f \in ReportFiles /\ reports[f].fits
          /\ evidence' = IF Counts(evidence, f, reports[f].order) /\ reports[f].sameTasks
                         THEN [rest EXCEPT !.reported = @ \cup {reports[f].order}] ELSE rest
       \/ evidence' = [rest EXCEPT !.failed = TRUE]
    /\ UNCHANGED <<folderVars, links, throughout, sometime>>

-----------------------------------------------------------------------------
(* Links and what is told of them *)

\* listBriefRunCandidates offers nothing from incomplete evidence; addBriefRunLink.
LinkBrief(p, n) ==
    /\ Shown(p)
    /\ ~evidence.failed /\ ~evidence.partial
    /\ evidence.found[n] # None
    /\ <<p, n>> \notin links
    /\ links' = links \cup {<<p, n>>}
    /\ UNCHANGED <<folderVars, evidence, throughout, sometime>>

UnlinkBrief(p, n) ==
    /\ Shown(p)
    /\ <<p, n>> \in links
    /\ links' = links \ {<<p, n>>}
    /\ UNCHANGED <<folderVars, evidence, throughout, sometime>>

\* deriveBriefGate with findLinkedWorkOrder and findLinkedReports: the reason it shows.
Gate(n) ==
    IF evidence.failed /\ n \in evidence.selected THEN "unavailable"
    ELSE IF evidence.found[n] = None THEN "missing"
    ELSE IF evidence.found[n] = "failed" THEN "executionFailed"
    ELSE IF evidence.found[n] = "running" THEN "running"
    ELSE IF n \in evidence.reported THEN "reportNeedsReview" ELSE "unverified"

-----------------------------------------------------------------------------

\* What changes in the queue while the evidence is collected.
QueueChanges ==
    /\ FolderNext
    /\ UNCHANGED <<links, evidence>>
    /\ IF Collecting
       THEN /\ throughout' = throughout \cap There(evidence.repository)'
            /\ sometime' = sometime \cup Meant(evidence.repository)'
       ELSE UNCHANGED <<throughout, sometime>>

BriefNext ==
    \/ QueueChanges
    \/ \E p \in Repositories : Refresh(p) \/ (\E n \in OrderNames : LinkBrief(p, n) \/ UnlinkBrief(p, n))
    \/ \E f \in OrderNames \cup ReportNames : ReadFile(f)

BriefSpec == BriefInit /\ [][BriefNext]_<<folderVars, briefVars>>

-----------------------------------------------------------------------------
(* Properties *)

\* The type invariant.
BriefTypeOK ==
    /\ FolderTypeOK
    /\ links \subseteq Repositories \X OrderNames
    /\ evidence \in Evidence \cup {None}
    /\ throughout \subseteq OrderNames \cup ReportNames /\ sometime \subseteq OrderNames

\* What a brief says of a linked work order holds up although files change between the
\* reads: a state of the run is told only of work that was meant for the brief's repository
\* while the evidence was collected, an order that was there all along is never missing,
\* and a report that was there all along is never overlooked (readBriefRunEvidence).
GateIsGrounded ==
    \A p \in Repositories, n \in OrderNames :
        Shown(p) /\ <<p, n>> \in links =>
            /\ Gate(n) \in {"executionFailed", "running", "reportNeedsReview"} => n \in sometime
            /\ Gate(n) = "missing" => n \notin throughout
            /\ Gate(n) = "unverified" =>
                  \A r \in throughout \cap ReportFiles : reports[r].order = n => ~reports[r].sameTasks
=============================================================================
