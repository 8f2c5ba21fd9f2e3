------------------------------ MODULE Readers ------------------------------
(***************************************************************************)
(* The view of a pact with one reader: the change feed, a walk over the    *)
(* pages of a list, a page of the dashboard, the prompt hook, or requests  *)
(* that install skills.  Readers of different kinds do not meet, so a      *)
(* behaviour has one kind of them.                                         *)
(***************************************************************************)
EXTENDS ChangeFeed, ListPages, Dashboard, PromptHook, InstalledSkills

VARIABLE reader

vars == <<reader, viewVars, feedVars, listVars, dashboardVars, hookVars,
          skillVars>>

\* Installers meet a pact whose entries are all there: what comes later only
\* adds skills to choose from.
FullView == view = Entries /\ applied = {} /\ updating = FALSE /\ late = {}

Init ==
    /\ reader \in {"feed", "list", "page", "hook", "installer"}
    /\ IF reader = "installer" THEN FullView ELSE ViewInit
    /\ FeedInit /\ (reader # "feed" => at = "ready")
    /\ ListInit /\ (reader # "list" => order = "asc" /\ wanted = {})
    /\ DashboardInit
    /\ HookInit
    /\ InstallInit

ApplyEntry ==
    /\ \E e \in Entries : Apply(e)
    /\ IF reader = "page" THEN Emit ELSE UNCHANGED dashboardVars
    /\ UNCHANGED <<reader, feedVars, listVars, hookVars, skillVars>>

CommitView ==
    /\ Commit
    /\ IF reader = "feed" THEN FeedCommit ELSE UNCHANGED feedVars
    /\ IF reader = "list" THEN ListCommit ELSE UNCHANGED listVars
    /\ IF reader = "hook" THEN HookCommit ELSE UNCHANGED hookVars
    /\ UNCHANGED <<reader, dashboardVars, skillVars>>

EmitUpdate ==
    /\ Update
    /\ IF reader = "feed" THEN FeedUpdate ELSE UNCHANGED feedVars
    /\ IF reader = "page" THEN Emit ELSE UNCHANGED dashboardVars
    /\ UNCHANGED <<reader, listVars, hookVars, skillVars>>

FeedReads ==
    /\ reader = "feed" /\ FeedStep
    /\ UNCHANGED <<reader, viewVars, listVars, dashboardVars, hookVars, skillVars>>

ListReads ==
    /\ reader = "list" /\ ListStep
    /\ UNCHANGED <<reader, viewVars, feedVars, dashboardVars, hookVars, skillVars>>

PageReads ==
    /\ reader = "page" /\ DashboardStep
    /\ UNCHANGED <<reader, viewVars, feedVars, listVars, hookVars, skillVars>>

HookReads ==
    /\ reader = "hook" /\ HookStep
    /\ UNCHANGED <<reader, viewVars, feedVars, listVars, dashboardVars, skillVars>>

InstallerRuns ==
    /\ reader = "installer" /\ InstallStep
    /\ UNCHANGED <<reader, viewVars, feedVars, listVars, dashboardVars, hookVars>>

Next ==
    \/ ApplyEntry \/ CommitView \/ EmitUpdate
    \/ FeedReads \/ ListReads \/ PageReads \/ HookReads \/ InstallerRuns

Spec == Init /\ [][Next]_vars

---------------------------------------------------------------------------
(* Fairness: events are emitted, scans end, the wait has a timer, and the  *)
(* client goes on polling.                                                 *)

Polls ==
    /\ reader = "feed" /\ (Seek \/ Poll \/ Scan \/ Elapse)
    /\ UNCHANGED <<reader, viewVars, listVars, dashboardVars, hookVars, skillVars>>

FairSpec == Spec /\ WF_vars(EmitUpdate) /\ WF_vars(Polls)

---------------------------------------------------------------------------

TypeOK ==
    /\ reader \in {"feed", "list", "page", "hook", "installer"}
    /\ ViewTypeOK /\ FeedTypeOK /\ ListTypeOK /\ DashboardTypeOK /\ HookTypeOK
    /\ InstallTypeOK

\* Every entry is delivered or passed over, and FeedIsExact says which may be
\* passed over: an update that nobody heard, between a scan and the wait, only
\* delays an entry.
FeedDelivers ==
    \A e \in Entries : (reader = "feed" /\ e \in view) ~> (e <= cursor)
=============================================================================
