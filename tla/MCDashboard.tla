---------------------------- MODULE MCDashboard -----------------------------
(***************************************************************************)
(* The pages and dialogs of the dashboard that are modelled, for one run   *)
(* of TLC.  They share no state, so they are run side by side and not      *)
(* together: page says which one a behaviour is about.                     *)
(***************************************************************************)
EXTENDS CoreEditor, UserSearch, NodeLogs, RealityScan, PanelWizard

VARIABLE page

dashboardVars == <<page, editorVars, searchVars, logsVars, scanVars, wizardVars>>

DashboardInit ==
    /\ page \in {"editor", "search", "logs", "scan", "wizard"}
    /\ EditorInit /\ SearchInit /\ LogsInit /\ ScanInit /\ WizardInit

Editor == page = "editor" /\ UNCHANGED <<page, searchVars, logsVars, scanVars, wizardVars>>
Search == page = "search" /\ UNCHANGED <<page, editorVars, logsVars, scanVars, wizardVars>>
Logs   == page = "logs" /\ UNCHANGED <<page, editorVars, searchVars, scanVars, wizardVars>>
Scan   == page = "scan" /\ UNCHANGED <<page, editorVars, searchVars, logsVars, wizardVars>>
Wizard == page = "wizard" /\ UNCHANGED <<page, editorVars, searchVars, logsVars, scanVars>>

DashboardNext ==
    \/ Editor /\ EditorNext
    \/ Search /\ SearchNext
    \/ Logs /\ LogsNext
    \/ Scan /\ ScanNext
    \/ Wizard /\ WizardNext

\* A timer fires, and a request that was sent is answered or times out.
DashboardSpec ==
    /\ DashboardInit
    /\ [][DashboardNext]_dashboardVars
    /\ WF_dashboardVars(Editor /\ ApplyText)
    /\ \A k \in Scans : WF_dashboardVars(Scan /\ ScanStep(k))

\* The type invariants of the five modules.
DashboardTypeOK == EditorTypeOK /\ SearchTypeOK /\ LogsTypeOK /\ ScanTypeOK /\ WizardTypeOK
=============================================================================
