---------------------------- MODULE RealityScan -----------------------------
(***************************************************************************)
(* The dialog that probes a list of targets (reality-scan-dialog.tsx).  A  *)
(* scan is an asynchronous job with a pool of workers; closing the dialog, *)
(* opening it again and Stop abort the scan, whose requests may still be   *)
(* answered afterwards, while the next scan is running.                    *)
(***************************************************************************)
EXTENDS Naturals, FiniteSets

CONSTANTS
    Targets,
    Pool,          \* SCAN_CONCURRENCY
    MaxScans,      \* bound on the scans that exist at once
    NoScan

ASSUME RealityScanAssumption ==
    /\ Pool \in Nat \ {0} /\ MaxScans \in Nat \ {0}
    /\ NoScan \notin 1..MaxScans

VARIABLES
    dialog,        \* open
    list,          \* targets
    rows,          \* rows[t]: the status shown for target t
    isScanning,
    abortRef,      \* the scan whose controller the dialog holds
    scans          \* scans[k]: the job number k

scanVars == <<dialog, list, rows, isScanning, abortRef, scans>>

Scans == 1..MaxScans
NoJob == [runs |-> FALSE, waiting |-> {}, busy |-> {}, aborted |-> FALSE]

ScanInit ==
    /\ dialog = FALSE
    /\ list = {}
    /\ rows = [t \in Targets |-> "none"]
    /\ isScanning = FALSE
    /\ abortRef = NoScan
    /\ scans = [k \in Scans |-> NoJob]

\* abortRef.current?.abort(); abortRef.current = null
Aborted == IF abortRef = NoScan THEN scans ELSE [scans EXCEPT ![abortRef].aborted = TRUE]

\* The effect on open, for a dialog that opens.
OpenScan(initial) ==
    /\ ~dialog
    /\ dialog' = TRUE
    /\ scans' = Aborted /\ abortRef' = NoScan
    /\ list' = initial
    /\ rows' = [t \in Targets |-> "none"]
    /\ isScanning' = FALSE

\* The effect on open, for a dialog that closes: the rows stay.
CloseScan ==
    /\ dialog
    /\ dialog' = FALSE
    /\ scans' = Aborted /\ abortRef' = NoScan
    /\ isScanning' = FALSE
    /\ UNCHANGED <<list, rows>>

StopScan ==
    /\ dialog /\ isScanning
    /\ scans' = Aborted /\ abortRef' = NoScan
    /\ isScanning' = FALSE
    /\ UNCHANGED <<dialog, list, rows>>

\* The field of the targets is disabled while a scan is running.
EditTargets(S) ==
    /\ dialog /\ ~isScanning
    /\ S # list
    /\ list' = S
    /\ UNCHANGED <<dialog, rows, isScanning, abortRef, scans>>

\* runScan up to its first await: the workers of the pool have taken the targets in first.
StartScan(k, first) ==
    /\ dialog /\ ~isScanning
    /\ list # {}
    /\ ~scans[k].runs
    /\ first \subseteq list
    /\ Cardinality(first) = IF Cardinality(list) < Pool THEN Cardinality(list) ELSE Pool
    /\ scans' = [Aborted EXCEPT ![k] =
                    [runs |-> TRUE, waiting |-> list \ first, busy |-> first, aborted |-> FALSE]]
    /\ abortRef' = k
    /\ isScanning' = TRUE
    /\ rows' = [t \in Targets |-> IF t \in first THEN "scanning"
                                  ELSE IF t \in list THEN "pending" ELSE "none"]
    /\ UNCHANGED <<dialog, list>>

\* Mutant of Patched: a late answer of an aborted scan is shown.
PatchedAlways(k, t, status, next) ==
    [u \in Targets |-> IF u = t /\ rows[t] # "none" THEN status
                       ELSE IF u \in next /\ rows[u] # "none" THEN "scanning" ELSE rows[u]]

\* patch: nothing changes once the scan is aborted.
Patched(k, t, status, next) ==
    IF scans[k].aborted THEN rows
    ELSE [u \in Targets |-> IF u = t THEN status ELSE IF u \in next THEN "scanning" ELSE rows[u]]

\* Mutant of Finished: the flag is only reset for a scan that was aborted.
FinishedAborted(k) ==
    IF abortRef = k /\ scans[k].aborted
    THEN abortRef' = NoScan /\ isScanning' = FALSE
    ELSE UNCHANGED <<abortRef, isScanning>>

\* The finally block.
Finished(k) ==
    IF abortRef = k
    THEN abortRef' = NoScan /\ isScanning' = FALSE
    ELSE UNCHANGED <<abortRef, isScanning>>

\* The request for t ends.  The worker takes the next target, or runs through the rest of the
\* list if the scan is aborted; the last worker to end finishes the scan.
ScanAnswer(k, t, status) ==
    LET job  == scans[k]
        next == IF job.aborted \/ job.waiting = {} THEN {} ELSE {CHOOSE u \in job.waiting : TRUE}
        left == [job EXCEPT !.waiting = IF job.aborted THEN {} ELSE @ \ next,
                            !.busy = (@ \ {t}) \cup next]
    IN  /\ t \in job.busy
        /\ rows' = Patched(k, t, status, next)
        /\ IF left.busy = {}
           THEN scans' = [scans EXCEPT ![k] = NoJob] /\ Finished(k)
           ELSE scans' = [scans EXCEPT ![k] = left] /\ UNCHANGED <<abortRef, isScanning>>
        /\ UNCHANGED <<dialog, list>>

ScanStep(k) == \E t \in Targets : ScanAnswer(k, t, "done") \/ ScanAnswer(k, t, "error")

ScanNext ==
    \/ \E S \in SUBSET Targets : (Cardinality(S) <= 1 /\ OpenScan(S)) \/ EditTargets(S)
    \/ CloseScan
    \/ StopScan
    \/ \E k \in Scans, S \in SUBSET Targets : StartScan(k, S)
    \/ \E k \in Scans : ScanStep(k)

-----------------------------------------------------------------------------
Statuses == {"none", "pending", "scanning", "done", "error"}

ScanTypeOK ==
    /\ dialog \in BOOLEAN /\ isScanning \in BOOLEAN
    /\ list \subseteq Targets
    /\ rows \in [Targets -> Statuses]
    /\ abortRef \in Scans \cup {NoScan}
    /\ scans \in [Scans -> [runs : BOOLEAN, waiting : SUBSET Targets, busy : SUBSET Targets,
                            aborted : BOOLEAN]]

\* While the dialog says it is scanning there is a scan that was not aborted, and the rows without
\* a result are the ones that scan still has to do: no answer of an earlier scan is shown as one
\* of this scan, and no target is forgotten (reality-scan-dialog.tsx, patch and runPool).
RowsMatchScan ==
    isScanning =>
        /\ abortRef # NoScan
        /\ LET job == scans[abortRef] IN
           /\ job.runs /\ ~job.aborted
           /\ {t \in Targets : rows[t] = "pending"} = job.waiting
           /\ {t \in Targets : rows[t] = "scanning"} = job.busy

\* A scan whose requests are answered ends, whatever was stopped and started before it
\* (reality-scan-dialog.tsx, the finally block of runScan).
ScanSettles == isScanning ~> ~isScanning
=============================================================================
