---------------------------- MODULE PanelWizard -----------------------------
(***************************************************************************)
(* The wizard that adds purchased panels (add-panel-wizard-modal.tsx):     *)
(* connect the Telegram account (step 0), import panels (1), and for each  *)
(* panel of the queue prepare it and fetch its groups (2), choose groups   *)
(* (3) and synchronise them (4), until all are done (5).                   *)
(*                                                                         *)
(* Every request is answered at some later time, whatever the wizard shows *)
(* by then.  An effect runs with the change that triggers it.  A panel has *)
(* one group, so chosen is the set of panels that own the selected groups. *)
(***************************************************************************)
EXTENDS Naturals, Sequences, SequencesExt

CONSTANTS
    Panels,
    NoPanel,
    MaxEarly          \* bound on early

ASSUME PanelWizardAssumption == IsFiniteSet(Panels) /\ NoPanel \notin Panels /\ MaxEarly \in Nat

VARIABLES
    early,            \* how often the user went on from step 0 before its answers were there
    linked,           \* the server's Telegram connection is active
    imported,         \* panels the server has imported
    prepared,         \* panels whose discovery user the server has created
    synced,           \* panels the server has synchronised
    isOpen,
    step,
    status,           \* connectionStatus is active
    queue,            \* panelWorkQueue
    index,            \* panelWorkIndex + 1
    local,            \* localPanelId
    phase,            \* testUserSetupPhase
    attempts,         \* discoverySetupAttempt is not 0
    chosen,           \* the panels that own selectedGroupIds
    asks,             \* what the reads of the connection in flight have seen
    setups,           \* createTestUser in flight; live unless its effect was cleaned up
    starting,         \* startConnectMut
    confirm,          \* confirmConnectMut
    disconnect,       \* disconnectMut
    importing,        \* the panels an import in flight asks for
    syncing           \* the panel a sync in flight is for

serverVars == <<linked, imported, prepared, synced>>
workVars   == <<queue, index, local, attempts, chosen>>
sentVars   == <<starting, confirm, disconnect, importing, syncing>>
wizardVars == <<early, serverVars, isOpen, step, status, workVars, phase, asks,
                setups, sentVars>>

WizardInit ==
    /\ early = 0
    /\ linked = FALSE /\ imported = {} /\ prepared = {} /\ synced = {}
    /\ isOpen = FALSE /\ step = 0 /\ status = FALSE
    /\ queue = <<>> /\ index = 1 /\ local = NoPanel /\ phase = "idle" /\ attempts = FALSE
    /\ chosen = {} /\ asks = {}
    /\ setups = {}
    /\ starting = FALSE /\ confirm = "no" /\ disconnect = FALSE
    /\ importing = {} /\ syncing = NoPanel

\* workflowBusy
Busy == importing # {} \/ phase = "running" \/ syncing # NoPanel \/ disconnect

Cancelled == {[s EXCEPT !.live = FALSE] : s \in setups}

\* The effect on isOpen, step, the active panel and the attempt, after a change of some of them;
\* p is the phase the handler has set.
SetupEffect(again, p) ==
    IF ~again /\ isOpen' = isOpen /\ step' = step /\ local' = local
    THEN phase' = p /\ UNCHANGED setups
    ELSE IF isOpen' /\ step' = 2 /\ local' # NoPanel
    THEN phase' = "running" /\ setups' = Cancelled \cup {[panel |-> local', live |-> TRUE]}
    ELSE phase' = p /\ setups' = Cancelled

-----------------------------------------------------------------------------
(* Opening, closing and the reads of the opening *)

\* The dialog stays mounted while it is closed.  Both effects on isOpen run with the step and the
\* panel it was closed at: the first resets the wizard, the second may start a setup.  The reset
\* takes effect after both, so that setup is cancelled at once but the phase stays running.
OpenWizard ==
    /\ ~isOpen
    /\ isOpen' = TRUE
    /\ step' = 0
    /\ queue' = <<>> /\ index' = 1 /\ local' = NoPanel /\ attempts' = FALSE /\ chosen' = {}
    /\ IF step = 2 /\ local # NoPanel
       THEN phase' = "running" /\ setups' = Cancelled \cup {[panel |-> local, live |-> FALSE]}
       ELSE phase' = "idle" /\ setups' = Cancelled
    /\ asks' = asks \cup {linked}
    /\ UNCHANGED <<early, serverVars, status, sentVars>>

\* Cancel and Done close in any case, the cross and Escape only when nothing is running.
CloseWizard ==
    /\ isOpen
    /\ step \in {0, 5} \/ ~Busy
    /\ isOpen' = FALSE
    /\ UNCHANGED step /\ UNCHANGED workVars
    /\ SetupEffect(FALSE, phase)
    /\ UNCHANGED <<early, serverVars, status, asks, sentVars>>

\* refreshTelegramStatus is answered, or has failed.
StatusArrives(active, ok) ==
    /\ active \in asks
    /\ asks' = asks \ {active}
    /\ status' = (ok /\ active)
    /\ UNCHANGED <<early, serverVars, isOpen, step, workVars, phase, setups, sentVars>>

-----------------------------------------------------------------------------
(* Step 0: the connection *)

\* No button of step 0 waits for what the other ones have sent.
GoOn ==
    IF confirm = "no" /\ ~disconnect
    THEN UNCHANGED early
    ELSE early < MaxEarly /\ early' = early + 1

StartConnect ==
    /\ isOpen /\ step = 0 /\ ~status /\ ~starting
    /\ starting' = TRUE
    /\ UNCHANGED <<early, serverVars, isOpen, step, status, workVars, phase, asks, setups, confirm,
                   disconnect, importing, syncing>>

\* The status becomes pending, unless the request has failed.
StartAnswers(ok) ==
    /\ starting
    /\ starting' = FALSE
    /\ status' = (~ok /\ status)
    /\ UNCHANGED <<early, serverVars, isOpen, step, workVars, phase, asks, setups, confirm,
                   disconnect, importing, syncing>>

Confirm ==
    /\ isOpen /\ step = 0 /\ ~status /\ confirm = "no"
    /\ GoOn
    /\ confirm' = "sent"
    /\ UNCHANGED <<serverVars, isOpen, step, status, workVars, phase, asks,
                   setups, starting, disconnect, importing, syncing>>

\* The code is right and the status is read again, or the request has failed.
ConfirmAnswers(ok) ==
    /\ confirm = "sent"
    /\ linked' = (ok \/ linked)
    /\ confirm' = IF ok THEN "reading" ELSE "no"
    /\ UNCHANGED <<early, imported, prepared, synced, isOpen, step, status, workVars, phase, asks,
                   setups, starting, disconnect, importing, syncing>>

\* The end of confirmConnectMut's onSuccess
Confirmed(ok) ==
    /\ confirm = "reading"
    /\ confirm' = "no"
    /\ status' = (ok /\ linked)
    /\ step' = 1
    /\ UNCHANGED isOpen /\ UNCHANGED workVars
    /\ SetupEffect(FALSE, phase)
    /\ UNCHANGED <<early, serverVars, asks, starting, disconnect, importing, syncing>>

Disconnect ==
    /\ isOpen /\ step = 0 /\ status /\ ~disconnect
    /\ GoOn
    /\ disconnect' = TRUE
    /\ UNCHANGED <<serverVars, isOpen, step, status, workVars, phase, asks,
                   setups, starting, confirm, importing, syncing>>

DisconnectAnswers(ok) ==
    /\ disconnect
    /\ disconnect' = FALSE
    /\ linked' = (~ok /\ linked)
    /\ status' = (~ok /\ status)
    /\ step' = IF ok THEN 0 ELSE step
    /\ UNCHANGED isOpen /\ UNCHANGED workVars
    /\ SetupEffect(FALSE, phase)
    /\ UNCHANGED <<early, imported, prepared, synced, asks, starting, confirm, importing,
                   syncing>>

Continue ==
    /\ isOpen /\ step = 0 /\ status /\ ~disconnect
    /\ GoOn
    /\ step' = 1
    /\ UNCHANGED isOpen /\ UNCHANGED workVars
    /\ SetupEffect(FALSE, phase)
    /\ UNCHANGED <<serverVars, status, asks, sentVars>>

-----------------------------------------------------------------------------
(* The queue of panels *)

\* Mutant of Begin: the wizard goes on where the last queue was left.
BeginMidway(q) ==
    /\ queue' = q /\ local' = q[1] /\ chosen' = {}
    /\ step' = 2
    /\ UNCHANGED index

\* beginPanelWorkflow
Begin(q) ==
    /\ queue' = q /\ index' = 1 /\ local' = q[1] /\ chosen' = {}
    /\ step' = 2

\* resumePendingSetup; the attempt is left as it is.  The list of pending panels was read when the
\* wizard was opened, or for an opening before that one.
Resume(S) ==
    /\ isOpen /\ step = 0 /\ status
    /\ S # {} /\ S \subseteq imported
    /\ GoOn
    /\ \E q \in SetToSeqs(S) : Begin(q)
    /\ UNCHANGED <<isOpen, attempts>>
    /\ SetupEffect(FALSE, "idle")
    /\ UNCHANGED <<serverVars, status, asks, sentVars>>

\* The list may be older than an import, so a panel can be asked for again.
Import(S) ==
    /\ isOpen /\ step = 1 /\ importing = {}
    /\ S # {}
    /\ importing' = S
    /\ UNCHANGED <<early, serverVars, isOpen, step, status, workVars, phase, asks,
                   setups, starting, confirm, disconnect, syncing>>

ImportAnswers ==
    /\ importing # {}
    /\ importing' = {}
    /\ imported' = imported \cup importing
    /\ \E q \in SetToSeqs(importing) : Begin(q)
    /\ attempts' = FALSE
    /\ UNCHANGED isOpen
    /\ SetupEffect(attempts, "idle")
    /\ UNCHANGED <<early, linked, prepared, synced, status, asks, starting, confirm,
                   disconnect, syncing>>

\* The panels of a request are imported by one commit; the answer may be lost after it.
ImportFails(S) ==
    /\ importing # {} /\ S \in {{}, importing}
    /\ importing' = {}
    /\ imported' = imported \cup S
    /\ UNCHANGED <<early, linked, prepared, synced, isOpen, step, status, workVars, phase, asks,
                   setups, starting, confirm, disconnect, syncing>>

-----------------------------------------------------------------------------
(* One panel: prepare, groups, sync *)

\* Mutant of Shown: the answer of a setup that was cleaned up is taken.
ShownAlways(s, p) == p

\* The callbacks of createTestUser do nothing once the effect is cleaned up.
Shown(s, p) == IF s.live THEN p ELSE phase

SetupAnswers(s, ok) ==
    /\ setups' = setups \ {s}
    /\ prepared' = IF ok THEN prepared \cup {s.panel} ELSE prepared
    /\ phase' = Shown(s, IF ok THEN "ready" ELSE "error")
    /\ UNCHANGED <<early, linked, imported, synced, isOpen, step, status, workVars, asks, sentVars>>

Retry ==
    /\ isOpen /\ step = 2 /\ phase = "error"
    /\ attempts' = TRUE
    /\ UNCHANGED <<isOpen, step, queue, index, local, chosen>>
    /\ SetupEffect(TRUE, "idle")
    /\ UNCHANGED <<early, serverVars, status, asks, sentVars>>

\* The groups of the panel have been fetched.
SelectGroups ==
    /\ isOpen /\ step = 2 /\ phase = "ready"
    /\ step' = 3
    /\ UNCHANGED isOpen /\ UNCHANGED workVars
    /\ SetupEffect(FALSE, phase)
    /\ UNCHANGED <<early, serverVars, status, asks, sentVars>>

\* A group is checked, or all are deselected.
Choose(S) ==
    /\ isOpen /\ step = 3
    /\ S \in {{}, chosen \cup {local}} /\ S # chosen
    /\ chosen' = S
    /\ UNCHANGED <<early, serverVars, isOpen, step, status, queue, index, local, attempts, phase,
                   asks, setups, sentVars>>

ToSync ==
    /\ isOpen /\ step = 3 /\ chosen # {}
    /\ step' = 4
    /\ UNCHANGED isOpen /\ UNCHANGED workVars
    /\ SetupEffect(FALSE, phase)
    /\ UNCHANGED <<early, serverVars, status, asks, sentVars>>

\* handleSyncConfigs
Sync ==
    /\ isOpen /\ step = 4 /\ syncing = NoPanel
    /\ local # NoPanel /\ chosen # {}
    /\ syncing' = local
    /\ UNCHANGED <<early, serverVars, isOpen, step, status, workVars, phase, asks,
                   setups, starting, confirm, disconnect, importing>>

\* Mutant of NextPanel: the selection of the last panel is kept.
NextPanelKeeping ==
    /\ index' = index + 1 /\ local' = queue[index + 1]
    /\ UNCHANGED chosen

\* advanceToNextPanelOrFinish, for a panel that is not the last one
NextPanel ==
    /\ index' = index + 1 /\ local' = queue[index + 1]
    /\ chosen' = {}

\* Mutant of HasNext: the last panel is taken for done.
HasNextButLast == index + 1 < Len(queue)

HasNext == index < Len(queue)

SyncAnswers ==
    /\ syncing # NoPanel
    /\ synced' = synced \cup {syncing}
    /\ syncing' = NoPanel
    /\ UNCHANGED <<isOpen, queue>>
    /\ IF HasNext
       THEN /\ NextPanel
            /\ attempts' = TRUE /\ step' = 2
            /\ SetupEffect(TRUE, "idle")
       ELSE /\ step' = 5
            /\ UNCHANGED <<index, local, chosen, attempts>>
            /\ SetupEffect(FALSE, phase)
    /\ UNCHANGED <<early, linked, imported, prepared, status, asks, starting, confirm,
                   disconnect, importing>>

SyncFails ==
    /\ syncing # NoPanel
    /\ syncing' = NoPanel
    /\ UNCHANGED <<early, serverVars, isOpen, step, status, workVars, phase, asks,
                   setups, starting, confirm, disconnect, importing>>

Back ==
    /\ isOpen /\ step \in 1..4 /\ ~Busy
    /\ step' = step - 1
    /\ UNCHANGED isOpen /\ UNCHANGED workVars
    /\ SetupEffect(FALSE, phase)
    /\ UNCHANGED <<early, serverVars, status, asks, sentVars>>

-----------------------------------------------------------------------------
WizardNext ==
    \/ OpenWizard \/ CloseWizard
    \/ \E active, ok \in BOOLEAN : StatusArrives(active, ok)
    \/ StartConnect \/ Confirm \/ Disconnect \/ Continue
    \/ \E ok \in BOOLEAN : StartAnswers(ok) \/ ConfirmAnswers(ok)
                         \/ Confirmed(ok) \/ DisconnectAnswers(ok)
    \/ \E S \in SUBSET Panels : Resume(S) \/ Import(S) \/ ImportFails(S) \/ Choose(S)
    \/ ImportAnswers
    \/ \E s \in setups, ok \in BOOLEAN : SetupAnswers(s, ok)
    \/ Retry \/ SelectGroups \/ ToSync
    \/ Sync \/ SyncAnswers \/ SyncFails
    \/ Back

-----------------------------------------------------------------------------
WizardTypeOK ==
    /\ early \in 0..MaxEarly /\ linked \in BOOLEAN
    /\ imported \subseteq Panels /\ prepared \subseteq Panels /\ synced \subseteq Panels
    /\ isOpen \in BOOLEAN /\ step \in 0..5 /\ status \in BOOLEAN
    /\ queue \in Seq(Panels) /\ local \in Panels \cup {NoPanel}
    /\ index \in {1} \cup DOMAIN queue
    /\ phase \in {"idle", "running", "ready", "error"} /\ attempts \in BOOLEAN
    /\ chosen \subseteq Panels
    /\ asks \subseteq BOOLEAN
    /\ setups \subseteq [panel : Panels, live : BOOLEAN]
    /\ starting \in BOOLEAN /\ confirm \in {"no", "sent", "reading"} /\ disconnect \in BOOLEAN
    /\ importing \subseteq Panels /\ syncing \in Panels \cup {NoPanel}

\* While a panel is prepared, "ready" says that the server has prepared this very panel, and "running"
\* that its setup will still be answered: the answer for another panel or another visit does not
\* count, and nobody waits for a setup that was cancelled.  The phase is not reset without a new setup
\* either, unless the user went on from step 0 early (the effect that calls createTestUser).  Before
\* step 2 the phase may be that of an earlier visit.
PhaseFits ==
    isOpen /\ step = 2 =>
        /\ phase = "ready" => local \in prepared
        /\ phase = "running" => \E s \in setups : s.live /\ s.panel = local
        /\ phase = "idle" => early # 0

\* What is chosen belongs to the panel that is set up, so a panel is never synchronised with the
\* groups of the one before it (beginPanelWorkflow, advanceToNextPanelOrFinish).
OwnGroups == step \in 2..4 => chosen \subseteq {local}

\* "All N panels have been integrated and synced" is true: no panel of the queue was passed over,
\* unless the user went on from step 0 before the answers of step 0 were there
\* (advanceToNextPanelOrFinish).
AllSynced == (early = 0 /\ isOpen /\ step = 5) => \A i \in 1..Len(queue) : queue[i] \in synced
=============================================================================
