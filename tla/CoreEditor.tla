----------------------------- MODULE CoreEditor -----------------------------
(***************************************************************************)
(* The page that edits one core: the draft store of core-editor-store.ts,  *)
(* the JSON section whose text is merged into the draft after a pause      *)
(* (use-core-draft-sync.ts), the change state that the buttons depend on   *)
(* (core-editor-change-state.ts) and the page that fetches, saves, leaves  *)
(* and re-hydrates (core-editor-page.tsx).                                 *)
(*                                                                         *)
(* A configuration is its kind and the set of the parts it contains; an    *)
(* edit adds one part.  What the query cache holds, what a GET has read    *)
(* and what a PUT carries are configurations of their own, so an answer    *)
(* may carry old data.  A text is the set of parts it spells out, and it   *)
(* may be broken (not JSON, or not a configuration).                       *)
(***************************************************************************)
EXTENDS Naturals, FiniteSets

CONSTANTS
    Cores,      \* cores that exist
    Edits,      \* parts that someone adds to a configuration
    None,
    UserWaits   \* the user lets a save end before going on, and a typed text merge before
                \* saving or editing elsewhere

ASSUME CoreEditorAssumption ==
    /\ None \notin Cores
    /\ Cores \cap Edits = {}
    /\ UserWaits \in BOOLEAN

VARIABLES
    server,     \* server[c]: the stored configuration of core c
    cached,     \* cached[c]: what the query cache holds of it
    fetch,      \* fetch[c]: the GET in flight and the configuration it has read
    saves,      \* the PUTs in flight
    route,      \* the core whose page is open, None on the list of cores
    section,    \* activeSection: the JSON section or a form
    hydrated,
    draft,      \* xrayProfile or wgDraft
    baseline,   \* xrayBaseline or wgBaseline
    snapshot,   \* persistedSnapshot
    from,       \* serverHydratedConfigJson
    text,       \* monacoJson
    textDirty,  \* monacoDirty
    broken,     \* monacoJson does not parse
    timer,      \* the debounced apply of the JSON section is pending
    typed,      \* parts used so far
    unsaved     \* the user's edits that were neither stored nor given up

textVars   == <<text, textDirty, broken, timer>>
draftVars  == <<hydrated, draft, baseline, snapshot, from>>
netVars    == <<server, cached, fetch, saves>>
editorVars == <<netVars, route, section, draftVars, textVars, typed, unsaved>>

Kinds     == {"xray", "wg"}
Parts     == Cores \cup Edits
Config    == [kind : Kinds, parts : SUBSET Parts]
NoConfig  == [kind |-> "none", parts |-> {}]
NoFetch   == [out |-> FALSE, data |-> NoConfig]
NoSnap    == [config |-> NoConfig, section |-> "form", from |-> NoConfig]
Default(k) == [kind |-> k, parts |-> {}]
Other(k)  == IF k = "xray" THEN "wg" ELSE "xray"

EditorInit ==
    /\ server = [c \in Cores |-> [kind |-> "xray", parts |-> {c}]]
    /\ cached = [c \in Cores |-> NoConfig]
    /\ fetch = [c \in Cores |-> NoFetch]
    /\ saves = {}
    /\ route = None /\ section = "form"
    /\ hydrated = FALSE
    /\ draft = NoConfig /\ baseline = NoConfig /\ snapshot = NoSnap /\ from = NoConfig
    /\ text = {} /\ textDirty = FALSE /\ broken = FALSE /\ timer = FALSE
    /\ typed = {} /\ unsaved = {}

-----------------------------------------------------------------------------
(* The store *)

\* Mutant of HasChanges: the text of the JSON section is not looked at.
DraftChanges ==
    hydrated /\ \/ draft.kind # snapshot.config.kind
                \/ draft # baseline

\* selectCoreEditorHasActualChanges: the text counts in place of the draft while it is dirty.
HasChanges ==
    hydrated /\ \/ draft.kind # snapshot.config.kind
                \/ ~textDirty /\ draft # baseline
                \/ textDirty /\ (broken \/ text # baseline.parts)

\* syncMonacoFromDraft; with a clean text the JSON section drops its pending apply.
TextShows(config) ==
    /\ text' = config.parts
    /\ textDirty' = FALSE /\ broken' = FALSE /\ timer' = FALSE

\* initFromCore
Hydrate(config, s) ==
    /\ hydrated' = TRUE
    /\ draft' = config /\ baseline' = config /\ from' = config
    /\ section' = s
    /\ snapshot' = [config |-> config, section |-> s, from |-> config]
    /\ TextShows(config)

\* reset, which the page calls when it is unmounted
Reset ==
    /\ hydrated' = FALSE
    /\ draft' = NoConfig /\ baseline' = NoConfig /\ snapshot' = NoSnap /\ from' = NoConfig
    /\ section' = "form"
    /\ TextShows(NoConfig)

\* markClean: whatever the store holds now becomes the baseline and the snapshot.
MarkClean ==
    IF hydrated
    THEN /\ baseline' = draft
         /\ TextShows(draft)
         /\ snapshot' = [config |-> draft, section |-> section, from |-> from]
    ELSE UNCHANGED <<baseline, textVars, snapshot>>

\* discardDraft
Restore ==
    /\ draft' = snapshot.config /\ baseline' = snapshot.config /\ from' = snapshot.from
    /\ section' = snapshot.section
    /\ TextShows(snapshot.config)

-----------------------------------------------------------------------------
(* Fetching *)

\* The GET reads the configuration at once; its answer may come much later.
Ask(c) == fetch' = [fetch EXCEPT ![c] = [out |-> TRUE, data |-> server[c]]]

\* A page is mounted: it hydrates from the cache if it can, and refetches in any case.
OpenCore(c) ==
    /\ route = None
    /\ UserWaits => saves = {}
    /\ route' = c
    /\ IF cached[c] = NoConfig
       THEN UNCHANGED <<section, draftVars, textVars>>
       ELSE Hydrate(cached[c], "form")
    /\ IF fetch[c].out THEN UNCHANGED fetch ELSE Ask(c)
    /\ UNCHANGED <<server, cached, saves, typed, unsaved>>

\* The connection is back: the query of the open page is fetched again.
Reconnect ==
    /\ route # None
    /\ ~fetch[route].out
    /\ Ask(route)
    /\ UNCHANGED <<server, cached, saves, route, section, draftVars, textVars, typed, unsaved>>

\* Mutant of PicksUp: a refetch is taken whatever the draft holds.
PicksUpAlways(config) == hydrated /\ from # config

\* A refetch is taken only while the draft is clean, and if it differs from the last one taken.
PicksUp(config) == hydrated /\ ~HasChanges /\ from # config

\* The answer: equal data leaves the cached object as it is, and then no effect runs.
FetchArrives(c) ==
    /\ fetch[c].out
    /\ fetch' = [fetch EXCEPT ![c] = NoFetch]
    /\ cached' = [cached EXCEPT ![c] = fetch[c].data]
    /\ IF route = c /\ ~hydrated
       THEN Hydrate(fetch[c].data, "form")
       ELSE IF route = c /\ cached[c] # fetch[c].data /\ PicksUp(fetch[c].data)
       THEN Hydrate(fetch[c].data, section)
       ELSE UNCHANGED <<section, draftVars, textVars>>
    /\ UNCHANGED <<server, saves, route, typed, unsaved>>

FetchFails(c) ==
    /\ fetch[c].out
    /\ fetch' = [fetch EXCEPT ![c] = NoFetch]
    /\ UNCHANGED <<server, cached, saves, route, section, draftVars, textVars, typed, unsaved>>

\* Another administrator stores something.
OtherEdits(c, e) ==
    /\ e \notin typed
    /\ typed' = typed \cup {e}
    /\ server' = [server EXCEPT ![c].parts = @ \cup {e}]
    /\ UNCHANGED <<cached, fetch, saves, route, section, draftVars, textVars, unsaved>>

-----------------------------------------------------------------------------
(* Editing *)

NoSaveOut == UserWaits => saves = {}
AllMerged == UserWaits => ~textDirty

\* A field of a form: the draft is updated and the text is written again from it.
FormEdit(e) ==
    /\ hydrated /\ section = "form" /\ e \notin typed
    /\ NoSaveOut /\ AllMerged
    /\ draft' = [draft EXCEPT !.parts = @ \cup {e}]
    /\ TextShows(draft')
    /\ typed' = typed \cup {e} /\ unsaved' = unsaved \cup {e}
    /\ UNCHANGED <<netVars, route, section, hydrated, baseline, snapshot, from>>

\* Mutant of Retyped: the effect of the hook does not depend on the text.
RetypedQuietly == UNCHANGED timer

\* Every change of the text starts the pause again.
Retyped == timer' = TRUE

\* Typing in the JSON section; the text may be incomplete after it.
TypeJson(e, ok) ==
    /\ hydrated /\ section = "json" /\ e \notin typed
    /\ NoSaveOut
    /\ text' = text \cup {e} /\ textDirty' = TRUE /\ broken' = ~ok /\ Retyped
    /\ typed' = typed \cup {e} /\ unsaved' = unsaved \cup {e}
    /\ UNCHANGED <<netVars, route, section, draftVars>>

FixJson ==
    /\ section = "json" /\ broken
    /\ NoSaveOut
    /\ broken' = FALSE /\ Retyped
    /\ UNCHANGED <<netVars, route, section, draftVars, text, textDirty, typed, unsaved>>

\* debouncedApplyFromMonaco, APPLY_DEBOUNCE_MS after the last change of the text
ApplyText ==
    /\ timer
    /\ timer' = FALSE
    /\ IF textDirty /\ ~broken
       THEN draft' = [draft EXCEPT !.parts = text] /\ textDirty' = FALSE
       ELSE UNCHANGED <<draft, textDirty>>
    /\ UNCHANGED <<netVars, route, section, hydrated, baseline, snapshot, from, text, broken,
                   typed, unsaved>>

\* The hook is mounted with the JSON section: a dirty text is applied after the pause.
EnterJson ==
    /\ hydrated /\ section = "form"
    /\ NoSaveOut
    /\ section' = "json" /\ timer' = textDirty
    /\ UNCHANGED <<netVars, route, draftVars, text, textDirty, broken, typed, unsaved>>

\* The JSON section is unmounted and cancels the pending apply; the text stays.
LeaveJson ==
    /\ section = "json"
    /\ NoSaveOut
    /\ section' = "form" /\ timer' = FALSE
    /\ UNCHANGED <<netVars, route, draftVars, text, textDirty, broken, typed, unsaved>>

\* switchKind: a default configuration of the other kind, for draft and baseline; what was
\* edited is given up, the snapshot stays.
SwitchKind ==
    /\ hydrated
    /\ NoSaveOut
    /\ draft' = Default(Other(draft.kind)) /\ baseline' = Default(Other(draft.kind))
    /\ TextShows(draft')
    /\ section' = "form"
    /\ unsaved' = {}
    /\ UNCHANGED <<netVars, route, hydrated, snapshot, from, typed>>

Discard ==
    /\ HasChanges
    /\ \A s \in saves : ~s.here
    /\ NoSaveOut
    /\ Restore
    /\ unsaved' = {}
    /\ UNCHANGED <<netVars, route, hydrated, snapshot, typed>>

\* Back: a dialog asks when there are changes, and leaving gives them up.
LeavePage ==
    /\ route # None
    /\ NoSaveOut
    /\ route' = None
    /\ Reset
    /\ saves' = {[s EXCEPT !.here = FALSE] : s \in saves}
    /\ unsaved' = IF HasChanges THEN {} ELSE unsaved
    /\ UNCHANGED <<server, cached, fetch, typed>>

-----------------------------------------------------------------------------
(* Saving *)

\* handleSave: the PUT carries the draft, not the text.
SaveCore ==
    /\ HasChanges
    /\ \A s \in saves : ~s.here
    /\ Cardinality(saves) < 2
    /\ NoSaveOut /\ AllMerged
    /\ saves' = saves \cup {[core |-> route, config |-> draft, landed |-> FALSE, here |-> TRUE]}
    /\ UNCHANGED <<server, cached, fetch, route, section, draftVars, textVars, typed, unsaved>>

SaveLands(s) ==
    /\ ~s.landed
    /\ server' = [server EXCEPT ![s.core] = s.config]
    /\ saves' = (saves \ {s}) \cup {[s EXCEPT !.landed = TRUE]}
    /\ UNCHANGED <<cached, fetch, route, section, draftVars, textVars, typed, unsaved>>

\* The answer: the store is marked clean and the query of the core is invalidated, which
\* replaces the GET in flight of an open page.
SaveAnswered(s) ==
    /\ s.landed
    /\ saves' = saves \ {s}
    /\ MarkClean
    /\ IF route = s.core THEN Ask(s.core) ELSE UNCHANGED fetch
    /\ unsaved' = unsaved \ s.config.parts
    /\ UNCHANGED <<server, cached, route, section, hydrated, draft, from, typed>>

\* An error, or the answer is lost: the draft stays as it is.
SaveFails(s) ==
    /\ saves' = saves \ {s}
    /\ UNCHANGED <<server, cached, fetch, route, section, draftVars, textVars, typed, unsaved>>

-----------------------------------------------------------------------------
EditorNext ==
    \/ \E c \in Cores : OpenCore(c) \/ FetchArrives(c) \/ FetchFails(c)
    \/ \E c \in Cores, e \in Edits : OtherEdits(c, e)
    \/ Reconnect
    \/ \E e \in Edits : FormEdit(e)
    \/ \E e \in Edits, ok \in BOOLEAN : TypeJson(e, ok)
    \/ FixJson \/ ApplyText \/ EnterJson \/ LeaveJson
    \/ SwitchKind \/ Discard \/ LeavePage
    \/ SaveCore
    \/ \E s \in saves : SaveLands(s) \/ SaveAnswered(s) \/ SaveFails(s)

EditorSpec == EditorInit /\ [][EditorNext]_editorVars

-----------------------------------------------------------------------------
(* Properties *)

Puts == [core : Cores, config : Config, landed : BOOLEAN, here : BOOLEAN]

\* The type invariant of the editor.
EditorTypeOK ==
    /\ server \in [Cores -> Config]
    /\ cached \in [Cores -> Config \cup {NoConfig}]
    /\ fetch \in [Cores -> [out : BOOLEAN, data : Config \cup {NoConfig}]]
    /\ saves \subseteq Puts
    /\ route \in Cores \cup {None} /\ section \in {"form", "json"}
    /\ hydrated \in BOOLEAN
    /\ draft \in Config \cup {NoConfig} /\ baseline \in Config \cup {NoConfig}
    /\ snapshot \in [config : Config \cup {NoConfig}, section : {"form", "json"},
                     from : Config \cup {NoConfig}]
    /\ from \in Config \cup {NoConfig}
    /\ text \subseteq Parts /\ textDirty \in BOOLEAN /\ broken \in BOOLEAN /\ timer \in BOOLEAN
    /\ typed \subseteq Edits /\ unsaved \subseteq Edits

\* An edit the user made is in the draft, or in the text that waits to be merged, until it is
\* stored or given up: no refetch, late answer or timer takes it away
\* (core-editor-page.tsx, use-core-draft-sync.ts).
UnsavedKept == unsaved \subseteq draft.parts \cup (IF textDirty THEN text ELSE {})

\* While such an edit exists the page says so: leaving asks first, and Save is enabled
\* (core-editor-change-state.ts).
UnsavedWarned == unsaved # {} => HasChanges

\* A text that parses is merged into the draft if the user stays in the JSON section
\* (use-core-draft-sync.ts).
TextMerges ==
    LET waiting == textDirty /\ ~broken /\ section = "json" IN waiting ~> ~waiting
=============================================================================
