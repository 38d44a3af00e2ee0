------------------------- MODULE CoreEditorProofs --------------------------
EXTENDS CoreEditor, TLAPS

Known == typed \cup Cores

\* What the types of the configurations depend on.
Shape ==
    /\ EditorTypeOK
    /\ hydrated => draft \in Config /\ snapshot.config \in Config /\ route \in Cores
    /\ textDirty => hydrated
    /\ \A c \in Cores : fetch[c].out => fetch[c].data \in Config

\* Every edit that is found anywhere was used before.
Used ==
    /\ \A c \in Cores : server[c].parts \subseteq Known /\ cached[c].parts \subseteq Known
                        /\ fetch[c].data.parts \subseteq Known
    /\ \A s \in saves : s.config.parts \subseteq Known
    /\ draft.parts \subseteq Known /\ baseline.parts \subseteq Known
    /\ snapshot.config.parts \subseteq Known
    /\ text \subseteq Known

\* The unsaved edits, the text, the draft and the baseline.
Kept ==
    /\ ~textDirty => text = draft.parts
    /\ draft.parts \subseteq text
    /\ unsaved \subseteq text
    /\ unsaved \cap baseline.parts = {}
    /\ unsaved # {} => hydrated

\* A save in flight carries the draft as it is, and the draft differs from the baseline.
Saved ==
    /\ \A s, t \in saves : s = t
    /\ \A s \in saves : s.config = draft /\ ~textDirty /\ HasChanges

\* The part of Shape that is about the GETs, and the part about the store of the page.
Fetched ==
    /\ fetch \in [Cores -> [out : BOOLEAN, data : Config \cup {NoConfig}]]
    /\ \A c \in Cores : fetch[c].out => fetch[c].data \in Config

Stored ==
    /\ section \in {"form", "json"} /\ hydrated \in BOOLEAN
    /\ draft \in Config \cup {NoConfig} /\ baseline \in Config \cup {NoConfig}
    /\ snapshot \in [config : Config \cup {NoConfig}, section : {"form", "json"},
                     from : Config \cup {NoConfig}]
    /\ from \in Config \cup {NoConfig}
    /\ text \subseteq Parts /\ textDirty \in BOOLEAN /\ broken \in BOOLEAN /\ timer \in BOOLEAN
    /\ hydrated => draft \in Config /\ snapshot.config \in Config
    /\ textDirty => hydrated

LEMMA ShapeParts ==
    Shape <=> /\ Fetched /\ Stored
              /\ hydrated => route \in Cores
              /\ server \in [Cores -> Config]
              /\ cached \in [Cores -> Config \cup {NoConfig}]
              /\ saves \subseteq Puts
              /\ route \in Cores \cup {None}
              /\ typed \subseteq Edits /\ unsaved \subseteq Edits
BY DEF Shape, EditorTypeOK, Fetched, Stored

LEMMA ShapeAfter ==
    ASSUME Fetched', Stored', hydrated' => route' \in Cores,
           server' \in [Cores -> Config], cached' \in [Cores -> Config \cup {NoConfig}],
           saves' \subseteq Puts, route' \in Cores \cup {None},
           typed' \subseteq Edits, unsaved' \subseteq Edits
    PROVE  Shape'
BY DEF Shape, EditorTypeOK, Fetched, Stored

LEMMA AskFetched ==
    ASSUME Shape, NEW c \in Cores, Ask(c)
    PROVE  Fetched'
<1> DEFINE f == [out |-> TRUE, data |-> server[c]]
<1>1. server[c] \in Config
  BY ShapeParts
<1>2. f \in [out : BOOLEAN, data : Config \cup {NoConfig}] /\ f.data \in Config
  BY <1>1
<1>3. fetch' = [fetch EXCEPT ![c] = f]
  BY DEF Ask
<1> HIDE DEF f
<1>4. \A d \in Cores : fetch'[d] = IF d = c THEN f ELSE fetch[d]
  BY <1>3, ShapeParts DEF Fetched
<1>5. fetch' \in [Cores -> [out : BOOLEAN, data : Config \cup {NoConfig}]]
  BY <1>2, <1>3, ShapeParts DEF Fetched
<1> QED
  BY <1>2, <1>4, <1>5, ShapeParts DEF Fetched

LEMMA SameFetched ==
    ASSUME Shape, UNCHANGED fetch
    PROVE  Fetched'
BY ShapeParts DEF Fetched

LEMMA HydrateStored ==
    ASSUME NEW config \in Config, NEW s \in {"form", "json"}, Hydrate(config, s)
    PROVE  Stored' /\ hydrated'
<1>1. config.parts \subseteq Parts
  BY DEF Config
<1>2. snapshot' \in [config : Config \cup {NoConfig}, section : {"form", "json"},
                     from : Config \cup {NoConfig}]
      /\ snapshot'.config = config
  BY DEF Hydrate
<1> QED
  BY <1>1, <1>2 DEF Hydrate, TextShows, Stored

LEMMA SameStored ==
    ASSUME Shape, UNCHANGED <<section, draftVars, textVars>>
    PROVE  Stored'
BY ShapeParts DEF Stored, draftVars, textVars

LEMMA OpenCoreShape ==
    ASSUME Shape, NEW c \in Cores, OpenCore(c)
    PROVE  Shape'
<1>1. Fetched'
  BY AskFetched, SameFetched DEF OpenCore
<1>2. CASE cached[c] = NoConfig
  <2>1. UNCHANGED <<section, draftVars, textVars>>
    BY <1>2 DEF OpenCore
  <2>2. Stored'
    BY <2>1, SameStored
  <2> QED
    BY <1>1, <2>1, <2>2, ShapeParts, ShapeAfter DEF OpenCore, draftVars
<1>3. CASE cached[c] # NoConfig
  <2>1. cached[c] \in Config /\ Hydrate(cached[c], "form")
    BY <1>3, ShapeParts DEF OpenCore
  <2>2. Stored'
    BY <2>1, HydrateStored
  <2> QED
    BY <1>1, <2>2, ShapeParts, ShapeAfter DEF OpenCore
<1> QED
  BY <1>2, <1>3

LEMMA FetchArrivesShape ==
    ASSUME Shape, NEW c \in Cores, FetchArrives(c)
    PROVE  Shape'
<1>1. fetch[c].data \in Config
  BY DEF Shape, FetchArrives
<1>2. Fetched'
  BY ShapeParts DEF Fetched, FetchArrives, NoFetch
<1>3. cached' \in [Cores -> Config \cup {NoConfig}]
  BY <1>1, ShapeParts DEF FetchArrives
<1>4. CASE UNCHANGED <<section, draftVars, textVars>>
  <2>1. Stored'
    BY <1>4, SameStored
  <2> QED
    BY <1>2, <1>3, <1>4, <2>1, ShapeParts, ShapeAfter DEF FetchArrives, draftVars
<1>5. CASE route = c /\ \E s \in {"form", "json"} : Hydrate(fetch[c].data, s)
  <2>1. Stored'
    BY <1>1, <1>5, HydrateStored
  <2> QED
    BY <1>2, <1>3, <1>5, <2>1, ShapeParts, ShapeAfter DEF FetchArrives
<1> QED
  BY <1>4, <1>5, ShapeParts DEF FetchArrives, Stored

LEMMA FetchFailsShape ==
    ASSUME Shape, NEW c \in Cores, FetchFails(c)
    PROVE  Shape'
BY DEF Shape, EditorTypeOK, textVars, draftVars, netVars, Config, Kinds, Parts, NoConfig,
       FetchFails, NoFetch

LEMMA OtherEditsShape ==
    ASSUME Shape, NEW c \in Cores, NEW e \in Edits, OtherEdits(c, e)
    PROVE  Shape'
BY DEF Shape, EditorTypeOK, textVars, draftVars, netVars, Config, Kinds, Parts, OtherEdits

LEMMA ReconnectShape ==
    ASSUME Shape, Reconnect
    PROVE  Shape'
BY CoreEditorAssumption DEF Shape, EditorTypeOK, textVars, draftVars, netVars, Reconnect, Ask

LEMMA FormEditShape ==
    ASSUME Shape, NEW e \in Edits, FormEdit(e)
    PROVE  Shape'
BY DEF Shape, EditorTypeOK, textVars, draftVars, netVars, Config, Kinds, Parts, NoConfig,
       FormEdit, TextShows

LEMMA TypeJsonShape ==
    ASSUME Shape, NEW e \in Edits, NEW ok \in BOOLEAN, TypeJson(e, ok)
    PROVE  Shape'
BY DEF Shape, EditorTypeOK, textVars, draftVars, netVars, Parts, TypeJson, Retyped

LEMMA FixJsonShape ==
    ASSUME Shape, FixJson
    PROVE  Shape'
BY DEF Shape, EditorTypeOK, textVars, draftVars, netVars, FixJson, Retyped

LEMMA ApplyTextShape ==
    ASSUME Shape, ApplyText
    PROVE  Shape'
<1>1. CASE textDirty /\ ~broken
  <2>1. [draft EXCEPT !.parts = text] \in Config
    BY <1>1 DEF Shape, EditorTypeOK, Config
  <2> QED
    BY <1>1, <2>1 DEF Shape, EditorTypeOK, textVars, draftVars, netVars, ApplyText
<1>2. CASE ~(textDirty /\ ~broken)
  BY <1>2 DEF Shape, EditorTypeOK, textVars, draftVars, netVars, ApplyText
<1> QED
  BY <1>1, <1>2

LEMMA EnterJsonShape ==
    ASSUME Shape, EnterJson
    PROVE  Shape'
BY DEF Shape, EditorTypeOK, textVars, draftVars, netVars, EnterJson

LEMMA LeaveJsonShape ==
    ASSUME Shape, LeaveJson
    PROVE  Shape'
BY DEF Shape, EditorTypeOK, textVars, draftVars, netVars, LeaveJson

LEMMA SwitchKindShape ==
    ASSUME Shape, SwitchKind
    PROVE  Shape'
BY DEF Shape, EditorTypeOK, textVars, draftVars, netVars, Config, Kinds, Parts, NoConfig,
       SwitchKind, TextShows, Default, Other

LEMMA DiscardShape ==
    ASSUME Shape, Discard
    PROVE  Shape'
BY DEF Shape, EditorTypeOK, textVars, draftVars, netVars, Config, Kinds, Parts, NoConfig,
       Discard, Restore, TextShows, HasChanges

LEMMA LeavePageShape ==
    ASSUME Shape, LeavePage
    PROVE  Shape'
<1>1. saves' \subseteq Puts
  <2>1. \A s \in Puts : [s EXCEPT !.here = FALSE] \in Puts
    BY DEF Puts
  <2> QED
    BY <2>1, ShapeParts DEF LeavePage
<1>2. unsaved' \subseteq Edits
  BY DEF Shape, EditorTypeOK, LeavePage
<1> QED
  BY <1>1, <1>2
     DEF Shape, EditorTypeOK, textVars, draftVars, netVars, LeavePage, Reset, TextShows, NoSnap,
         NoConfig

LEMMA SaveCoreShape ==
    ASSUME Shape, SaveCore
    PROVE  Shape'
<1>1. hydrated
  BY DEF SaveCore, HasChanges
<1>2. [core |-> route, config |-> draft, landed |-> FALSE, here |-> TRUE] \in Puts
  BY <1>1 DEF Shape, Puts
<1>3. saves' \subseteq Puts
  BY <1>2, ShapeParts DEF SaveCore
<1> QED
  BY <1>3 DEF Shape, EditorTypeOK, textVars, draftVars, netVars, SaveCore

LEMMA SaveLandsShape ==
    ASSUME Shape, NEW s \in saves, SaveLands(s)
    PROVE  Shape'
<1>1. s \in Puts
  BY DEF Shape, EditorTypeOK
<1>2. [s EXCEPT !.landed = TRUE] \in Puts /\ s.config \in Config /\ s.core \in Cores
  BY <1>1 DEF Puts
<1>3. saves' \subseteq Puts
  BY <1>2 DEF Shape, EditorTypeOK, SaveLands
<1> QED
  BY <1>2, <1>3 DEF Shape, EditorTypeOK, textVars, draftVars, netVars, SaveLands

LEMMA MarkCleanStored ==
    ASSUME Shape, MarkClean, UNCHANGED <<section, hydrated, draft, from>>
    PROVE  Stored'
<1>1. CASE hydrated
  <2>1. draft \in Config /\ draft.parts \subseteq Parts
    BY <1>1 DEF Shape, Config
  <2>2. snapshot' = [config |-> draft, section |-> section, from |-> from]
    BY <1>1 DEF MarkClean
  <2>3. snapshot' \in [config : Config \cup {NoConfig}, section : {"form", "json"},
                       from : Config \cup {NoConfig}]
        /\ snapshot'.config = draft
    BY <2>1, <2>2, ShapeParts DEF Stored
  <2> QED
    BY <1>1, <2>1, <2>3, ShapeParts DEF Stored, MarkClean, TextShows
<1>2. CASE ~hydrated
  BY <1>2, ShapeParts DEF Stored, MarkClean, textVars
<1> QED
  BY <1>1, <1>2

LEMMA SaveAnsweredShape ==
    ASSUME Shape, NEW s \in saves, SaveAnswered(s)
    PROVE  Shape'
<1>1. saves' \subseteq Puts /\ s.core \in Cores /\ unsaved' \subseteq Edits
  BY ShapeParts DEF SaveAnswered, Puts
<1>2. Fetched'
  BY <1>1, AskFetched, SameFetched DEF SaveAnswered
<1>3. Stored'
  BY MarkCleanStored DEF SaveAnswered
<1> QED
  BY <1>1, <1>2, <1>3, ShapeParts, ShapeAfter DEF SaveAnswered

LEMMA SaveFailsShape ==
    ASSUME Shape, NEW s \in saves, SaveFails(s)
    PROVE  Shape'
BY DEF Shape, EditorTypeOK, textVars, draftVars, netVars, SaveFails
\* The same two groups for Used.
StoreUsed ==
    /\ draft.parts \subseteq Known /\ baseline.parts \subseteq Known
    /\ snapshot.config.parts \subseteq Known
    /\ text \subseteq Known

LEMMA UsedParts ==
    Used <=> /\ StoreUsed
             /\ \A c \in Cores : /\ server[c].parts \subseteq Known
                                 /\ cached[c].parts \subseteq Known
                                 /\ fetch[c].data.parts \subseteq Known
             /\ \A s \in saves : s.config.parts \subseteq Known
BY DEF Used, StoreUsed

LEMMA UsedAfter ==
    ASSUME StoreUsed',
           \A c \in Cores : /\ (server[c].parts)' \subseteq Known'
                            /\ (cached[c].parts)' \subseteq Known'
                            /\ (fetch[c].data.parts)' \subseteq Known',
           \A s \in saves' : s.config.parts \subseteq Known'
    PROVE  Used'
BY DEF Used, StoreUsed

LEMMA AskUsed ==
    ASSUME Shape, Used, NEW c \in Cores, Ask(c), UNCHANGED typed, NEW d \in Cores
    PROVE  (fetch[d].data.parts)' \subseteq Known'
<1>1. fetch'[d] = IF d = c THEN [out |-> TRUE, data |-> server[c]] ELSE fetch[d]
  BY ShapeParts DEF Ask, Fetched
<1>2. fetch'[d].data = IF d = c THEN server[c] ELSE fetch[d].data
  BY <1>1
<1> QED
  BY <1>2, UsedParts DEF Known

LEMMA HydrateUsed ==
    ASSUME NEW config, NEW s, config.parts \subseteq Known, Hydrate(config, s), UNCHANGED typed
    PROVE  StoreUsed'
BY DEF Hydrate, TextShows, StoreUsed, Known

LEMMA SameStoreUsed ==
    ASSUME Used, UNCHANGED <<section, draftVars, textVars, typed>>
    PROVE  StoreUsed'
BY UsedParts DEF StoreUsed, draftVars, textVars, Known

LEMMA OpenCoreUsed ==
    ASSUME Shape, Used, NEW c \in Cores, OpenCore(c)
    PROVE  Used'
<1>1. StoreUsed'
  <2>1. CASE cached[c] = NoConfig
    <3>1. UNCHANGED <<section, draftVars, textVars, typed>>
      BY <2>1 DEF OpenCore
    <3> QED
      BY <3>1, SameStoreUsed
  <2>2. CASE cached[c] # NoConfig
    <3>1. Hydrate(cached[c], "form") /\ cached[c].parts \subseteq Known /\ UNCHANGED typed
      BY <2>2, UsedParts DEF OpenCore
    <3> QED
      BY <3>1, HydrateUsed
  <2> QED
    BY <2>1, <2>2
<1>2. ASSUME NEW d \in Cores
      PROVE  (fetch[d].data.parts)' \subseteq Known'
  <2>1. CASE UNCHANGED fetch
    BY <2>1, UsedParts DEF OpenCore, Known
  <2>2. CASE Ask(c)
    BY <2>2, AskUsed DEF OpenCore
  <2> QED
    BY <2>1, <2>2 DEF OpenCore
<1> QED
  BY <1>1, <1>2, UsedParts, UsedAfter DEF OpenCore, Known

LEMMA FetchArrivesUsed ==
    ASSUME Shape, Used, NEW c \in Cores, FetchArrives(c)
    PROVE  Used'
<1>1. fetch[c].data.parts \subseteq Known /\ UNCHANGED typed
  BY UsedParts DEF FetchArrives
<1>2. StoreUsed'
  <2>1. CASE UNCHANGED <<section, draftVars, textVars>>
    BY <1>1, <2>1, SameStoreUsed
  <2>2. CASE \E s \in {"form", "json"} : Hydrate(fetch[c].data, s)
    BY <1>1, <2>2, HydrateUsed
  <2> QED
    BY <2>1, <2>2, ShapeParts DEF FetchArrives, Stored
<1>3. ASSUME NEW d \in Cores
      PROVE  (fetch[d].data.parts)' \subseteq Known' /\ (cached[d].parts)' \subseteq Known'
  <2>1. /\ fetch'[d].data = IF d = c THEN NoConfig ELSE fetch[d].data
        /\ cached'[d] = IF d = c THEN fetch[c].data ELSE cached[d]
    BY ShapeParts DEF FetchArrives, Fetched, NoFetch
  <2> QED
    BY <1>1, <2>1, UsedParts DEF NoConfig, Known
<1> QED
  BY <1>1, <1>2, <1>3, UsedParts, UsedAfter DEF FetchArrives, Known

LEMMA FetchFailsUsed ==
    ASSUME Shape, Used, NEW c \in Cores, FetchFails(c)
    PROVE  Used'
<1>1. StoreUsed'
  BY SameStoreUsed DEF FetchFails
<1>2. ASSUME NEW d \in Cores
      PROVE  (fetch[d].data.parts)' \subseteq Known'
  <2>1. fetch'[d].data = IF d = c THEN NoConfig ELSE fetch[d].data
    BY ShapeParts DEF FetchFails, Fetched, NoFetch
  <2> QED
    BY <2>1, UsedParts DEF NoConfig, Known, FetchFails
<1> QED
  BY <1>1, <1>2, UsedParts, UsedAfter DEF FetchFails, Known

LEMMA OtherEditsUsed ==
    ASSUME Shape, Used, NEW c \in Cores, NEW e \in Edits, OtherEdits(c, e)
    PROVE  Used'
<1>1. StoreUsed'
  BY UsedParts DEF OtherEdits, StoreUsed, draftVars, textVars, Known
<1>2. ASSUME NEW d \in Cores
      PROVE  (server[d].parts)' \subseteq Known'
  <2>1. server[c] \in Config
    BY ShapeParts
  <2>2. server'[d].parts = IF d = c THEN server[c].parts \cup {e} ELSE server[d].parts
    BY <2>1, ShapeParts DEF OtherEdits, Config
  <2> QED
    BY <2>2, UsedParts DEF OtherEdits, Known
<1> QED
  BY <1>1, <1>2, UsedParts, UsedAfter DEF OtherEdits, Known

LEMMA ReconnectUsed ==
    ASSUME Shape, Used, Reconnect
    PROVE  Used'
<1>1. StoreUsed'
  BY SameStoreUsed DEF Reconnect
<1>2. route \in Cores
  BY ShapeParts DEF Reconnect
<1>3. \A d \in Cores : (fetch[d].data.parts)' \subseteq Known'
  BY <1>2, AskUsed DEF Reconnect
<1> QED
  BY <1>1, <1>3, UsedParts, UsedAfter DEF Reconnect, Known

\* What a step leaves alone outside the page.
LEMMA PageStepUsed ==
    ASSUME Used, UNCHANGED <<server, cached, fetch>>, typed \subseteq typed',
           \A s \in saves' : s.config.parts \subseteq Known, StoreUsed'
    PROVE  Used'
<1>1. Known \subseteq Known'
  BY DEF Known
<1> QED
  BY <1>1, UsedParts, UsedAfter

LEMMA EditUsed ==
    ASSUME Shape, Used,
           \/ \E e \in Edits : FormEdit(e)
           \/ \E e \in Edits, ok \in BOOLEAN : TypeJson(e, ok)
           \/ FixJson \/ ApplyText \/ EnterJson \/ LeaveJson
    PROVE  Used'
<1>1. ASSUME NEW e \in Edits, FormEdit(e)
      PROVE  Used'
  <2>1. draft \in Config
    BY <1>1 DEF Shape, FormEdit
  <2>2. draft'.parts = draft.parts \cup {e} /\ text' = draft'.parts
    BY <1>1, <2>1 DEF FormEdit, TextShows, Config
  <2>3. StoreUsed'
    BY <1>1, <2>2, UsedParts DEF FormEdit, StoreUsed, Known
  <2> QED
    BY <1>1, <2>3, PageStepUsed, UsedParts DEF FormEdit, netVars
<1>2. ASSUME NEW e \in Edits, NEW ok \in BOOLEAN, TypeJson(e, ok)
      PROVE  Used'
  <2>1. StoreUsed'
    BY <1>2, UsedParts DEF TypeJson, StoreUsed, Known, draftVars
  <2> QED
    BY <1>2, <2>1, PageStepUsed, UsedParts DEF TypeJson, netVars
<1>3. ASSUME FixJson \/ EnterJson \/ LeaveJson
      PROVE  Used'
  <2>1. StoreUsed'
    BY <1>3, UsedParts DEF FixJson, EnterJson, LeaveJson, StoreUsed, Known, draftVars
  <2> QED
    BY <1>3, <2>1, PageStepUsed, UsedParts DEF FixJson, EnterJson, LeaveJson, netVars
<1>4. ASSUME ApplyText
      PROVE  Used'
  <2>1. draft'.parts \subseteq Known
    <3>1. CASE textDirty /\ ~broken
      <4>1. draft \in Config
        BY <3>1 DEF Shape
      <4> QED
        BY <1>4, <3>1, <4>1, UsedParts DEF ApplyText, StoreUsed, Config
    <3> QED
      BY <1>4, <3>1, UsedParts DEF ApplyText, StoreUsed
  <2>2. StoreUsed'
    BY <1>4, <2>1, UsedParts DEF ApplyText, StoreUsed, Known
  <2> QED
    BY <1>4, <2>2, PageStepUsed, UsedParts DEF ApplyText, netVars
<1> QED
  BY <1>1, <1>2, <1>3, <1>4

LEMMA GiveUpUsed ==
    ASSUME Shape, Used, SwitchKind \/ Discard \/ LeavePage
    PROVE  Used'
<1>1. ASSUME SwitchKind
      PROVE  Used'
  <2>1. StoreUsed'
    BY <1>1, UsedParts DEF SwitchKind, TextShows, Default, StoreUsed, Known
  <2> QED
    BY <1>1, <2>1, PageStepUsed, UsedParts DEF SwitchKind, netVars
<1>2. ASSUME Discard
      PROVE  Used'
  <2>1. StoreUsed'
    BY <1>2, UsedParts DEF Discard, Restore, TextShows, StoreUsed, Known
  <2> QED
    BY <1>2, <2>1, PageStepUsed, UsedParts DEF Discard, netVars
<1>3. ASSUME LeavePage
      PROVE  Used'
  <2>1. StoreUsed'
    BY <1>3, UsedParts DEF LeavePage, Reset, TextShows, NoConfig, NoSnap, StoreUsed, Known
  <2>2. \A s \in saves' : s.config.parts \subseteq Known
    <3> SUFFICES ASSUME NEW t \in saves'
                 PROVE  t.config.parts \subseteq Known
      OBVIOUS
    <3>1. PICK s \in saves : t = [s EXCEPT !.here = FALSE]
      BY <1>3 DEF LeavePage
    <3>2. t.config = s.config
      BY <3>1, ShapeParts DEF Puts
    <3> QED
      BY <3>2, UsedParts
  <2> QED
    BY <1>3, <2>1, <2>2, PageStepUsed DEF LeavePage
<1> QED
  BY <1>1, <1>2, <1>3

LEMMA SaveUsed ==
    ASSUME Shape, Used, SaveCore \/ (\E s \in saves : SaveFails(s))
    PROVE  Used'
<1>1. StoreUsed'
  BY SameStoreUsed DEF SaveCore, SaveFails
<1>2. \A s \in saves' : s.config.parts \subseteq Known
  BY UsedParts DEF SaveCore, SaveFails, StoreUsed
<1> QED
  BY <1>1, <1>2, PageStepUsed DEF SaveCore, SaveFails

LEMMA SaveLandsUsed ==
    ASSUME Shape, Used, NEW s \in saves, SaveLands(s)
    PROVE  Used'
<1>1. s \in Puts /\ s.config.parts \subseteq Known
  BY ShapeParts, UsedParts
<1>2. [s EXCEPT !.landed = TRUE].config = s.config
  BY <1>1 DEF Puts
<1>3. \A t \in saves' : t.config.parts \subseteq Known'
  BY <1>1, <1>2, UsedParts DEF SaveLands, Known
<1>4. \A d \in Cores : (server[d].parts)' \subseteq Known'
  BY <1>1, ShapeParts, UsedParts DEF SaveLands, Known
<1>5. StoreUsed'
  BY SameStoreUsed DEF SaveLands
<1> QED
  BY <1>3, <1>4, <1>5, UsedParts, UsedAfter DEF SaveLands, Known

LEMMA SaveAnsweredUsed ==
    ASSUME Shape, Used, NEW s \in saves, SaveAnswered(s)
    PROVE  Used'
<1>1. StoreUsed'
  BY UsedParts DEF SaveAnswered, MarkClean, TextShows, StoreUsed, Known, textVars
<1>2. ASSUME NEW d \in Cores
      PROVE  (fetch[d].data.parts)' \subseteq Known'
  <2>1. s.core \in Cores
    BY ShapeParts DEF Puts
  <2>2. CASE UNCHANGED fetch
    BY <2>2, UsedParts DEF SaveAnswered, Known
  <2>3. CASE Ask(s.core)
    BY <2>1, <2>3, AskUsed DEF SaveAnswered
  <2> QED
    BY <2>2, <2>3 DEF SaveAnswered
<1> QED
  BY <1>1, <1>2, UsedParts, UsedAfter DEF SaveAnswered, Known

-----------------------------------------------------------------------------
(* What the user typed is kept *)

\* The inductive invariant, for a user who lets saves end and texts merge.
EditorInv == Shape /\ Used /\ Kept /\ Saved

LEMMA KeptWarned ==
    ASSUME Kept
    PROVE  UnsavedKept /\ UnsavedWarned
<1>1. UnsavedKept
  BY DEF Kept, UnsavedKept
<1>2. ASSUME unsaved # {}
      PROVE  HasChanges
  <2>1. PICK e \in unsaved : e \in text /\ e \notin baseline.parts
    BY <1>2 DEF Kept
  <2>2. hydrated
    BY <1>2 DEF Kept
  <2>3. CASE textDirty
    BY <2>1, <2>2, <2>3 DEF HasChanges
  <2>4. CASE ~textDirty
    <3>1. draft # baseline
      BY <2>1, <2>4 DEF Kept
    <3> QED
      BY <2>2, <2>4, <3>1 DEF HasChanges
  <2> QED
    BY <2>3, <2>4
<1> QED
  BY <1>1, <1>2 DEF UnsavedWarned

\* A draft without changes holds no edit and waits for no save.
LEMMA CleanKept ==
    ASSUME EditorInv, ~HasChanges
    PROVE  unsaved = {} /\ saves = {}
BY KeptWarned DEF EditorInv, Saved, UnsavedWarned

LEMMA HydrateKept ==
    ASSUME NEW config, NEW s, Hydrate(config, s), unsaved' = {}, saves' = {}
    PROVE  Kept' /\ Saved'
BY DEF Hydrate, TextShows, Kept, Saved

LEMMA SameStoreKept ==
    ASSUME EditorInv, UNCHANGED <<saves, section, draftVars, textVars, unsaved>>
    PROVE  Kept' /\ Saved'
BY DEF EditorInv, Kept, Saved, HasChanges, draftVars, textVars

LEMMA FetchKept ==
    ASSUME EditorInv,
           \/ \E c \in Cores : OpenCore(c) \/ FetchArrives(c) \/ FetchFails(c)
           \/ \E c \in Cores, e \in Edits : OtherEdits(c, e)
           \/ Reconnect
    PROVE  Kept' /\ Saved'
<1>1. ASSUME NEW c \in Cores, OpenCore(c)
      PROVE  Kept' /\ Saved'
  <2>1. CASE cached[c] = NoConfig
    <3>1. UNCHANGED <<saves, section, draftVars, textVars, unsaved>>
      BY <1>1, <2>1 DEF OpenCore
    <3> QED
      BY <3>1, SameStoreKept
  <2>2. CASE cached[c] # NoConfig
    <3>1. ~HasChanges
      BY <1>1, CoreEditorAssumption DEF OpenCore, EditorInv, Shape, HasChanges
    <3>2. unsaved' = {} /\ saves' = {}
      BY <1>1, <3>1, CleanKept DEF OpenCore
    <3>3. Hydrate(cached[c], "form")
      BY <1>1, <2>2 DEF OpenCore
    <3> QED
      BY <3>2, <3>3, HydrateKept
  <2> QED
    BY <2>1, <2>2
<1>2. ASSUME NEW c \in Cores, FetchArrives(c)
      PROVE  Kept' /\ Saved'
  <2>1. CASE UNCHANGED <<section, draftVars, textVars>>
    <3>1. UNCHANGED <<saves, section, draftVars, textVars, unsaved>>
      BY <1>2, <2>1 DEF FetchArrives
    <3> QED
      BY <3>1, SameStoreKept
  <2>2. CASE ~HasChanges /\ \E s \in {"form", "json"} : Hydrate(fetch[c].data, s)
    <3>1. unsaved' = {} /\ saves' = {}
      BY <1>2, <2>2, CleanKept DEF FetchArrives
    <3> QED
      BY <2>2, <3>1, HydrateKept
  <2> QED
    BY <1>2, <2>1, <2>2, ShapeParts
       DEF FetchArrives, PicksUp, HasChanges, EditorInv, Stored
<1>3. ASSUME NEW c \in Cores, FetchFails(c)
      PROVE  Kept' /\ Saved'
  BY <1>3, SameStoreKept DEF FetchFails
<1>4. ASSUME NEW c \in Cores, NEW e \in Edits, OtherEdits(c, e)
      PROVE  Kept' /\ Saved'
  BY <1>4, SameStoreKept DEF OtherEdits
<1>5. ASSUME Reconnect
      PROVE  Kept' /\ Saved'
  BY <1>5, SameStoreKept DEF Reconnect
<1> QED
  BY <1>1, <1>2, <1>3, <1>4, <1>5

LEMMA EditKept ==
    ASSUME UserWaits, EditorInv,
           \/ \E e \in Edits : FormEdit(e)
           \/ \E e \in Edits, ok \in BOOLEAN : TypeJson(e, ok)
           \/ FixJson \/ ApplyText \/ EnterJson \/ LeaveJson
    PROVE  Kept' /\ Saved'
<1>1. ASSUME NEW e \in Edits, e \notin typed
      PROVE  e \notin baseline.parts
  BY <1>1, CoreEditorAssumption DEF EditorInv, Used, Known
<1>2. ASSUME NEW e \in Edits, FormEdit(e)
      PROVE  Kept' /\ Saved'
  <2>1. draft \in Config /\ ~textDirty
    BY <1>2 DEF FormEdit, AllMerged, EditorInv, Shape
  <2>2. draft'.parts = draft.parts \cup {e} /\ text' = draft'.parts
    BY <1>2, <2>1 DEF FormEdit, TextShows, Config
  <2>3. Kept'
    BY <1>1, <1>2, <2>1, <2>2 DEF FormEdit, TextShows, EditorInv, Kept
  <2>4. saves' = {}
    BY <1>2 DEF FormEdit, NoSaveOut, netVars
  <2> QED
    BY <2>3, <2>4 DEF Saved
<1>3. ASSUME NEW e \in Edits, NEW ok \in BOOLEAN, TypeJson(e, ok)
      PROVE  Kept' /\ Saved'
  <2>1. Kept'
    BY <1>1, <1>3 DEF TypeJson, EditorInv, Kept, draftVars
  <2>2. saves' = {}
    BY <1>3 DEF TypeJson, NoSaveOut, netVars
  <2> QED
    BY <2>1, <2>2 DEF Saved
<1>4. ASSUME FixJson \/ EnterJson \/ LeaveJson
      PROVE  Kept' /\ Saved'
  <2>1. Kept'
    BY <1>4 DEF FixJson, EnterJson, LeaveJson, EditorInv, Kept, draftVars
  <2>2. saves' = {}
    BY <1>4 DEF FixJson, EnterJson, LeaveJson, NoSaveOut, netVars
  <2> QED
    BY <2>1, <2>2 DEF Saved
<1>5. ASSUME ApplyText
      PROVE  Kept' /\ Saved'
  <2>1. CASE textDirty /\ ~broken
    <3>1. draft \in Config
      BY <2>1 DEF EditorInv, Shape
    <3>2. draft'.parts = text
      BY <1>5, <2>1, <3>1 DEF ApplyText, Config
    <3>3. Kept'
      BY <1>5, <2>1, <3>2 DEF ApplyText, EditorInv, Kept
    <3>4. saves' = {}
      BY <1>5, <2>1 DEF ApplyText, EditorInv, Saved, netVars
    <3> QED
      BY <3>3, <3>4 DEF Saved
  <2>2. CASE ~(textDirty /\ ~broken)
    <3>1. UNCHANGED <<saves, section, draftVars, text, textDirty, broken, unsaved>>
      BY <1>5, <2>2 DEF ApplyText, netVars, draftVars
    <3> QED
      BY <3>1 DEF EditorInv, Kept, Saved, HasChanges, draftVars
  <2> QED
    BY <2>1, <2>2
<1> QED
  BY <1>2, <1>3, <1>4, <1>5

LEMMA GiveUpKept ==
    ASSUME UserWaits, EditorInv, SwitchKind \/ Discard \/ LeavePage
    PROVE  Kept' /\ Saved'
<1>1. saves = {}
  BY DEF SwitchKind, Discard, LeavePage, NoSaveOut
<1>2. saves' = {} /\ unsaved' = {}
  <2>1. CASE SwitchKind
    BY <1>1, <2>1 DEF SwitchKind, netVars
  <2>2. CASE Discard
    BY <1>1, <2>2 DEF Discard, netVars
  <2>3. CASE LeavePage
    BY <1>1, <2>3, CleanKept DEF LeavePage
  <2> QED
    BY <2>1, <2>2, <2>3
<1>3. ~textDirty' /\ text' = draft'.parts
  BY DEF SwitchKind, Discard, LeavePage, Restore, Reset, TextShows
<1> QED
  BY <1>2, <1>3 DEF Kept, Saved

LEMMA SaveKept ==
    ASSUME UserWaits, EditorInv,
           \/ SaveCore
           \/ \E s \in saves : SaveLands(s) \/ SaveAnswered(s) \/ SaveFails(s)
    PROVE  Kept' /\ Saved'
<1>1. ASSUME SaveCore
      PROVE  Kept' /\ Saved'
  <2>1. saves = {} /\ ~textDirty /\ HasChanges
    BY <1>1 DEF SaveCore, NoSaveOut, AllMerged
  <2>2. Kept'
    BY <1>1 DEF SaveCore, EditorInv, Kept, draftVars, textVars
  <2>3. saves' = {[core |-> route, config |-> draft, landed |-> FALSE, here |-> TRUE]}
    BY <1>1, <2>1 DEF SaveCore
  <2>4. HasChanges' /\ ~textDirty' /\ draft' = draft
    BY <1>1, <2>1 DEF SaveCore, HasChanges, draftVars, textVars
  <2> QED
    BY <2>2, <2>3, <2>4 DEF Saved
<1>2. ASSUME NEW s \in saves, SaveLands(s)
      PROVE  Kept' /\ Saved'
  <2>1. saves = {s} /\ s.config = draft /\ ~textDirty /\ HasChanges
    BY DEF EditorInv, Saved
  <2>2. saves' = {[s EXCEPT !.landed = TRUE]}
    BY <1>2, <2>1 DEF SaveLands
  <2>3. [s EXCEPT !.landed = TRUE].config = s.config
    BY ShapeParts DEF EditorInv, Puts
  <2>4. Kept'
    BY <1>2 DEF SaveLands, EditorInv, Kept, draftVars, textVars
  <2>5. HasChanges' /\ ~textDirty' /\ draft' = draft
    BY <1>2, <2>1 DEF SaveLands, HasChanges, draftVars, textVars
  <2> QED
    BY <2>1, <2>2, <2>3, <2>4, <2>5 DEF Saved
<1>3. ASSUME NEW s \in saves, SaveAnswered(s)
      PROVE  Kept' /\ Saved'
  <2>1. saves = {s} /\ s.config = draft /\ ~textDirty /\ HasChanges
    BY DEF EditorInv, Saved
  <2>2. saves' = {} /\ unsaved' = {}
    BY <1>3, <2>1 DEF SaveAnswered, EditorInv, Kept
  <2>3. ~textDirty' /\ text' = draft'.parts
    BY <1>3, <2>1 DEF SaveAnswered, MarkClean, TextShows, HasChanges
  <2> QED
    BY <2>2, <2>3 DEF Kept, Saved
<1>4. ASSUME NEW s \in saves, SaveFails(s)
      PROVE  Kept' /\ Saved'
  <2>1. saves' \subseteq saves /\ UNCHANGED <<draftVars, textVars, unsaved>>
    BY <1>4 DEF SaveFails
  <2> QED
    BY <2>1 DEF EditorInv, Kept, Saved, HasChanges, draftVars, textVars
<1> QED
  BY <1>1, <1>2, <1>3, <1>4

-----------------------------------------------------------------------------
(* The theorems *)

LEMMA InitShape ==
    ASSUME EditorInit
    PROVE  Shape /\ Used /\ Kept /\ Saved
<1>1. \A c \in Cores : server[c] \in Config
  BY DEF EditorInit, Config, Kinds, Parts
<1>2. server \in [Cores -> Config]
  BY <1>1 DEF EditorInit
<1>3. Shape
  BY <1>2 DEF EditorInit, Shape, EditorTypeOK, NoSnap, NoFetch
<1>4. Used
  BY DEF EditorInit, Used, Known, NoConfig, NoSnap, NoFetch
<1>5. Kept /\ Saved
  BY DEF EditorInit, Kept, Saved, NoConfig
<1> QED
  BY <1>3, <1>4, <1>5

LEMMA NextShape ==
    ASSUME Shape, [EditorNext]_editorVars
    PROVE  Shape'
<1>1. CASE UNCHANGED editorVars
  BY <1>1 DEF Shape, EditorTypeOK, editorVars, netVars, draftVars, textVars
<1>2. CASE EditorNext
  BY <1>2, OpenCoreShape, FetchArrivesShape, FetchFailsShape, OtherEditsShape, ReconnectShape,
     FormEditShape, TypeJsonShape, FixJsonShape, ApplyTextShape, EnterJsonShape, LeaveJsonShape,
     SwitchKindShape, DiscardShape, LeavePageShape, SaveCoreShape, SaveLandsShape,
     SaveAnsweredShape, SaveFailsShape
     DEF EditorNext
<1> QED
  BY <1>1, <1>2

LEMMA NextUsed ==
    ASSUME Shape, Used, [EditorNext]_editorVars
    PROVE  Used'
<1>1. CASE UNCHANGED editorVars
  BY <1>1 DEF Used, Known, editorVars, netVars, draftVars, textVars
<1>2. CASE EditorNext
  BY <1>2, OpenCoreUsed, FetchArrivesUsed, FetchFailsUsed, OtherEditsUsed, ReconnectUsed, EditUsed,
     GiveUpUsed, SaveUsed, SaveLandsUsed, SaveAnsweredUsed
     DEF EditorNext
<1> QED
  BY <1>1, <1>2

LEMMA NextKept ==
    ASSUME UserWaits, EditorInv, [EditorNext]_editorVars
    PROVE  Kept' /\ Saved'
<1>1. CASE UNCHANGED editorVars
  BY <1>1 DEF EditorInv, Kept, Saved, HasChanges, editorVars, netVars, draftVars, textVars
<1>2. CASE EditorNext
  BY <1>2, FetchKept, EditKept, GiveUpKept, SaveKept DEF EditorNext
<1> QED
  BY <1>1, <1>2

\* The type invariant of the editor, whatever the user does.
THEOREM EditorTypeCorrect == EditorSpec => []EditorTypeOK
<1>1. EditorInit => Shape
  BY InitShape
<1>2. Shape /\ [EditorNext]_editorVars => Shape'
  BY NextShape
<1>3. Shape => EditorTypeOK
  BY DEF Shape
<1> QED
  BY <1>1, <1>2, <1>3, PTL DEF EditorSpec

LEMMA EditorInvariant ==
    ASSUME UserWaits
    PROVE  EditorSpec => []EditorInv
<1>1. EditorInit => EditorInv
  BY InitShape DEF EditorInv
<1>2. EditorInv /\ [EditorNext]_editorVars => EditorInv'
  BY NextShape, NextUsed, NextKept DEF EditorInv
<1> QED
  BY <1>1, <1>2, PTL DEF EditorSpec

\* No refetch, late answer, timer or change of section takes an edit away from a user who waits
\* for saves and merges (core-editor-page.tsx, use-core-draft-sync.ts).
THEOREM EditsKept ==
    ASSUME UserWaits
    PROVE  EditorSpec => []UnsavedKept
<1>1. EditorInv => UnsavedKept
  BY KeptWarned DEF EditorInv
<1> QED
  BY <1>1, EditorInvariant, PTL

\* As long as such an edit is not stored, Save is enabled and leaving asks first
\* (core-editor-change-state.ts).
THEOREM EditsWarned ==
    ASSUME UserWaits
    PROVE  EditorSpec => []UnsavedWarned
<1>1. EditorInv => UnsavedWarned
  BY KeptWarned DEF EditorInv
<1> QED
  BY <1>1, EditorInvariant, PTL
=============================================================================
