-------------------------- MODULE DashboardProofs --------------------------
(***************************************************************************)
(* Proofs about the pages and dialogs of MCDashboard.  Each section is     *)
(* about one page: what its properties rest on, and that its own steps     *)
(* keep it.  The last section is about the whole: a step of one page       *)
(* leaves the others alone.                                                *)
(***************************************************************************)
EXTENDS MCDashboard, CoreEditorProofs, FiniteSetTheorems, SequenceTheorems, TLAPS

-----------------------------------------------------------------------------
(* The search of users (UserSearch) *)

(* The field shows the text whose debounce is pending, else the debounced text. *)
Field == input = IF waiting = Off THEN debounced ELSE waiting

(* The value the effect compares with is never one that is nowhere in use. *)
Compared == prev = debounced \/ prev = filter

(* A resolution that still counts is of the link in the field. *)
Resolving ==
    \A r \in resolving :
        r.live => /\ waiting = Off /\ input = r.link
                  /\ ~hasty => meant = r.link /\ filter = before

(* What the user has changed last, if earlier changes had been dealt with, and a debounce is *)
(* pending: a text was typed, the field was cleared, or a link was resolved to the user the  *)
(* list is filtered by already.                                                              *)
Typed    == meant = waiting /\ waiting # debounced /\ filter = before /\ ~ignoreNext
Cleared  == waiting = Empty /\ meant = Empty /\ filter = Empty
Resolved == waiting = Owner /\ meant \in Links /\ filter = Owner

Debouncing == waiting # Off /\ ~hasty => Typed \/ Cleared \/ Resolved

SearchInv == SearchTypeOK /\ Field /\ Compared /\ Resolving /\ Debouncing /\ SearchApplied

LEMMA InitSearch == SearchInit => SearchInv
<1>1. Empty \in Texts
    BY DEF Texts
<1> QED BY <1>1 DEF SearchInit, SearchInv, SearchTypeOK, Field, Compared, Resolving, Debouncing,
                    SearchApplied

LEMMA OutdatedRequests ==
    ASSUME SearchTypeOK
    PROVE  /\ Outdated(resolving) \subseteq [link : Links, live : BOOLEAN]
           /\ \A r \in Outdated(resolving) : ~r.live
BY DEF SearchTypeOK, Outdated

LEMMA TextFacts ==
    /\ Off \notin Texts /\ Empty \in Texts /\ Owner \in Texts /\ Links \subseteq Texts
    /\ Owner \notin Links /\ Empty \notin Links /\ Owner # Empty
BY UserSearchAssumption DEF UserSearchAssumption, Texts

LEMMA ChangeTypes ==
    ASSUME SearchTypeOK, NEW t \in Texts, Changed(t)
    PROVE  {meant', before'} \subseteq Texts /\ {hasty', unnamed'} \subseteq BOOLEAN
BY DEF SearchTypeOK, Changed

LEMMA SearchTypes == SearchTypeOK /\ [SearchNext]_searchVars => SearchTypeOK'
<1> SUFFICES ASSUME SearchTypeOK, [SearchNext]_searchVars PROVE SearchTypeOK' OBVIOUS
<1>1. ASSUME NEW t \in Texts, TypeText(t) PROVE SearchTypeOK'
    BY <1>1, OutdatedRequests, ChangeTypes DEF TypeText, SearchTypeOK
<1>2. CASE ClearText
  <2>1. Changed(Empty) /\ resolving' = Outdated(resolving) /\ ignoreNext' \in BOOLEAN
      BY <1>2 DEF ClearText
  <2>2. {input', debounced', prev', filter'} \subseteq Texts /\ waiting' \in Texts \cup {Off}
      BY <1>2, TextFacts DEF ClearText, SetFilter, SearchTypeOK
  <2> QED BY <2>1, <2>2, OutdatedRequests, ChangeTypes, TextFacts DEF SearchTypeOK
<1>3. CASE DebounceFires
  <2>1. waiting \in Texts
      BY <1>3 DEF DebounceFires, SearchTypeOK
  <2>2. resolving' \subseteq [link : Links, live : BOOLEAN]
    <3>1. \/ resolving' = resolving \/ resolving' = Outdated(resolving)
          \/ /\ waiting \in Links
             /\ resolving' = Outdated(resolving) \cup {[link |-> waiting, live |-> TRUE]}
        BY <1>3 DEF DebounceFires
    <3>2. ASSUME waiting \in Links
          PROVE  [link |-> waiting, live |-> TRUE] \in [link : Links, live : BOOLEAN]
        BY <3>2
    <3>3. Outdated(resolving) \subseteq [link : Links, live : BOOLEAN]
        BY OutdatedRequests
    <3>4. resolving \subseteq [link : Links, live : BOOLEAN]
        BY DEF SearchTypeOK
    <3> QED BY <3>1, <3>2, <3>3, <3>4
  <2>3. {input', debounced', prev', filter'} \subseteq Texts
      BY <1>3, <2>1 DEF DebounceFires, SetFilter, SearchTypeOK
  <2>4. waiting' = Off /\ ignoreNext' \in BOOLEAN
      BY <1>3 DEF DebounceFires, SetFilter, SearchTypeOK
  <2>5. {meant', before'} \subseteq Texts /\ {hasty', unnamed'} \subseteq BOOLEAN
      BY <1>3 DEF DebounceFires, changeVars, SearchTypeOK
  <2> QED BY <2>2, <2>3, <2>4, <2>5 DEF SearchTypeOK
<1>4. ASSUME NEW r \in resolving, NEW answer, LinkResolved(r, answer) PROVE SearchTypeOK'
  <2>1. r.link \in Texts
      BY TextFacts DEF SearchTypeOK
  <2>2. {input', debounced', prev', filter'} \subseteq Texts /\ waiting' \in Texts \cup {Off}
      BY <1>4, <2>1, TextFacts DEF LinkResolved, SetFilter, SearchTypeOK
  <2>3. /\ resolving' \subseteq resolving /\ {meant', before'} \subseteq Texts
        /\ {ignoreNext', hasty', unnamed'} \subseteq BOOLEAN
      BY <1>4 DEF LinkResolved, SearchTypeOK
  <2> QED BY <2>2, <2>3 DEF SearchTypeOK
<1>5. CASE UNCHANGED searchVars
    BY <1>5 DEF searchVars, changeVars, SearchTypeOK
<1> QED BY <1>1, <1>2, <1>3, <1>4, <1>5 DEF SearchNext

(* The user types or clears. *)
LEMMA StepChange ==
    ASSUME SearchInv, ClearText \/ \E t \in Texts : TypeText(t)
    PROVE  SearchInv'
<1>0. SearchTypeOK /\ SearchTypeOK'
    BY SearchTypes DEF SearchInv, SearchNext
<1>1. ASSUME NEW t \in Texts, TypeText(t) PROVE SearchInv'
  <2>1. /\ input' = t /\ waiting' = t /\ t # input /\ t # Off
        /\ UNCHANGED <<debounced, prev, ignoreNext, filter>>
        /\ meant' = t /\ before' = filter /\ hasty' = (waiting # Off \/ ignoreNext)
      BY <1>1, TextFacts DEF TypeText, Changed
  <2>2. \A r \in resolving' : ~r.live
      BY <1>0, <1>1, OutdatedRequests DEF TypeText
  <2>3. Field' /\ Compared' /\ Resolving' /\ SearchApplied'
      BY <2>1, <2>2 DEF SearchInv, Field, Compared, Resolving, SearchApplied
  <2>4. ~hasty' => Typed'
      BY <2>1 DEF SearchInv, Field, Typed
  <2> QED BY <1>0, <2>3, <2>4 DEF SearchInv, Debouncing
<1>2. CASE ClearText
  <2>1. meant' = Empty /\ Empty # Off
      BY <1>2, TextFacts DEF ClearText, Changed
  <2>2. \A r \in resolving' : ~r.live
      BY <1>0, <1>2, OutdatedRequests DEF ClearText
  <2>3. CASE filter # Empty
    <3>1. /\ filter' = Empty /\ input' = Empty /\ debounced' = Empty /\ prev' = Empty
          /\ waiting' = Off
        BY <1>2, <2>3 DEF ClearText, SetFilter
    <3> QED BY <1>0, <2>1, <2>2, <3>1
            DEF SearchInv, Field, Compared, Resolving, Debouncing, SearchApplied
  <2>4. CASE filter = Empty
    <3>1. /\ filter' = Empty /\ input' = Empty /\ waiting' = Empty
          /\ debounced' = debounced /\ prev' = debounced
        BY <1>2, <2>4 DEF ClearText, SetFilter
    <3> QED BY <1>0, <2>1, <2>2, <3>1
            DEF SearchInv, Field, Compared, Resolving, Debouncing, Cleared, SearchApplied
  <2> QED BY <2>3, <2>4
<1> QED BY <1>1, <1>2

(* The debounce of the text in the field fires. *)
LEMMA StepDebounce ==
    ASSUME SearchInv, DebounceFires
    PROVE  SearchInv'
<1>0. SearchTypeOK /\ SearchTypeOK'
    BY SearchTypes DEF SearchInv, SearchNext
<1>1. /\ waiting # Off /\ waiting' = Off /\ input = waiting
      /\ UNCHANGED <<meant, before, hasty, unnamed>>
      /\ \A r \in resolving : ~r.live
    BY DEF DebounceFires, SetFilter, changeVars, SearchInv, Field, Resolving
<1>2. Field' /\ Compared'
    BY <1>1 DEF DebounceFires, SetFilter, SearchInv, Field, Compared
<1>3. CASE /\ waiting # debounced /\ ~ignoreNext /\ waiting # prev /\ waiting \in Links
  <2> DEFINE new == [link |-> waiting, live |-> TRUE]
  <2>1. /\ new.live /\ new.link = waiting /\ resolving' = Outdated(resolving) \cup {new}
        /\ UNCHANGED <<input, filter>>
      BY <1>1, <1>3 DEF DebounceFires
  <2> HIDE DEF new
  <2>2. ~hasty => meant = waiting /\ filter = before
      BY <1>1, <1>3, TextFacts DEF SearchInv, Debouncing, Typed, Cleared, Resolved
  <2>3. Resolving'
      BY <1>0, <1>1, <2>1, <2>2, OutdatedRequests DEF Resolving
  <2>4. SearchApplied'
      BY <2>1 DEF SearchApplied
  <2> QED BY <1>0, <1>1, <1>2, <2>3, <2>4 DEF SearchInv, Debouncing
<1>4. CASE ~(waiting # debounced /\ ~ignoreNext /\ waiting # prev /\ waiting \in Links)
  <2>1. resolving' = resolving \/ resolving' = Outdated(resolving)
      BY <1>1, <1>4 DEF DebounceFires
  <2>2. \A r \in resolving' : ~r.live
      BY <1>0, <1>1, <2>1, OutdatedRequests
  <2>3. filter' = filter \/ filter' = waiting
      BY <1>1, <1>4 DEF DebounceFires, SetFilter
  <2>4. ASSUME ~hasty PROVE SearchApplied'
    <3>1. CASE Typed
      <4>1. filter' = waiting
        <5>1. CASE waiting = prev
            BY <1>1, <1>4, <3>1, <5>1 DEF DebounceFires, Typed, SearchInv, Compared
        <5>2. CASE waiting # prev
            BY <1>1, <1>4, <3>1, <5>2 DEF DebounceFires, SetFilter, Typed
        <5> QED BY <5>1, <5>2
      <4> QED BY <1>1, <3>1, <4>1 DEF Typed, SearchApplied
    <3>2. CASE Cleared
        BY <1>1, <2>3, <3>2 DEF Cleared, SearchApplied
    <3>3. CASE Resolved
        BY <1>1, <2>3, <3>3 DEF Resolved, SearchApplied
    <3> QED BY <1>1, <2>4, <3>1, <3>2, <3>3 DEF SearchInv, Debouncing
  <2>5. hasty => SearchApplied'
      BY <1>1 DEF SearchApplied
  <2> QED BY <1>0, <1>1, <1>2, <2>2, <2>4, <2>5 DEF SearchInv, Resolving, Debouncing
<1> QED BY <1>3, <1>4

(* A link is resolved, or not. *)
LEMMA StepResolved ==
    ASSUME SearchInv, NEW r \in resolving, NEW answer \in {"named", "unnamed", "failed"},
           LinkResolved(r, answer)
    PROVE  SearchInv'
<1>0. SearchTypeOK /\ SearchTypeOK'
    BY SearchTypes DEF SearchInv, SearchNext
<1>1. resolving' = resolving \ {r} /\ UNCHANGED <<ignoreNext, meant, before, hasty>>
    BY DEF LinkResolved
<1>2. CASE ~r.live
  <2>1. UNCHANGED <<input, waiting, debounced, prev, filter, unnamed>>
      BY <1>2 DEF LinkResolved
  <2> QED BY <1>0, <1>1, <1>2, <2>1
          DEF SearchInv, Field, Compared, Resolving, Debouncing, Typed, Cleared, Resolved,
              SearchApplied
<1>3. CASE r.live
  <2>1. /\ waiting = Off /\ input = r.link /\ r.link \in Links
        /\ (~hasty => meant = r.link) /\ input = debounced /\ (~hasty => filter = before)
      BY <1>0, <1>3 DEF SearchInv, Field, Resolving, SearchTypeOK
  <2>2. \A s \in resolving' : ~s.live
    <3> SUFFICES ASSUME NEW s \in resolving, s.live, s # r PROVE FALSE
        BY <1>1
    <3>1. s.link = r.link
        BY <2>1 DEF SearchInv, Resolving
    <3>2. s \in [link : Links, live : BOOLEAN] /\ r \in [link : Links, live : BOOLEAN]
        BY <1>0 DEF SearchTypeOK
    <3> QED BY <1>3, <3>1, <3>2
  <2>3. CASE answer = "named" /\ filter # Owner
    <3>1. /\ filter' = Owner /\ input' = Owner /\ debounced' = Owner /\ prev' = Owner
          /\ waiting' = Off
        BY <1>3, <2>3 DEF LinkResolved, SetFilter
    <3> QED BY <1>0, <1>1, <2>1, <2>2, <3>1
            DEF SearchInv, Field, Compared, Resolving, Debouncing, SearchApplied
  <2>4. CASE answer = "named" /\ filter = Owner
    <3>1. /\ filter' = Owner /\ input' = Owner /\ debounced' = debounced /\ prev' = Owner
          /\ waiting' = Owner /\ Owner # Off
        BY <1>3, <2>4, TextFacts DEF LinkResolved, SetFilter
    <3> QED BY <1>0, <1>1, <2>1, <2>2, <3>1
            DEF SearchInv, Field, Compared, Resolving, Debouncing, Resolved, SearchApplied
  <2>5. CASE answer = "unnamed"
    <3>1. unnamed' /\ UNCHANGED <<input, waiting, debounced, prev, filter>>
        BY <1>3, <2>5 DEF LinkResolved
    <3> QED BY <1>0, <1>1, <2>1, <2>2, <3>1
            DEF SearchInv, Field, Compared, Resolving, Debouncing, SearchApplied
  <2>6. CASE answer = "failed"
    <3>1. filter' = r.link /\ waiting' = Off /\ input' = r.link /\ debounced' = r.link
        BY <1>3, <2>1, <2>6 DEF LinkResolved, SetFilter
    <3>2. Compared'
        BY <1>3, <2>1, <2>6 DEF LinkResolved, SetFilter, SearchInv, Compared
    <3> QED BY <1>0, <1>1, <2>1, <2>2, <3>1, <3>2
            DEF SearchInv, Field, Resolving, Debouncing, SearchApplied
  <2> QED BY <2>3, <2>4, <2>5, <2>6
<1> QED BY <1>2, <1>3

LEMMA StepSearch == SearchInv /\ [SearchNext]_searchVars => SearchInv'
<1> SUFFICES ASSUME SearchInv, [SearchNext]_searchVars PROVE SearchInv' OBVIOUS
<1>1. CASE SearchNext
    BY <1>1, StepChange, StepDebounce, StepResolved DEF SearchNext
<1>2. CASE UNCHANGED searchVars
    BY <1>2 DEF searchVars, changeVars, SearchInv, SearchTypeOK, Field, Compared, Resolving,
                Debouncing, Typed, Cleared, Resolved, SearchApplied
<1> QED BY <1>1, <1>2

-----------------------------------------------------------------------------
(* The log of a node (NodeLogs) *)

(* The lines of n with the numbers after a, up to b. *)
Lines(n, a, b) == [i \in 1..(b - a) |-> <<n, a + i>>]

(* Where the newest BufferMax of the first last lines begin. *)
From(last) == IF last <= BufferMax THEN 0 ELSE last - BufferMax

Flushed == received - Len(pending)

(* While the user has paused, the buffer holds the newest lines, and either it is full or what *)
(* is shown ends where the buffer begins.                                                      *)
Buffered ==
    LET m == Len(messageBuffer) IN
    /\ m <= BufferMax /\ m <= Flushed
    /\ messageBuffer = Lines(node, Flushed - m, Flushed)
    /\ m < BufferMax => rawLogs = Lines(node, From(Flushed - m), Flushed - m)

Followed ==
    node # NoNode =>
        /\ Len(pending) <= received /\ pending = Lines(node, Flushed, received)
        /\ IF paused THEN Buffered ELSE rawLogs = Lines(node, From(Flushed), Flushed)

LogsInv ==
    /\ LogsTypeOK /\ Followed
    /\ ~paused => messageBuffer = <<>> /\ rendered = <<>>

LEMMA LinesAreSeq ==
    ASSUME NEW n \in Nodes, NEW a \in Nat, NEW b \in Nat, a <= b
    PROVE  /\ Lines(n, a, b) \in Seq(LogLines) /\ Len(Lines(n, a, b)) = b - a
           /\ \A i \in 1..(b - a) : Lines(n, a, b)[i] = <<n, a + i>>
<1>1. b - a \in Nat
    OBVIOUS
<1>2. \A i \in 1..(b - a) : <<n, a + i>> \in LogLines
    BY DEF LogLines
<1>3. Lines(n, a, b) \in [1..(b - a) -> LogLines]
    BY <1>2 DEF Lines
<1>4. Lines(n, a, b) \in Seq(LogLines)
    BY <1>1, <1>3, SeqDef
<1>5. Len(Lines(n, a, b)) = b - a
    BY <1>1, <1>3, <1>4
<1> QED BY <1>4, <1>5 DEF Lines

(* Lines that follow each other make one run of lines. *)
LEMMA LinesJoin ==
    ASSUME NEW n \in Nodes, NEW a \in Nat, NEW b \in Nat, NEW c \in Nat, a <= b, b <= c
    PROVE  Lines(n, a, b) \o Lines(n, b, c) = Lines(n, a, c)
<1> DEFINE s == Lines(n, a, b)
           t == Lines(n, b, c)
           w == Lines(n, a, c)
<1>0. a <= c /\ b - a \in Nat /\ c - b \in Nat /\ c - a = (b - a) + (c - b)
    OBVIOUS
<1>1. /\ s \in Seq(LogLines) /\ t \in Seq(LogLines) /\ w \in Seq(LogLines)
      /\ Len(s) = b - a /\ Len(t) = c - b /\ Len(w) = c - a
    BY <1>0, LinesAreSeq
<1>2. \A i \in 1..(b - a) : s[i] = <<n, a + i>>
    BY LinesAreSeq
<1>3. \A i \in 1..(c - b) : t[i] = <<n, b + i>>
    BY LinesAreSeq
<1>4. \A i \in 1..(c - a) : w[i] = <<n, a + i>>
    BY <1>0, LinesAreSeq
<1> HIDE DEF s, t, w
<1>5. s \o t \in Seq(LogLines) /\ Len(s \o t) = c - a
    BY <1>0, <1>1, ConcatProperties
<1>6. \A i \in 1..(c - a) : (s \o t)[i] = IF i <= b - a THEN s[i] ELSE t[i - (b - a)]
    BY <1>0, <1>1, ConcatProperties
<1>7. \A i \in 1..(c - a) : (s \o t)[i] = w[i]
  <2> SUFFICES ASSUME NEW i \in 1..(c - a) PROVE (s \o t)[i] = w[i]
      OBVIOUS
  <2>1. CASE i <= b - a
    <3>1. i \in 1..(b - a)
        BY <2>1
    <3> QED BY <1>2, <1>4, <1>6, <2>1, <3>1
  <2>2. CASE ~(i <= b - a)
    <3>1. i - (b - a) \in 1..(c - b) /\ b + (i - (b - a)) = a + i
        BY <2>2
    <3>2. t[i - (b - a)] = <<n, b + (i - (b - a))>>
        BY <1>3, <3>1
    <3> QED BY <1>4, <1>6, <2>2, <3>1, <3>2
  <2> QED BY <2>1, <2>2
<1>8. s \o t = w
    BY <1>1, <1>5, <1>7, SeqEqual
<1> QED BY <1>8 DEF s, t, w

(* appendTrim keeps the end of a list. *)
LEMMA TrimKeepsEnd ==
    ASSUME NEW s \in Seq(LogLines)
    PROVE  /\ Trim(s) \in Seq(LogLines)
           /\ Len(Trim(s)) = IF Len(s) <= BufferMax THEN Len(s) ELSE BufferMax
           /\ \A i \in 1..Len(Trim(s)) : Trim(s)[i] = s[Len(s) - Len(Trim(s)) + i]
<1>0. BufferMax \in Nat \ {0} /\ Len(s) \in Nat
    BY NodeLogsAssumption DEF NodeLogsAssumption
<1>1. CASE Len(s) <= BufferMax
  <2>1. Trim(s) = s
      BY <1>1 DEF Trim
  <2>2. \A i \in 1..Len(s) : Len(s) - Len(s) + i = i
      BY <1>0
  <2> QED BY <1>1, <2>1, <2>2
<1>2. CASE Len(s) > BufferMax
  <2> DEFINE k == Len(s) - BufferMax + 1
             m == Len(s)
             u == SubSeq(s, k, m)
  <2>1. Trim(s) = u
      BY <1>0, <1>2 DEF Trim
  <2>2. /\ k \in Int /\ m \in Int /\ k <= m /\ m - k + 1 = BufferMax
        /\ \A i \in k..m : i \in 1..Len(s)
        /\ \A i \in 1..BufferMax : k + i - 1 = Len(s) - BufferMax + i
      BY <1>0, <1>2
  <2>3. \A i \in k..m : s[i] \in LogLines
      BY <2>2, ElementOfSeq
  <2> HIDE DEF k, m
  <2>4. /\ u \in Seq(LogLines) /\ Len(u) = IF k <= m THEN m - k + 1 ELSE 0
        /\ \A i \in 1..(m - k + 1) : u[i] = s[k + i - 1]
      BY <2>2, <2>3, SubSeqProperties
  <2> HIDE DEF u
  <2>5. Len(u) = BufferMax /\ \A i \in 1..BufferMax : u[i] = s[Len(s) - BufferMax + i]
      BY <2>2, <2>4
  <2> QED BY <1>0, <1>2, <2>1, <2>4, <2>5
<1> QED BY <1>0, <1>1, <1>2

LEMMA TrimLines ==
    ASSUME NEW n \in Nodes, NEW a \in Nat, NEW c \in Nat, a <= c
    PROVE  Trim(Lines(n, a, c)) = Lines(n, IF c - a <= BufferMax THEN a ELSE c - BufferMax, c)
<1> DEFINE s == Lines(n, a, c)
           u == Trim(s)
           b == IF c - a <= BufferMax THEN a ELSE c - BufferMax
           w == Lines(n, b, c)
<1>0. /\ BufferMax \in Nat \ {0} /\ b \in Nat /\ b <= c
      /\ c - b = IF c - a <= BufferMax THEN c - a ELSE BufferMax
    BY NodeLogsAssumption DEF NodeLogsAssumption
<1> HIDE DEF b
<1>1. s \in Seq(LogLines) /\ Len(s) = c - a /\ \A i \in 1..(c - a) : s[i] = <<n, a + i>>
    BY LinesAreSeq
<1>2. w \in Seq(LogLines) /\ Len(w) = c - b /\ \A i \in 1..(c - b) : w[i] = <<n, b + i>>
    BY <1>0, LinesAreSeq
<1> HIDE DEF s, w
<1>t. /\ u \in Seq(LogLines) /\ Len(u) = IF Len(s) <= BufferMax THEN Len(s) ELSE BufferMax
      /\ \A i \in 1..Len(u) : u[i] = s[Len(s) - Len(u) + i]
    BY <1>1, TrimKeepsEnd
<1> HIDE DEF u
<1>l. Len(u) = c - b
    BY <1>0, <1>1, <1>t
<1>3. /\ u \in Seq(LogLines) /\ Len(u) = c - b
      /\ \A i \in 1..(c - b) : u[i] = s[(c - a) - (c - b) + i]
    BY <1>1, <1>t, <1>l
<1>4. ASSUME NEW i \in 1..(c - b) PROVE u[i] = w[i]
  <2>1. /\ (c - a) - (c - b) + i \in 1..(c - a) /\ a + ((c - a) - (c - b) + i) = b + i
      BY <1>0
  <2>2. s[(c - a) - (c - b) + i] = <<n, b + i>>
      BY <1>1, <2>1
  <2> QED BY <1>2, <1>3, <2>2
<1>5. u = w
    BY <1>2, <1>3, <1>4, SeqEqual
<1> QED BY <1>5 DEF u, s, w, b

(* A buffer that is full is all that appendTrim keeps. *)
LEMMA TrimFull ==
    ASSUME NEW s \in Seq(LogLines), NEW t \in Seq(LogLines), Len(t) = BufferMax
    PROVE  Trim(s \o t) = t
<1>0. BufferMax \in Nat \ {0} /\ Len(s) \in Nat
    BY NodeLogsAssumption DEF NodeLogsAssumption
<1> DEFINE r == s \o t
           u == Trim(r)
<1>1. /\ r \in Seq(LogLines) /\ Len(r) = Len(s) + BufferMax
      /\ \A i \in 1..(Len(s) + BufferMax) : r[i] = IF i <= Len(s) THEN s[i] ELSE t[i - Len(s)]
    BY ConcatProperties
<1> HIDE DEF r
<1>t. /\ u \in Seq(LogLines) /\ Len(u) = IF Len(r) <= BufferMax THEN Len(r) ELSE BufferMax
      /\ \A i \in 1..Len(u) : u[i] = r[Len(r) - Len(u) + i]
    BY <1>1, TrimKeepsEnd
<1> HIDE DEF u
<1>l. Len(u) = BufferMax
    BY <1>0, <1>1, <1>t
<1>2. /\ u \in Seq(LogLines) /\ Len(u) = BufferMax
      /\ \A i \in 1..BufferMax : u[i] = r[Len(r) - BufferMax + i]
    BY <1>t, <1>l
<1>3. ASSUME NEW i \in 1..BufferMax PROVE u[i] = t[i]
  <2>1. /\ Len(r) - BufferMax + i = Len(s) + i /\ Len(s) + i \in 1..(Len(s) + BufferMax)
        /\ ~(Len(s) + i <= Len(s)) /\ (Len(s) + i) - Len(s) = i
      BY <1>0, <1>1
  <2> QED BY <1>1, <1>2, <2>1
<1>4. u = t
    BY <1>2, <1>3, SeqEqual
<1> QED BY <1>4 DEF u, r

LEMMA LineAppended ==
    ASSUME NEW n \in Nodes, NEW a \in Nat, NEW b \in Nat, a <= b
    PROVE  Append(Lines(n, a, b), <<n, b + 1>>) = Lines(n, a, b + 1)
<1> DEFINE s == Lines(n, a, b)
           w == Lines(n, a, b + 1)
           l == <<n, b + 1>>
           t == Append(s, l)
<1>0. a <= b + 1 /\ b + 1 \in Nat /\ (b + 1) - a = (b - a) + 1 /\ b - a \in Nat
    OBVIOUS
<1>1. s \in Seq(LogLines) /\ Len(s) = b - a /\ \A i \in 1..(b - a) : s[i] = <<n, a + i>>
    BY LinesAreSeq
<1>2. w \in Seq(LogLines) /\ Len(w) = (b + 1) - a /\ \A i \in 1..((b + 1) - a) : w[i] = <<n, a + i>>
    BY <1>0, LinesAreSeq
<1>3. l \in LogLines
    BY DEF LogLines
<1> HIDE DEF s, w, l
<1>t. /\ t \in Seq(LogLines) /\ Len(t) = Len(s) + 1
      /\ \A i \in 1..Len(s) : t[i] = s[i]
      /\ t[Len(s) + 1] = l
    BY <1>1, <1>3, AppendProperties
<1> HIDE DEF t
<1>4. /\ t \in Seq(LogLines) /\ Len(t) = (b - a) + 1
      /\ \A i \in 1..(b - a) : t[i] = s[i]
      /\ t[(b - a) + 1] = l
    BY <1>1, <1>t
<1>5. ASSUME NEW i \in 1..((b + 1) - a) PROVE t[i] = w[i]
  <2>1. CASE i \in 1..(b - a)
      BY <1>0, <1>1, <1>2, <1>4, <2>1
  <2>2. CASE i = (b - a) + 1
    <3>1. a + i = b + 1
        BY <1>0, <2>2
    <3> QED BY <1>0, <1>2, <1>4, <2>2, <3>1 DEF l
  <2> QED BY <1>0, <2>1, <2>2
<1>6. t = w
    BY <1>0, <1>2, <1>4, <1>5, SeqEqual
<1> QED BY <1>6 DEF t, s, w, l

(* What a flush makes of a list that ends where the lines that wait begin. *)
LEMMA FlushLines ==
    ASSUME NEW n \in Nodes, NEW a \in Nat, NEW b \in Nat, NEW c \in Nat, a <= b, b <= c,
           b - a <= BufferMax, b - a < BufferMax => a = 0
    PROVE  Trim(Lines(n, a, b) \o Lines(n, b, c)) = Lines(n, From(c), c)
<1>0. BufferMax \in Nat \ {0} /\ a <= c
    BY NodeLogsAssumption DEF NodeLogsAssumption
<1>1. Lines(n, a, b) \o Lines(n, b, c) = Lines(n, a, c)
    BY LinesJoin
<1>2. Trim(Lines(n, a, c)) = Lines(n, IF c - a <= BufferMax THEN a ELSE c - BufferMax, c)
    BY <1>0, TrimLines
<1>3. (IF c - a <= BufferMax THEN a ELSE c - BufferMax) = From(c)
    BY <1>0 DEF From
<1> QED BY <1>1, <1>2, <1>3

LEMMA FromFacts ==
    ASSUME NEW last \in Nat
    PROVE  /\ From(last) \in Nat /\ From(last) <= last /\ last - From(last) <= BufferMax
           /\ last - From(last) < BufferMax => From(last) = 0
BY NodeLogsAssumption DEF NodeLogsAssumption, From

LEMMA InitLogs == LogsInit => LogsInv
<1> SUFFICES ASSUME LogsInit PROVE LogsInv
    OBVIOUS
<1>1. <<>> \in Seq(LogLines) /\ 0 \in 0..MaxLines
    BY NodeLogsAssumption DEF NodeLogsAssumption
<1>2. LogsTypeOK
    BY <1>1 DEF LogsInit, LogsTypeOK
<1>3. Followed
    BY DEF LogsInit, Followed
<1> QED BY <1>2, <1>3 DEF LogsInit, LogsInv

LEMMA TrimTypes ==
    ASSUME NEW s \in Seq(LogLines), NEW t \in Seq(LogLines)
    PROVE  Trim(s \o t) \in Seq(LogLines)
<1>1. s \o t \in Seq(LogLines)
    BY ConcatProperties
<1> QED BY <1>1, TrimKeepsEnd

LEMMA FollowTypes ==
    ASSUME LogsTypeOK, NEW n \in Nodes \cup {NoNode}, Follow(n), connected' \subseteq Nodes
    PROVE  LogsTypeOK'
<1>1. <<>> \in Seq(LogLines) /\ 0 \in 0..MaxLines
    BY NodeLogsAssumption DEF NodeLogsAssumption
<1>2. CASE n = NoNode
    BY <1>1, <1>2 DEF LogsTypeOK, Follow
<1>3. CASE n # NoNode
    BY <1>1, <1>3 DEF LogsTypeOK, Follow
<1> QED BY <1>2, <1>3

LEMMA LogsTypes == LogsTypeOK /\ [LogsNext]_logsVars => LogsTypeOK'
<1> SUFFICES ASSUME LogsTypeOK, [LogsNext]_logsVars PROVE LogsTypeOK'
    OBVIOUS
<1>0. <<>> \in Seq(LogLines) /\ MaxLines \in Nat
    BY NodeLogsAssumption DEF NodeLogsAssumption
<1>1. ASSUME NEW S \in SUBSET Nodes, NodesChange(S) PROVE LogsTypeOK'
  <2>1. CASE node \in S
      BY <1>1, <2>1 DEF LogsTypeOK, NodesChange
  <2>2. CASE node \notin S
    <3>1. PICK n \in (IF S = {} THEN {NoNode} ELSE S) : Follow(n)
        BY <1>1, <2>2 DEF NodesChange
    <3> QED BY <1>1, <3>1, FollowTypes DEF NodesChange
  <2> QED BY <2>1, <2>2
<1>2. ASSUME NEW n \in connected, NodeChange(n) PROVE LogsTypeOK'
  <2>1. n \in Nodes /\ connected' \subseteq Nodes
      BY <1>2 DEF LogsTypeOK, NodeChange
  <2> QED BY <1>2, <2>1, FollowTypes DEF NodeChange
<1>3. CASE LineArrives
  <2>1. <<node, received + 1>> \in LogLines
      BY <1>3, NodeLogsAssumption DEF LineArrives, LogsTypeOK, LogLines, NodeLogsAssumption
  <2>2. pending' \in Seq(LogLines)
      BY <1>3, <2>1, AppendProperties DEF LineArrives, LogsTypeOK
  <2> QED BY <1>0, <1>3, <2>2 DEF LineArrives, LogsTypeOK
<1>4. CASE Flush
  <2>1. Trim(messageBuffer \o pending) \in Seq(LogLines)
        /\ Trim(rawLogs \o pending) \in Seq(LogLines)
      BY TrimTypes DEF LogsTypeOK
  <2> QED BY <1>0, <1>4, <2>1 DEF Flush, LogsTypeOK
<1>5. CASE Render
    BY <1>5 DEF Render, LogsTypeOK
<1>6. CASE PauseResume
  <2>1. Trim(rawLogs \o rendered) \in Seq(LogLines)
      BY TrimTypes DEF LogsTypeOK
  <2> QED BY <1>0, <1>6, <2>1 DEF PauseResume, LogsTypeOK
<1>7. CASE UNCHANGED logsVars
    BY <1>7 DEF logsVars, LogsTypeOK
<1> QED BY <1>1, <1>2, <1>3, <1>4, <1>5, <1>6, <1>7 DEF LogsNext

LEMMA FollowLogs ==
    ASSUME LogsInv, NEW n \in Nodes \cup {NoNode}, Follow(n)
    PROVE  Followed' /\ (~paused' => messageBuffer' = <<>> /\ rendered' = <<>>)
<1>1. CASE n = NoNode
    BY <1>1 DEF Follow, Followed, LogsInv
<1>2. CASE n # NoNode
  <2>1. /\ node' = n /\ n \in Nodes /\ received' = 0 /\ pending' = <<>> /\ ~paused'
        /\ rawLogs' = <<>> /\ messageBuffer' = <<>> /\ rendered' = <<>>
      BY <1>2 DEF Follow
  <2>2. Lines(n, 0, 0) = <<>> /\ From(0) = 0
    <3>1. Lines(n, 0, 0) \in Seq(LogLines) /\ Len(Lines(n, 0, 0)) = 0
      <4>1. 0 \in Nat /\ 0 <= 0 /\ 0 - 0 = 0
          OBVIOUS
      <4>2. /\ Lines(n, 0, 0) \in Seq(LogLines)
            /\ Len(Lines(n, 0, 0)) = 0 - 0
          BY <2>1, <4>1, LinesAreSeq, Zenon
      <4> QED BY <4>1, <4>2
    <3>2. From(0) = 0
        BY NodeLogsAssumption DEF NodeLogsAssumption, From
    <3> QED BY <3>1, <3>2, EmptySeq
  <2>l. received' = 0 /\ Len(pending') = 0
      BY <2>1, EmptySeq
  <2>3. Len(pending') = 0 /\ Flushed' = 0
      BY <2>l DEF Flushed
  <2>4. pending' = Lines(node', Flushed', received') /\ Len(pending') <= received'
      BY <2>1, <2>2, <2>3
  <2>5. rawLogs' = Lines(node', From(Flushed'), Flushed')
      BY <2>1, <2>2, <2>3
  <2>6. Followed'
      BY <2>1, <2>4, <2>5 DEF Followed
  <2> QED BY <2>1, <2>6
<1> QED BY <1>1, <1>2

LEMMA LineLogs ==
    ASSUME LogsInv, LineArrives
    PROVE  Followed'
<1>1. /\ node \in Nodes /\ received \in Nat /\ Len(pending) \in Nat /\ Len(pending) <= received
      /\ pending \in Seq(LogLines) /\ pending = Lines(node, Flushed, received)
    BY DEF LogsInv, LogsTypeOK, Followed, LineArrives
<1>2. Flushed \in Nat /\ Flushed <= received
    BY <1>1 DEF Flushed
<1>3. pending' = Lines(node, Flushed, received + 1)
    BY <1>1, <1>2, LineAppended DEF LineArrives
<1>4. Len(pending') = Len(pending) + 1
  <2>1. <<node, received + 1>> \in LogLines
      BY <1>1 DEF LogLines
  <2> QED BY <1>1, <2>1, AppendProperties DEF LineArrives
<1>5. Flushed' = Flushed /\ Len(pending') <= received'
    BY <1>1, <1>4 DEF Flushed, LineArrives
<1>6. pending' = Lines(node', Flushed', received')
    BY <1>3, <1>5 DEF LineArrives
<1>7. IF paused THEN Buffered ELSE rawLogs = Lines(node, From(Flushed), Flushed)
    BY DEF LogsInv, Followed, LineArrives
<1>8. IF paused' THEN Buffered' ELSE rawLogs' = Lines(node', From(Flushed'), Flushed')
    BY <1>5, <1>7 DEF Buffered, LineArrives
<1> QED BY <1>5, <1>6, <1>8 DEF Followed

LEMMA FlushLogs ==
    ASSUME LogsInv, Flush
    PROVE  Followed'
<1> SUFFICES ASSUME node # NoNode PROVE Followed'
    BY DEF Followed, Flush
<1>1. /\ node \in Nodes /\ received \in Nat /\ Len(pending) \in Nat /\ Len(pending) <= received
      /\ pending = Lines(node, Flushed, received)
    BY DEF LogsInv, LogsTypeOK, Followed
<1>2. Flushed \in Nat /\ Flushed <= received
    BY <1>1 DEF Flushed
<1>3. /\ node' = node /\ received' = received /\ pending' = <<>> /\ paused' = paused
    BY DEF Flush
<1>4. Flushed' = received /\ Len(pending') = 0
    BY <1>1, <1>3 DEF Flushed
<1>5. pending' = Lines(node', Flushed', received')
  <2>1. Lines(node, received, received) \in Seq(LogLines) /\ Len(Lines(node, received, received)) = 0
      BY <1>1, LinesAreSeq
  <2> QED BY <1>3, <1>4, <2>1, EmptySeq
<1>6. CASE ~paused
  <2>1. rawLogs' = Trim(rawLogs \o pending) /\ rawLogs = Lines(node, From(Flushed), Flushed)
      BY <1>6 DEF Flush, LogsInv, Followed
  <2>2. /\ From(Flushed) \in Nat /\ From(Flushed) <= Flushed /\ Flushed - From(Flushed) <= BufferMax
        /\ Flushed - From(Flushed) < BufferMax => From(Flushed) = 0
      BY <1>2, FromFacts
  <2>3. rawLogs' = Lines(node, From(received), received)
      BY <1>1, <1>2, <2>1, <2>2, FlushLines
  <2> QED BY <1>1, <1>3, <1>4, <1>5, <1>6, <2>3 DEF Followed
<1>7. CASE paused
  <2> DEFINE m == Len(messageBuffer)
             a == Flushed - m
             b == IF received - a <= BufferMax THEN a ELSE received - BufferMax
  <2>1. /\ m \in Nat /\ m <= BufferMax /\ m <= Flushed /\ messageBuffer = Lines(node, a, Flushed)
        /\ m < BufferMax => rawLogs = Lines(node, From(a), a)
      BY <1>7 DEF LogsInv, LogsTypeOK, Followed, Buffered
  <2>m. m \in Nat /\ m <= Flushed
      BY <2>1
  <2>2. /\ a \in Nat /\ a <= Flushed /\ a <= received /\ BufferMax \in Nat \ {0}
      BY <1>1, <1>2, <2>m, NodeLogsAssumption DEF NodeLogsAssumption
  <2>3. messageBuffer' = Trim(messageBuffer \o pending) /\ rawLogs' = rawLogs
      BY <1>7 DEF Flush
  <2> HIDE DEF m, a
  <2>j. Lines(node, a, Flushed) \o Lines(node, Flushed, received) = Lines(node, a, received)
      BY <1>1, <1>2, <2>2, LinesJoin
  <2>4. messageBuffer \o pending = Lines(node, a, received)
      BY <1>1, <2>1, <2>j
  <2>5. messageBuffer' = Lines(node, b, received)
      BY <1>1, <2>2, <2>3, <2>4, TrimLines
  <2>6. /\ b \in Nat /\ b <= received /\ received - b <= BufferMax
        /\ received - b < BufferMax => b = a
        /\ received - b <= received
      BY <1>1, <2>2
  <2>7. received - b < BufferMax => m < BufferMax
      BY <1>2, <1>1, <2>1, <2>2, <2>6 DEF a
  <2> HIDE DEF b
  <2>8. Len(messageBuffer') = received - b
      BY <1>1, <2>5, <2>6, LinesAreSeq
  <2>9. Flushed' - Len(messageBuffer') = b
      BY <1>1, <1>4, <2>6, <2>8
  <2>10. Len(messageBuffer') < BufferMax => rawLogs' = Lines(node, From(b), b)
      BY <2>1, <2>3, <2>6, <2>7, <2>8
  <2>11. Buffered'
      BY <1>1, <1>3, <1>4, <2>5, <2>6, <2>8, <2>9, <2>10 DEF Buffered
  <2> QED BY <1>1, <1>3, <1>4, <1>5, <1>7, <2>11 DEF Followed
<1> QED BY <1>6, <1>7

LEMMA ResumeLogs ==
    ASSUME RendersFirst, LogsInv, PauseResume
    PROVE  Followed' /\ (~paused' => messageBuffer' = <<>> /\ rendered' = <<>>)
<1>1. /\ rendered = messageBuffer /\ paused' = ~paused /\ node' = node /\ pending' = pending
      /\ received' = received /\ Flushed' = Flushed
    BY DEF PauseResume, Flushed
<1>2. CASE ~paused
  <2>1. /\ messageBuffer = <<>> /\ messageBuffer' = <<>> /\ rawLogs' = rawLogs
        /\ paused'
      BY <1>1, <1>2 DEF LogsInv, PauseResume
  <2>2. ASSUME node # NoNode PROVE Followed'
    <3>1. /\ node \in Nodes /\ received \in Nat /\ Len(pending) \in Nat /\ Len(pending) <= received
          /\ pending = Lines(node, Flushed, received)
          /\ rawLogs = Lines(node, From(Flushed), Flushed)
        BY <1>2, <2>2 DEF LogsInv, LogsTypeOK, Followed
    <3>2. Flushed \in Nat /\ Flushed <= Flushed /\ BufferMax \in Nat \ {0}
        BY <3>1, NodeLogsAssumption DEF Flushed, NodeLogsAssumption
    <3>3. Len(messageBuffer') = 0 /\ messageBuffer' = Lines(node, Flushed, Flushed)
      <4>1. Lines(node, Flushed, Flushed) \in Seq(LogLines)
            /\ Len(Lines(node, Flushed, Flushed)) = 0
          BY <3>1, <3>2, LinesAreSeq
      <4> QED BY <2>1, <4>1, EmptySeq
    <3>4. Flushed' - Len(messageBuffer') = Flushed
        BY <1>1, <3>2, <3>3
    <3>5. Buffered'
        BY <1>1, <2>1, <3>1, <3>2, <3>3, <3>4 DEF Buffered
    <3> QED BY <1>1, <2>1, <3>1, <3>5 DEF Followed
  <2>3. ASSUME node = NoNode PROVE Followed'
      BY <1>1, <2>3 DEF Followed
  <2> QED BY <2>1, <2>2, <2>3
<1>3. CASE paused
  <2>1. ~paused' /\ messageBuffer' = <<>> /\ rendered' = <<>>
      BY <1>1, <1>3 DEF PauseResume
  <2>2. ASSUME node # NoNode PROVE Followed'
    <3> DEFINE m == Len(messageBuffer)
               a == Flushed - m
    <3>1. /\ node \in Nodes /\ received \in Nat /\ Len(pending) \in Nat /\ Len(pending) <= received
          /\ pending = Lines(node, Flushed, received)
          /\ rawLogs \in Seq(LogLines) /\ messageBuffer \in Seq(LogLines)
        BY <2>2 DEF LogsInv, LogsTypeOK, Followed
    <3>2. /\ m \in Nat /\ m <= BufferMax /\ m <= Flushed /\ messageBuffer = Lines(node, a, Flushed)
          /\ m < BufferMax => rawLogs = Lines(node, From(a), a)
        BY <1>3, <2>2 DEF LogsInv, LogsTypeOK, Followed, Buffered
    <3>3. /\ Flushed \in Nat /\ a \in Nat /\ a <= Flushed /\ Flushed - a = m
          /\ BufferMax \in Nat \ {0}
        BY <3>1, <3>2, NodeLogsAssumption DEF Flushed, NodeLogsAssumption
    <3>4. rawLogs' = Lines(node, From(Flushed), Flushed)
      <4>1. CASE messageBuffer = <<>>
        <5>1. m = 0 /\ a = Flushed
            BY <3>3, <4>1
        <5>2. rawLogs' = rawLogs
            BY <1>1, <4>1 DEF PauseResume
        <5> QED BY <3>2, <3>3, <5>1, <5>2
      <4>2. CASE messageBuffer # <<>>
        <5>1. rawLogs' = Trim(rawLogs \o messageBuffer)
            BY <1>1, <1>3, <4>2 DEF PauseResume
        <5>2. CASE m < BufferMax
          <6>1. /\ From(a) \in Nat /\ From(a) <= a /\ a - From(a) <= BufferMax
                /\ a - From(a) < BufferMax => From(a) = 0
              BY <3>3, FromFacts
          <6>2. rawLogs = Lines(node, From(a), a) /\ messageBuffer = Lines(node, a, Flushed)
              BY <3>2, <5>2
          <6> HIDE DEF a
          <6>3. Trim(Lines(node, From(a), a) \o Lines(node, a, Flushed))
                = Lines(node, From(Flushed), Flushed)
              BY <3>1, <3>3, <6>1, FlushLines
          <6> QED BY <5>1, <6>2, <6>3
        <5>3. CASE m = BufferMax
          <6>1. rawLogs' = messageBuffer
              BY <3>1, <5>1, <5>3, TrimFull
          <6>2. a = From(Flushed)
              BY <3>2, <3>3, <5>3 DEF From
          <6> QED BY <3>2, <6>1, <6>2
        <5>4. m \in Nat /\ m <= BufferMax /\ BufferMax \in Nat
            BY <3>2, <3>3
        <5>5. m < BufferMax \/ m = BufferMax
            BY <5>4
        <5> QED BY <5>2, <5>3, <5>5
      <4> QED BY <4>1, <4>2
    <3> QED BY <1>1, <2>1, <3>1, <3>4 DEF Followed
  <2>3. ASSUME node = NoNode PROVE Followed'
      BY <1>1, <2>3 DEF Followed
  <2> QED BY <2>1, <2>2, <2>3
<1> QED BY <1>2, <1>3 DEF LogsInv, LogsTypeOK

LEMMA StepLogs ==
    ASSUME RendersFirst, LogsInv, [LogsNext]_logsVars
    PROVE  LogsInv'
<1> DEFINE Q == ~paused => messageBuffer = <<>> /\ rendered = <<>>
<1>0. LogsTypeOK /\ LogsTypeOK'
    BY LogsTypes DEF LogsInv
<1> SUFFICES Followed' /\ Q'
    BY <1>0 DEF LogsInv
<1>j. Followed /\ Q
    BY DEF LogsInv
<1>1. ASSUME NEW S \in SUBSET Nodes, NodesChange(S) PROVE Followed' /\ Q'
  <2>1. CASE node \in S
      BY <1>1, <1>j, <2>1 DEF NodesChange, Followed, Flushed, Buffered
  <2>2. CASE node \notin S
    <3>1. PICK n \in (IF S = {} THEN {NoNode} ELSE S) : Follow(n)
        BY <1>1, <2>2 DEF NodesChange
    <3> QED BY <3>1, FollowLogs
  <2> QED BY <2>1, <2>2
<1>2. ASSUME NEW n \in connected, NodeChange(n) PROVE Followed' /\ Q'
    BY <1>0, <1>2, FollowLogs DEF NodeChange, LogsTypeOK
<1>3. CASE LineArrives
    BY <1>3, <1>j, LineLogs DEF LineArrives
<1>4. CASE Flush
  <2>1. Q'
    <3> SUFFICES ASSUME ~paused PROVE messageBuffer' = <<>> /\ rendered' = <<>>
        BY <1>4 DEF Flush
    <3> QED BY <1>4, <1>j DEF Flush
  <2> QED BY <1>4, <2>1, FlushLogs
<1>5. CASE Render
    BY <1>5, <1>j DEF Render, Followed, Flushed, Buffered
<1>6. CASE PauseResume
    BY <1>6, ResumeLogs
<1>7. CASE UNCHANGED logsVars
    BY <1>7, <1>j DEF logsVars, Followed, Flushed, Buffered
<1> QED BY <1>1, <1>2, <1>3, <1>4, <1>5, <1>6, <1>7 DEF LogsNext

LEMMA LogsHold == LogsInv => LogsComplete
<1> SUFFICES ASSUME LogsInv, node # NoNode, ~paused PROVE LogsComplete
    BY DEF LogsComplete
<1> DEFINE last == received - Len(pending)
           n == IF last < BufferMax THEN last ELSE BufferMax
<1>1. /\ node \in Nodes /\ received \in Nat /\ Len(pending) \in Nat /\ Len(pending) <= received
      /\ rawLogs = Lines(node, From(last), last)
    BY DEF LogsInv, LogsTypeOK, Followed, Flushed
<1>l. last \in Nat
    BY <1>1
<1> HIDE DEF last
<1>2. n = last - From(last) /\ last - n = From(last)
    BY <1>l, <1>1, NodeLogsAssumption DEF NodeLogsAssumption, From
<1>3. rawLogs = [i \in 1..n |-> <<node, last - n + i>>]
    BY <1>1, <1>2 DEF Lines
<1> QED BY <1>3 DEF LogsComplete, last

-----------------------------------------------------------------------------
(* The reality scan (RealityScan) *)

(* A scan that was not aborted is the one the dialog holds, and one that has ended waits for no *)
(* answer.                                                                                      *)
Held ==
    /\ isScanning <=> abortRef # NoScan
    /\ \A k \in Scans : scans[k].runs /\ ~scans[k].aborted => abortRef = k
    /\ \A k \in Scans : ~scans[k].runs => scans[k].busy = {}

ScanInv == ScanTypeOK /\ Held /\ RowsMatchScan

LEMMA ScanFacts ==
    /\ NoScan \notin Scans
    /\ NoJob \in [runs : BOOLEAN, waiting : SUBSET Targets, busy : SUBSET Targets,
                  aborted : BOOLEAN]
    /\ ~NoJob.runs /\ NoJob.busy = {}
BY RealityScanAssumption DEF RealityScanAssumption, Scans, NoJob

LEMMA InitScan == ScanInit => ScanInv
<1> SUFFICES ASSUME ScanInit PROVE ScanInv OBVIOUS
<1>1. ScanTypeOK
    BY ScanFacts DEF ScanInit, ScanTypeOK, Statuses
<1>2. Held /\ RowsMatchScan
    BY ScanFacts DEF ScanInit, Held, RowsMatchScan
<1> QED BY <1>1, <1>2 DEF ScanInv

(* Once the dialog has aborted the scan it holds, no scan is left that was not aborted. *)
LEMMA AbortedScans ==
    ASSUME ScanInv
    PROVE  /\ Aborted \in [Scans -> [runs : BOOLEAN, waiting : SUBSET Targets,
                                     busy : SUBSET Targets, aborted : BOOLEAN]]
           /\ \A k \in Scans : /\ Aborted[k].runs = scans[k].runs
                               /\ Aborted[k].busy = scans[k].busy
                               /\ Aborted[k].runs => Aborted[k].aborted
<1>1. /\ scans \in [Scans -> [runs : BOOLEAN, waiting : SUBSET Targets,
                              busy : SUBSET Targets, aborted : BOOLEAN]]
      /\ abortRef \in Scans \cup {NoScan}
      /\ \A k \in Scans : scans[k].runs /\ ~scans[k].aborted => abortRef = k
    BY DEF ScanInv, ScanTypeOK, Held
<1>2. CASE abortRef = NoScan
    BY <1>1, <1>2, ScanFacts DEF Aborted
<1>3. CASE abortRef # NoScan
    BY <1>1, <1>3 DEF Aborted
<1> QED BY <1>2, <1>3

LEMMA AnswerScan ==
    ASSUME ScanInv, NEW k \in Scans, NEW t \in Targets, NEW result \in {"done", "error"},
           ScanAnswer(k, t, result)
    PROVE  ScanInv'
<1> DEFINE job  == scans[k]
           next == IF job.aborted \/ job.waiting = {} THEN {}
                   ELSE {CHOOSE u \in job.waiting : TRUE}
           left == [job EXCEPT !.waiting = IF job.aborted THEN {} ELSE @ \ next,
                               !.busy = (@ \ {t}) \cup next]
           JobType == [runs : BOOLEAN, waiting : SUBSET Targets, busy : SUBSET Targets,
                       aborted : BOOLEAN]
<1>1. /\ t \in job.busy
      /\ rows' = Patched(k, t, result, next)
      /\ IF left.busy = {}
         THEN scans' = [scans EXCEPT ![k] = NoJob] /\ Finished(k)
         ELSE scans' = [scans EXCEPT ![k] = left] /\ UNCHANGED <<abortRef, isScanning>>
      /\ UNCHANGED <<dialog, list>>
    BY DEF ScanAnswer
<1>2. job \in JobType /\ job.runs /\ scans \in [Scans -> JobType]
    BY <1>1 DEF ScanInv, ScanTypeOK, Held
<1>3. next \subseteq job.waiting /\ (job.aborted => next = {})
    OBVIOUS
<1> HIDE DEF next
<1>4. /\ left \in JobType /\ left.runs /\ left.aborted = job.aborted
      /\ left.busy = (job.busy \ {t}) \cup next
      /\ ~job.aborted => left.waiting = job.waiting \ next
    BY <1>2, <1>3
<1> HIDE DEF job, left
<1>5. rows' \in [Targets -> Statuses]
    BY <1>1 DEF Patched, ScanInv, ScanTypeOK, Statuses
<1>6. CASE left.busy = {}
  <2>1. scans' = [scans EXCEPT ![k] = NoJob] /\ Finished(k)
      BY <1>1, <1>6
  <2>2. CASE abortRef = k
    <3>1. abortRef' = NoScan /\ isScanning' = FALSE
        BY <2>1, <2>2 DEF Finished
    <3>2. ScanTypeOK'
        BY <1>1, <1>2, <1>5, <2>1, <3>1, ScanFacts DEF ScanInv, ScanTypeOK
    <3>3. Held'
        BY <1>2, <2>1, <2>2, <3>1, ScanFacts DEF ScanInv, Held
    <3> QED BY <3>1, <3>2, <3>3 DEF ScanInv, RowsMatchScan
  <2>3. CASE abortRef # k
    <3>1. UNCHANGED <<abortRef, isScanning>>
        BY <2>1, <2>3 DEF Finished
    <3>2. job.aborted /\ rows' = rows
        BY <1>1, <1>2, <2>3 DEF ScanInv, Held, Patched, job
    <3>3. ScanTypeOK'
        BY <1>1, <1>2, <1>5, <2>1, <3>1, ScanFacts DEF ScanInv, ScanTypeOK
    <3>4. Held'
        BY <1>2, <2>1, <3>1, ScanFacts DEF ScanInv, Held
    <3>5. RowsMatchScan'
        BY <1>2, <2>1, <2>3, <3>1, <3>2 DEF ScanInv, ScanTypeOK, RowsMatchScan
    <3> QED BY <3>3, <3>4, <3>5 DEF ScanInv
  <2> QED BY <2>2, <2>3
<1>7. CASE left.busy # {}
  <2>1. scans' = [scans EXCEPT ![k] = left] /\ UNCHANGED <<abortRef, isScanning>>
      BY <1>1, <1>7
  <2>2. ScanTypeOK'
      BY <1>1, <1>2, <1>4, <1>5, <2>1 DEF ScanInv, ScanTypeOK
  <2>3. Held'
      BY <1>2, <1>4, <2>1 DEF ScanInv, Held, job
  <2>4. RowsMatchScan'
    <3> SUFFICES ASSUME isScanning
                 PROVE  /\ abortRef # NoScan /\ scans'[abortRef].runs /\ ~scans'[abortRef].aborted
                        /\ {u \in Targets : rows'[u] = "pending"} = scans'[abortRef].waiting
                        /\ {u \in Targets : rows'[u] = "scanning"} = scans'[abortRef].busy
        BY <2>1 DEF RowsMatchScan
    <3>1. /\ abortRef # NoScan /\ abortRef \in Scans
          /\ scans[abortRef].runs /\ ~scans[abortRef].aborted
          /\ {u \in Targets : rows[u] = "pending"} = scans[abortRef].waiting
          /\ {u \in Targets : rows[u] = "scanning"} = scans[abortRef].busy
        BY DEF ScanInv, RowsMatchScan, ScanTypeOK
    <3>2. CASE abortRef # k
      <4>1. job.aborted /\ rows' = rows
          BY <1>1, <1>2, <3>2 DEF ScanInv, Held, Patched, job
      <4> QED BY <1>2, <2>1, <3>1, <3>2, <4>1
    <3>3. CASE abortRef = k
      <4>1. ~job.aborted /\ scans'[abortRef] = left
          BY <1>2, <2>1, <3>1, <3>3 DEF job
      <4>2. rows' = [u \in Targets |-> IF u = t THEN result
                                       ELSE IF u \in next THEN "scanning" ELSE rows[u]]
          BY <1>1, <4>1 DEF Patched, job
      <4>3. /\ {u \in Targets : rows[u] = "pending"} = job.waiting
            /\ {u \in Targets : rows[u] = "scanning"} = job.busy
          BY <3>1, <3>3 DEF job
      <4>4. {u \in Targets : rows'[u] = "pending"} = job.waiting \ next
          BY <1>1, <1>3, <4>2, <4>3
      <4>5. {u \in Targets : rows'[u] = "scanning"} = (job.busy \ {t}) \cup next
          BY <1>1, <1>3, <4>2, <4>3
      <4> QED BY <1>4, <3>1, <4>1, <4>4, <4>5
    <3> QED BY <3>2, <3>3
  <2> QED BY <2>2, <2>3, <2>4 DEF ScanInv
<1> QED BY <1>6, <1>7

LEMMA StepScan == ScanInv /\ [ScanNext]_scanVars => ScanInv'
<1> SUFFICES ASSUME ScanInv, [ScanNext]_scanVars PROVE ScanInv' OBVIOUS
<1>1. ASSUME NEW S \in SUBSET Targets, OpenScan(S) \/ CloseScan \/ StopScan PROVE ScanInv'
  <2>1. /\ scans' = Aborted /\ abortRef' = NoScan /\ isScanning' = FALSE
        /\ dialog' \in BOOLEAN /\ list' \subseteq Targets /\ rows' \in [Targets -> Statuses]
      BY <1>1 DEF OpenScan, CloseScan, StopScan, ScanInv, ScanTypeOK, Statuses
  <2>2. ScanTypeOK'
      BY <2>1, AbortedScans DEF ScanTypeOK
  <2>3. Held'
      BY <2>1, AbortedScans DEF ScanInv, Held
  <2> QED BY <2>1, <2>2, <2>3 DEF ScanInv, RowsMatchScan
<1>2. ASSUME NEW S \in SUBSET Targets, EditTargets(S) PROVE ScanInv'
    BY <1>2 DEF EditTargets, ScanInv, ScanTypeOK, Held, RowsMatchScan
<1>3. ASSUME NEW k \in Scans, NEW first \in SUBSET Targets, StartScan(k, first) PROVE ScanInv'
  <2> DEFINE new == [runs |-> TRUE, waiting |-> list \ first, busy |-> first, aborted |-> FALSE]
  <2>1. /\ scans' = [Aborted EXCEPT ![k] = new] /\ abortRef' = k /\ isScanning' = TRUE
        /\ rows' = [t \in Targets |-> IF t \in first THEN "scanning"
                                      ELSE IF t \in list THEN "pending" ELSE "none"]
        /\ dialog' = dialog /\ list' = list /\ first \subseteq list /\ list \subseteq Targets
      BY <1>3 DEF StartScan, ScanInv, ScanTypeOK
  <2>2. /\ new \in [runs : BOOLEAN, waiting : SUBSET Targets, busy : SUBSET Targets,
                    aborted : BOOLEAN]
        /\ new.runs /\ ~new.aborted /\ new.waiting = list \ first /\ new.busy = first
      BY <2>1
  <2> HIDE DEF new
  <2>3. ScanTypeOK'
    <3>1. rows' \in [Targets -> Statuses]
        BY <2>1 DEF Statuses
    <3> QED BY <2>1, <2>2, <3>1, AbortedScans DEF ScanInv, ScanTypeOK
  <2>4. scans'[k] = new /\ \A j \in Scans : j # k => scans'[j] = Aborted[j]
      BY <2>1, AbortedScans
  <2>5. Held'
      BY <2>1, <2>2, <2>4, AbortedScans, ScanFacts DEF ScanInv, Held
  <2>6. RowsMatchScan'
    <3>1. {t \in Targets : rows'[t] = "pending"} = list \ first
        BY <2>1
    <3>2. {t \in Targets : rows'[t] = "scanning"} = first
        BY <2>1
    <3> QED BY <2>1, <2>2, <2>4, <3>1, <3>2, ScanFacts DEF RowsMatchScan
  <2> QED BY <2>3, <2>5, <2>6 DEF ScanInv
<1>4. ASSUME NEW k \in Scans, ScanStep(k) PROVE ScanInv'
    BY <1>4, AnswerScan DEF ScanStep
<1>5. CASE UNCHANGED scanVars
    BY <1>5 DEF scanVars, ScanInv, ScanTypeOK, Held, RowsMatchScan
<1>6. CASE CloseScan \/ StopScan
    BY <1>1, <1>6
<1> QED BY <1>1, <1>2, <1>3, <1>4, <1>5, <1>6 DEF ScanNext

-----------------------------------------------------------------------------
(* The panel wizard (PanelWizard) *)

(* The panel that is set up is the one the queue stands at. *)
AtQueue ==
    /\ local = IF queue = <<>> THEN NoPanel ELSE queue[index]
    /\ step \in 2..4 => queue # <<>>

(* A setup that still counts is one of the panel that is set up now. *)
SetupsFit == \A s \in setups : s.live => isOpen /\ step = 2 /\ s.panel = local

(* While the user waits for the answers of step 0 every request belongs to the step that is *)
(* shown.                                                                                   *)
Waited ==
    early = 0 =>
        /\ disconnect \/ confirm # "no" => step = 0
        /\ ~disconnect \/ confirm = "no"
        /\ importing # {} => isOpen /\ step = 1
        /\ syncing # NoPanel => isOpen /\ step = 4 /\ syncing = local
        /\ \A i \in 1..Len(queue) : i < index \/ step = 5 => queue[i] \in synced

WizardInv ==
    WizardTypeOK /\ AtQueue /\ SetupsFit /\ PhaseFits /\ OwnGroups /\ Waited

(* What a queue that is set up looks like. *)
LEMMA QueueFacts ==
    ASSUME NEW S \in SUBSET Panels, S # {}, NEW q \in SetToSeqs(S)
    PROVE  /\ q \in Seq(Panels) /\ q # <<>> /\ 1 \in DOMAIN q
           /\ q[1] \in Panels /\ Len(q) \in Nat /\ Len(q) >= 1
<1> DEFINE n == Cardinality(S)
<1>1. IsFiniteSet(S)
    BY PanelWizardAssumption, FS_Subset DEF PanelWizardAssumption
<1>2. n \in Nat /\ n # 0
    BY <1>1, FS_CardinalityType, FS_EmptySet
<1>3. q \in [1..n -> S]
    BY DEF SetToSeqs
<1> HIDE DEF n
<1>4. q \in [1..n -> Panels]
    BY <1>3
<1>5. q \in Seq(Panels)
    BY <1>2, <1>4, SeqDef
<1>6. DOMAIN q = 1..n /\ Len(q) = n
    BY <1>2, <1>4, <1>5
<1>7. 1 \in DOMAIN q
    BY <1>2, <1>6
<1> QED BY <1>2, <1>4, <1>5, <1>6, <1>7, EmptySeq

(* The effect starts a setup of the panel that is shown, and any other one is cancelled. *)
LEMMA SetupFits ==
    ASSUME WizardInv, NEW again \in BOOLEAN, NEW p \in {"idle", phase}, SetupEffect(again, p),
           prepared \subseteq prepared', local' \in Panels \cup {NoPanel},
           step' = 2 => local' # NoPanel, early' = 0 => early = 0,
           p = phase \/ again \/ step # 2 \/ step' # 2 \/ early' # 0
    PROVE  /\ phase' \in {"idle", "running", "ready", "error"}
           /\ setups' \subseteq [panel : Panels, live : BOOLEAN]
           /\ SetupsFit' /\ PhaseFits'
<1>1. /\ phase \in {"idle", "running", "ready", "error"}
      /\ setups \subseteq [panel : Panels, live : BOOLEAN]
    BY DEF WizardInv, WizardTypeOK
<1>2. /\ Cancelled \subseteq [panel : Panels, live : BOOLEAN]
      /\ \A s \in Cancelled : ~s.live
    BY <1>1 DEF Cancelled
<1>3. CASE ~again /\ isOpen' = isOpen /\ step' = step /\ local' = local
  <2>1. phase' = p /\ setups' = setups
      BY <1>3 DEF SetupEffect
  <2>2. SetupsFit'
      BY <1>3, <2>1 DEF WizardInv, SetupsFit
  <2>3. CASE p = phase
      BY <1>1, <1>3, <2>1, <2>2, <2>3 DEF WizardInv, PhaseFits
  <2>4. CASE p # phase
    <3>1. phase' = "idle" /\ (step' # 2 \/ early' # 0)
        BY <1>3, <2>1, <2>4
    <3>2. PhaseFits'
        BY <3>1 DEF PhaseFits
    <3> QED BY <1>1, <2>1, <2>2, <3>1, <3>2
  <2> QED BY <2>3, <2>4
<1>4. CASE /\ ~(~again /\ isOpen' = isOpen /\ step' = step /\ local' = local)
           /\ isOpen' /\ step' = 2 /\ local' # NoPanel
  <2>1. phase' = "running" /\ setups' = Cancelled \cup {[panel |-> local', live |-> TRUE]}
      BY <1>4 DEF SetupEffect
  <2>2. local' \in Panels
      BY <1>4
  <2> DEFINE new == [panel |-> local', live |-> TRUE]
  <2>3. /\ new \in [panel : Panels, live : BOOLEAN]
        /\ new.panel = local' /\ setups' = Cancelled \cup {new}
      BY <2>1, <2>2
  <2>4. new.live
      OBVIOUS
  <2> HIDE DEF new
  <2>5. SetupsFit'
      BY <1>2, <1>4, <2>3 DEF SetupsFit
  <2>6. PhaseFits'
    <3>1. new \in setups' /\ new.live /\ new.panel = local'
        BY <2>3, <2>4
    <3> QED BY <2>1, <3>1 DEF PhaseFits
  <2> QED BY <1>2, <2>1, <2>3, <2>5, <2>6
<1>5. CASE /\ ~(~again /\ isOpen' = isOpen /\ step' = step /\ local' = local)
           /\ ~(isOpen' /\ step' = 2 /\ local' # NoPanel)
  <2>1. phase' = p /\ setups' = Cancelled
      BY <1>5 DEF SetupEffect
  <2> QED BY <1>1, <1>2, <1>5, <2>1 DEF SetupsFit, PhaseFits
<1> QED BY <1>3, <1>4, <1>5

(* Steps after which the wizard stands where it stood. *)
LEMMA StandsStill ==
    ASSUME WizardInv, UNCHANGED <<isOpen, step, workVars, phase, setups, prepared>>,
           early' = 0 => early = 0
    PROVE  AtQueue' /\ SetupsFit' /\ PhaseFits' /\ OwnGroups'
BY DEF WizardInv, workVars, AtQueue, SetupsFit, PhaseFits, OwnGroups

(* Steps that only turn to another step of the same panel. *)
LEMMA Turns ==
    ASSUME WizardInv, UNCHANGED <<workVars, prepared>>, SetupEffect(FALSE, phase),
           step' \in 0..5, step' \in 2..4 => step \in 2..4, early' = 0 => early = 0
    PROVE  /\ phase' \in {"idle", "running", "ready", "error"}
           /\ setups' \subseteq [panel : Panels, live : BOOLEAN]
           /\ AtQueue' /\ SetupsFit' /\ PhaseFits' /\ OwnGroups'
<1>1. AtQueue'
    BY DEF WizardInv, AtQueue, workVars
<1>2. OwnGroups'
    BY DEF WizardInv, OwnGroups, workVars
<1>3. local' \in Panels \cup {NoPanel} /\ (step' = 2 => local' # NoPanel)
    BY PanelWizardAssumption
       DEF PanelWizardAssumption, WizardInv, WizardTypeOK, AtQueue, workVars
<1> QED BY <1>1, <1>2, <1>3, SetupFits DEF workVars

(* A queue is started, or its next panel. *)
LEMMA Moves ==
    ASSUME WizardInv, NEW again \in BOOLEAN, SetupEffect(again, "idle"),
           queue' \in Seq(Panels), index' \in DOMAIN queue', queue' # <<>>,
           local' = queue'[index'], chosen' = {}, step' = 2, prepared' = prepared,
           early' = 0 => early = 0, again \/ step # 2 \/ early' # 0
    PROVE  /\ phase' \in {"idle", "running", "ready", "error"}
           /\ setups' \subseteq [panel : Panels, live : BOOLEAN]
           /\ local' \in Panels
           /\ AtQueue' /\ SetupsFit' /\ PhaseFits' /\ OwnGroups'
<1>1. local' \in Panels
    BY ElementOfSeq
<1>2. local' # NoPanel
    BY <1>1, PanelWizardAssumption DEF PanelWizardAssumption
<1> QED BY <1>1, <1>2, SetupFits DEF AtQueue, OwnGroups

(* The two halves of the type invariant: what the server and the requests have, and where the *)
(* wizard stands.                                                                             *)
SentTypes ==
    /\ early \in 0..MaxEarly /\ linked \in BOOLEAN
    /\ imported \subseteq Panels /\ prepared \subseteq Panels /\ synced \subseteq Panels
    /\ status \in BOOLEAN /\ asks \subseteq BOOLEAN
    /\ starting \in BOOLEAN /\ confirm \in {"no", "sent", "reading"} /\ disconnect \in BOOLEAN
    /\ importing \subseteq Panels /\ syncing \in Panels \cup {NoPanel}

WorkTypes ==
    /\ isOpen \in BOOLEAN /\ step \in 0..5
    /\ queue \in Seq(Panels) /\ local \in Panels \cup {NoPanel}
    /\ index \in {1} \cup DOMAIN queue
    /\ phase \in {"idle", "running", "ready", "error"} /\ attempts \in BOOLEAN
    /\ chosen \subseteq Panels
    /\ setups \subseteq [panel : Panels, live : BOOLEAN]

LEMMA WizardTypeParts == WizardTypeOK <=> SentTypes /\ WorkTypes
BY DEF WizardTypeOK, SentTypes, WorkTypes

LEMMA InitWizard == WizardInit => WizardInv
<1> SUFFICES ASSUME WizardInit PROVE WizardInv OBVIOUS
<1>1. early \in 0..MaxEarly
    BY PanelWizardAssumption DEF PanelWizardAssumption, WizardInit
<1>2. queue \in Seq(Panels)
    BY EmptySeq DEF WizardInit
<1>3. WizardTypeOK
  <2>1. SentTypes
      BY <1>1 DEF WizardInit, SentTypes
  <2>2. index \in {1} \cup DOMAIN queue /\ local \in Panels \cup {NoPanel}
      BY DEF WizardInit
  <2>3. isOpen \in BOOLEAN /\ attempts \in BOOLEAN /\ chosen \subseteq Panels
      BY DEF WizardInit
  <2>6. step \in 0..5
      BY DEF WizardInit
  <2>4. /\ phase \in {"idle", "running", "ready", "error"}
        /\ setups \subseteq [panel : Panels, live : BOOLEAN]
      BY DEF WizardInit
  <2>5. WorkTypes
      BY <1>2, <2>2, <2>3, <2>4, <2>6 DEF WorkTypes
  <2> QED BY <2>1, <2>5, WizardTypeParts
<1>4. AtQueue /\ SetupsFit /\ PhaseFits /\ OwnGroups
    BY DEF WizardInit, AtQueue, SetupsFit, PhaseFits, OwnGroups
<1>5. Waited
    BY <1>2, EmptySeq DEF WizardInit, Waited
<1> QED BY <1>3, <1>4, <1>5 DEF WizardInv

(* GoOn counts what the user does before an answer of step 0 is there. *)
LEMMA EarlyCounts ==
    ASSUME SentTypes, GoOn \/ UNCHANGED early
    PROVE  /\ early' \in 0..MaxEarly
           /\ early' = 0 => early = 0
           /\ GoOn /\ early' = 0 => confirm = "no" /\ ~disconnect
<1>1. early \in Nat /\ early <= MaxEarly /\ MaxEarly \in Nat
    BY PanelWizardAssumption DEF PanelWizardAssumption, SentTypes
<1> QED BY <1>1 DEF GoOn

LEMMA ReadTypes ==
    ASSUME SentTypes, WorkTypes,
           \/ OpenWizard \/ CloseWizard
           \/ \E active, ok \in BOOLEAN : StatusArrives(active, ok)
           \/ StartConnect \/ Confirm \/ Disconnect \/ Continue
           \/ \E ok \in BOOLEAN : StartAnswers(ok) \/ ConfirmAnswers(ok)
                                  \/ Confirmed(ok) \/ DisconnectAnswers(ok)
    PROVE  SentTypes'
<1>1. CASE OpenWizard \/ CloseWizard
    BY <1>1 DEF OpenWizard, CloseWizard, SentTypes, serverVars, sentVars
<1>2. ASSUME NEW active \in BOOLEAN, NEW ok \in BOOLEAN, StatusArrives(active, ok)
      PROVE  SentTypes'
    BY <1>2 DEF StatusArrives, SentTypes, serverVars, sentVars
<1>3. CASE StartConnect
    BY <1>3 DEF StartConnect, SentTypes, serverVars
<1>4. CASE Confirm
    BY <1>4, EarlyCounts DEF Confirm, SentTypes, serverVars
<1>5. CASE Disconnect
    BY <1>5, EarlyCounts DEF Disconnect, SentTypes, serverVars
<1>6. CASE Continue
    BY <1>6, EarlyCounts DEF Continue, SentTypes, serverVars, sentVars
<1>7. ASSUME NEW ok \in BOOLEAN, StartAnswers(ok) PROVE SentTypes'
    BY <1>7 DEF StartAnswers, SentTypes, serverVars
<1>8. ASSUME NEW ok \in BOOLEAN, ConfirmAnswers(ok) PROVE SentTypes'
    BY <1>8 DEF ConfirmAnswers, SentTypes
<1>9. ASSUME NEW ok \in BOOLEAN, Confirmed(ok) PROVE SentTypes'
    BY <1>9 DEF Confirmed, SentTypes, serverVars
<1>10. ASSUME NEW ok \in BOOLEAN, DisconnectAnswers(ok) PROVE SentTypes'
    BY <1>10 DEF DisconnectAnswers, SentTypes
<1> QED BY <1>1, <1>2, <1>3, <1>4, <1>5, <1>6, <1>7, <1>8, <1>9, <1>10

LEMMA WorkSentTypes ==
    ASSUME SentTypes, WorkTypes,
           \/ \E S \in SUBSET Panels : Resume(S) \/ Import(S) \/ ImportFails(S) \/ Choose(S)
           \/ ImportAnswers
           \/ \E s \in setups, ok \in BOOLEAN : SetupAnswers(s, ok)
           \/ Retry \/ SelectGroups \/ ToSync \/ Sync \/ SyncAnswers \/ SyncFails \/ Back
    PROVE  SentTypes'
<1>1. ASSUME NEW S \in SUBSET Panels, Resume(S) PROVE SentTypes'
    BY <1>1, EarlyCounts DEF Resume, SentTypes, serverVars, sentVars
<1>2. ASSUME NEW S \in SUBSET Panels, Import(S) \/ ImportFails(S) \/ Choose(S) PROVE SentTypes'
    BY <1>2 DEF Import, ImportFails, Choose, SentTypes, serverVars, sentVars
<1>3. CASE ImportAnswers
    BY <1>3 DEF ImportAnswers, SentTypes
<1>4. ASSUME NEW s \in setups, NEW ok \in BOOLEAN, SetupAnswers(s, ok) PROVE SentTypes'
  <2>1. s.panel \in Panels
      BY DEF WorkTypes
  <2> QED BY <1>4, <2>1 DEF SetupAnswers, SentTypes, sentVars
<1>5. CASE Retry \/ SelectGroups \/ ToSync \/ Back
    BY <1>5 DEF Retry, SelectGroups, ToSync, Back, SentTypes, serverVars, sentVars
<1>6. CASE Sync
    BY <1>6 DEF Sync, SentTypes, WorkTypes, serverVars
<1>7. CASE SyncAnswers
    BY <1>7 DEF SyncAnswers, SentTypes
<1>8. CASE SyncFails
    BY <1>8 DEF SyncFails, SentTypes, serverVars
<1> QED BY <1>1, <1>2, <1>3, <1>4, <1>5, <1>6, <1>7, <1>8

LEMMA WizardSentTypes ==
    ASSUME WizardInv, WizardNext
    PROVE  SentTypes' /\ (early' = 0 => early = 0)
<1>1. SentTypes /\ WorkTypes
    BY WizardTypeParts DEF WizardInv
<1>2. SentTypes'
    BY <1>1, ReadTypes, WorkSentTypes DEF WizardNext
<1>3. GoOn \/ UNCHANGED early
    BY DEF WizardNext, OpenWizard, CloseWizard, StatusArrives, StartConnect, Confirm, Disconnect,
           Continue, StartAnswers, ConfirmAnswers, Confirmed, DisconnectAnswers, Resume, Import,
           ImportFails, Choose, ImportAnswers, SetupAnswers, Retry, SelectGroups, ToSync, Sync,
           SyncAnswers, SyncFails, Back
<1> QED BY <1>1, <1>2, <1>3, EarlyCounts

(* The steps that only turn. *)
Turning == \/ CloseWizard \/ Continue \/ SelectGroups \/ ToSync \/ Back
           \/ \E ok \in BOOLEAN : Confirmed(ok) \/ DisconnectAnswers(ok)

LEMMA TurningSteps ==
    ASSUME WizardInv, Turning
    PROVE  /\ UNCHANGED <<workVars, prepared, synced>> /\ SetupEffect(FALSE, phase)
           /\ isOpen' \in BOOLEAN /\ step' \in 0..5 /\ (step' \in 2..4 => step \in 2..4)
           /\ WizardNext
<1>1. isOpen \in BOOLEAN /\ step \in 0..5
    BY DEF WizardInv, WizardTypeOK
<1>4. WizardNext
    BY DEF Turning, WizardNext
<1>5. UNCHANGED <<workVars, prepared, synced>> /\ SetupEffect(FALSE, phase)
    BY DEF Turning, CloseWizard, Continue, SelectGroups, ToSync, Back, Confirmed,
           DisconnectAnswers, serverVars
<1>2. isOpen' \in BOOLEAN
    BY <1>1 DEF Turning, CloseWizard, Continue, SelectGroups, ToSync, Back, Confirmed,
                DisconnectAnswers
<1>3. step' \in 0..5 /\ (step' \in 2..4 => step \in 2..4)
  <2>1. CASE CloseWizard
      BY <1>1, <2>1 DEF CloseWizard
  <2>2. CASE Continue
      BY <2>2 DEF Continue
  <2>5. CASE SelectGroups
      BY <2>5 DEF SelectGroups
  <2>6. CASE ToSync
      BY <2>6 DEF ToSync
  <2>3. CASE Back
      BY <1>1, <2>3 DEF Back
  <2>4. ASSUME NEW ok \in BOOLEAN, Confirmed(ok)
        PROVE  step' \in 0..5 /\ (step' \in 2..4 => step \in 2..4)
      BY <2>4 DEF Confirmed
  <2>7. ASSUME NEW ok \in BOOLEAN, DisconnectAnswers(ok)
        PROVE  step' \in 0..5 /\ (step' \in 2..4 => step \in 2..4)
    <3>1. step' = 0 \/ step' = step
        BY <2>7 DEF DisconnectAnswers
    <3> QED BY <1>1, <3>1
  <2> QED BY <2>1, <2>2, <2>3, <2>4, <2>5, <2>6, <2>7 DEF Turning
<1> QED BY <1>2, <1>3, <1>4, <1>5 DEF Turning

LEMMA TurnWizard ==
    ASSUME WizardInv, Turning
    PROVE  WizardInv'
<1>1. WizardTypeOK'
  <2>1. SentTypes'
      BY TurningSteps, WizardSentTypes
  <2>2. /\ phase' \in {"idle", "running", "ready", "error"}
        /\ setups' \subseteq [panel : Panels, live : BOOLEAN]
      BY TurningSteps, WizardSentTypes, Turns
  <2>3. WorkTypes'
      BY <2>2, TurningSteps, WizardTypeParts DEF WizardInv, WorkTypes, workVars
  <2> QED BY <2>1, <2>3 DEF WizardTypeOK, SentTypes, WorkTypes
<1>2. Waited'
  <2> SUFFICES ASSUME early' = 0 PROVE Waited' BY DEF Waited
  <2>1. early = 0 /\ SentTypes
      BY TurningSteps, WizardSentTypes, WizardTypeParts DEF WizardInv
  <2>2. /\ disconnect \/ confirm # "no" => step = 0
        /\ ~disconnect \/ confirm = "no"
        /\ importing # {} => isOpen /\ step = 1
        /\ syncing # NoPanel => isOpen /\ step = 4 /\ syncing = local
      BY <2>1 DEF WizardInv, Waited
  <2>3. /\ disconnect' \/ confirm' # "no" => step' = 0
        /\ ~disconnect' \/ confirm' = "no"
        /\ importing' # {} => isOpen' /\ step' = 1
        /\ syncing' # NoPanel => isOpen' /\ step' = 4 /\ syncing' = local'
        /\ step' = 5 => step = 5
    <3>1. CASE CloseWizard
        BY <2>1, <2>2, <3>1 DEF SentTypes, CloseWizard, Busy, workVars, sentVars
    <3>2. CASE Continue
        BY <2>1, <2>2, <3>2, EarlyCounts DEF SentTypes, Continue, workVars, sentVars
    <3>3. CASE SelectGroups
        BY <2>1, <2>2, <3>3 DEF SentTypes, SelectGroups, workVars, sentVars
    <3>7. CASE ToSync
        BY <2>1, <2>2, <3>7 DEF SentTypes, ToSync, workVars, sentVars
    <3>4. CASE Back
        BY <2>1, <2>2, <3>4 DEF SentTypes, Back, Busy, workVars, sentVars
    <3>5. ASSUME NEW ok \in BOOLEAN, Confirmed(ok)
          PROVE  /\ disconnect' \/ confirm' # "no" => step' = 0
                 /\ ~disconnect' \/ confirm' = "no"
                 /\ importing' # {} => isOpen' /\ step' = 1
                 /\ syncing' # NoPanel => isOpen' /\ step' = 4 /\ syncing' = local'
                 /\ step' = 5 => step = 5
        BY <2>1, <2>2, <3>5 DEF SentTypes, Confirmed, workVars
    <3>6. ASSUME NEW ok \in BOOLEAN, DisconnectAnswers(ok)
          PROVE  /\ disconnect' \/ confirm' # "no" => step' = 0
                 /\ ~disconnect' \/ confirm' = "no"
                 /\ importing' # {} => isOpen' /\ step' = 1
                 /\ syncing' # NoPanel => isOpen' /\ step' = 4 /\ syncing' = local'
                 /\ step' = 5 => step = 5
        BY <2>1, <2>2, <3>6 DEF SentTypes, DisconnectAnswers, workVars
    <3> QED BY <3>1, <3>2, <3>3, <3>4, <3>5, <3>6, <3>7 DEF Turning
  <2>4. UNCHANGED <<queue, index, synced>>
      BY TurningSteps DEF workVars
  <2> QED BY <2>1, <2>3, <2>4 DEF WizardInv, Waited
<1> QED BY <1>1, <1>2, TurningSteps, WizardSentTypes, Turns DEF WizardInv

LEMMA OpenWizardInv == WizardInv /\ OpenWizard => WizardInv'
<1> SUFFICES ASSUME WizardInv, OpenWizard PROVE WizardInv' OBVIOUS
<1>1. queue' = <<>> /\ queue' \in Seq(Panels) /\ Len(queue') = 0
    BY EmptySeq DEF OpenWizard
<1>2. /\ phase' \in {"idle", "running", "ready", "error"}
      /\ setups' \subseteq [panel : Panels, live : BOOLEAN]
      /\ SetupsFit' /\ PhaseFits'
  <2> DEFINE old == [panel |-> local, live |-> FALSE]
  <2>1. /\ setups \subseteq [panel : Panels, live : BOOLEAN]
        /\ local \in Panels \cup {NoPanel}
      BY DEF WizardInv, WizardTypeOK
  <2>2. /\ Cancelled \subseteq [panel : Panels, live : BOOLEAN]
        /\ \A s \in Cancelled : ~s.live
      BY <2>1 DEF Cancelled
  <2>3. ~old.live /\ (local # NoPanel => old \in [panel : Panels, live : BOOLEAN])
      BY <2>1
  <2>4. /\ step' # 2 /\ phase' \in {"idle", "running"}
        /\ \/ setups' = Cancelled
           \/ local # NoPanel /\ setups' = Cancelled \cup {old}
    <3>1. step' # 2
        BY DEF OpenWizard
    <3>2. CASE step = 2 /\ local # NoPanel
        BY <3>1, <3>2 DEF OpenWizard
    <3>3. CASE ~(step = 2 /\ local # NoPanel)
        BY <3>1, <3>3 DEF OpenWizard
    <3> QED BY <3>2, <3>3
  <2> HIDE DEF old
  <2> QED BY <2>2, <2>3, <2>4 DEF SetupsFit, PhaseFits
<1>3. SentTypes'
    BY WizardSentTypes DEF WizardNext
<1>4. WorkTypes'
  <2>1. step' \in 0..5
      BY DEF OpenWizard
  <2>2. /\ index' \in {1} \cup DOMAIN queue' /\ local' \in Panels \cup {NoPanel}
        /\ isOpen' \in BOOLEAN /\ attempts' \in BOOLEAN /\ chosen' \subseteq Panels
      BY DEF OpenWizard
  <2> QED BY <1>1, <1>2, <2>1, <2>2 DEF WorkTypes
<1>5. AtQueue' /\ OwnGroups'
    BY <1>1 DEF OpenWizard, AtQueue, OwnGroups
<1>6. Waited'
    BY <1>1 DEF WizardInv, Waited, OpenWizard, serverVars, sentVars
<1> QED BY <1>2, <1>3, <1>4, <1>5, <1>6
        DEF WizardInv, WizardTypeOK, SentTypes, WorkTypes

(* Requests that are sent, and answers that leave the wizard where it stands. *)
Standing == \/ \E active, ok \in BOOLEAN : StatusArrives(active, ok)
            \/ StartConnect \/ Confirm \/ Disconnect
            \/ \E ok \in BOOLEAN : StartAnswers(ok) \/ ConfirmAnswers(ok)
            \/ \E S \in SUBSET Panels : Import(S) \/ ImportFails(S)
            \/ Sync \/ SyncFails

LEMMA StandWizard ==
    ASSUME WizardInv, Standing
    PROVE  WizardInv'
<1>1. UNCHANGED <<isOpen, step, workVars, phase, setups, prepared, synced>>
    BY DEF Standing, StatusArrives, StartConnect, Confirm, Disconnect, StartAnswers,
           ConfirmAnswers, Import, ImportFails, Sync, SyncFails, serverVars
<1>2. SentTypes' /\ (early' = 0 => early = 0) /\ SentTypes
    BY WizardSentTypes, WizardTypeParts DEF Standing, WizardNext, WizardInv
<1>3. WizardTypeOK'
    BY <1>1, <1>2 DEF WizardInv, WizardTypeOK, SentTypes, workVars
<1>4. Waited'
  <2> SUFFICES ASSUME early' = 0 PROVE Waited' BY DEF Waited
  <2>1. /\ disconnect \/ confirm # "no" => step = 0
        /\ ~disconnect \/ confirm = "no"
        /\ importing # {} => isOpen /\ step = 1
        /\ syncing # NoPanel => isOpen /\ step = 4 /\ syncing = local
      BY <1>2 DEF WizardInv, Waited
  <2>2. /\ disconnect' \/ confirm' # "no" => step = 0
        /\ ~disconnect' \/ confirm' = "no"
        /\ importing' # {} => isOpen /\ step = 1
        /\ syncing' # NoPanel => isOpen /\ step = 4 /\ syncing' = local
    <3> DEFINE Fits == /\ disconnect' \/ confirm' # "no" => step = 0
                       /\ ~disconnect' \/ confirm' = "no"
                       /\ importing' # {} => isOpen /\ step = 1
                       /\ syncing' # NoPanel => isOpen /\ step = 4 /\ syncing' = local
    <3>1. ASSUME NEW active \in BOOLEAN, NEW ok \in BOOLEAN, StatusArrives(active, ok) PROVE Fits
        BY <1>2, <2>1, <3>1 DEF StatusArrives, SentTypes, sentVars
    <3>2. CASE StartConnect
        BY <1>2, <2>1, <3>2 DEF StartConnect, SentTypes
    <3>3. CASE Confirm
        BY <1>2, <2>1, <3>3, EarlyCounts DEF Confirm, SentTypes
    <3>4. CASE Disconnect
        BY <1>2, <2>1, <3>4, EarlyCounts DEF Disconnect, SentTypes
    <3>5. ASSUME NEW ok \in BOOLEAN, StartAnswers(ok) PROVE Fits
        BY <1>2, <2>1, <3>5 DEF StartAnswers, SentTypes
    <3>6. ASSUME NEW ok \in BOOLEAN, ConfirmAnswers(ok) PROVE Fits
        BY <1>2, <2>1, <3>6 DEF ConfirmAnswers, SentTypes
    <3>7. ASSUME NEW S \in SUBSET Panels, Import(S) \/ ImportFails(S) PROVE Fits
        BY <1>2, <2>1, <3>7 DEF Import, ImportFails, SentTypes
    <3>8. CASE Sync \/ SyncFails
        BY <1>2, <2>1, <3>8 DEF Sync, SyncFails, SentTypes
    <3> QED BY <3>1, <3>2, <3>3, <3>4, <3>5, <3>6, <3>7, <3>8 DEF Standing
  <2>3. \A i \in 1..Len(queue) : i < index \/ step = 5 => queue[i] \in synced
      BY <1>2 DEF WizardInv, Waited
  <2> QED BY <1>1, <2>2, <2>3 DEF Waited, workVars
<1> QED BY <1>1, <1>2, <1>3, <1>4, StandsStill DEF WizardInv

LEMMA BeginWizard ==
    ASSUME WizardInv, ImportAnswers \/ \E S \in SUBSET Panels : Resume(S)
    PROVE  WizardInv'
<1>0. PICK S \in SUBSET Panels : S # {} /\ \E q \in SetToSeqs(S) : Begin(q)
    BY DEF ImportAnswers, Resume, WizardInv, WizardTypeOK
<1>1. PICK q \in SetToSeqs(S) : Begin(q)
    BY <1>0
<1>2. /\ queue' = q /\ index' = 1 /\ chosen' = {} /\ step' = 2 /\ local' = queue'[index']
      /\ isOpen' = isOpen /\ prepared' = prepared /\ synced' = synced
    BY <1>1 DEF Begin, ImportAnswers, Resume, serverVars
<1>3. /\ queue' \in Seq(Panels) /\ queue' # <<>> /\ index' \in DOMAIN queue'
    BY <1>0, <1>1, <1>2, QueueFacts
<1>4. PICK again \in BOOLEAN : SetupEffect(again, "idle")
    BY DEF ImportAnswers, Resume, WizardInv, WizardTypeOK
<1>5. SentTypes' /\ (early' = 0 => early = 0) /\ SentTypes /\ WorkTypes
    BY WizardSentTypes, WizardTypeParts DEF WizardNext, WizardInv
<1>6. step # 2 \/ early' # 0
  <2>1. CASE ImportAnswers
      BY <1>5, <2>1 DEF ImportAnswers, WizardInv, Waited
  <2>2. CASE \E T \in SUBSET Panels : Resume(T)
      BY <2>2 DEF Resume
  <2> QED BY <2>1, <2>2
<1>7. /\ phase' \in {"idle", "running", "ready", "error"}
      /\ setups' \subseteq [panel : Panels, live : BOOLEAN]
      /\ local' \in Panels
      /\ AtQueue' /\ SetupsFit' /\ PhaseFits' /\ OwnGroups'
    BY <1>2, <1>3, <1>4, <1>5, <1>6, Moves
<1>8. WorkTypes'
  <2>1. attempts' \in BOOLEAN
      BY <1>5 DEF ImportAnswers, Resume, WorkTypes
  <2>2. step' \in 0..5
      BY <1>2
  <2> QED BY <1>2, <1>3, <1>7, <1>5, <2>1, <2>2 DEF WorkTypes
<1>9. Waited'
  <2> SUFFICES ASSUME early' = 0 PROVE Waited' BY DEF Waited
  <2>1. /\ disconnect \/ confirm # "no" => step = 0
        /\ importing # {} => isOpen /\ step = 1
        /\ syncing # NoPanel => isOpen /\ step = 4 /\ syncing = local
      BY <1>5 DEF WizardInv, Waited
  <2>2. ~disconnect' /\ confirm' = "no" /\ importing' = {} /\ syncing' = NoPanel
    <3>1. CASE ImportAnswers
        BY <1>5, <2>1, <3>1 DEF ImportAnswers, SentTypes
    <3>2. ASSUME NEW T \in SUBSET Panels, Resume(T)
          PROVE  ~disconnect' /\ confirm' = "no" /\ importing' = {} /\ syncing' = NoPanel
        BY <1>5, <2>1, <3>2, EarlyCounts DEF Resume, sentVars, SentTypes
    <3> QED BY <3>1, <3>2
  <2>3. \A i \in 1..Len(queue') : ~(i < index' \/ step' = 5)
      BY <1>2
  <2> QED BY <2>2, <2>3 DEF Waited
<1> QED BY <1>7, <1>5, <1>8, <1>9
        DEF WizardInv, WizardTypeOK, SentTypes, WorkTypes

(* The answer of a setup and the selection of groups. *)
LEMMA PanelWizardStep ==
    ASSUME WizardInv,
           \/ \E s \in setups, ok \in BOOLEAN : SetupAnswers(s, ok)
           \/ \E S \in SUBSET Panels : Choose(S)
           \/ Retry
    PROVE  WizardInv'
<1>1. SentTypes' /\ (early' = 0 => early = 0) /\ SentTypes /\ WorkTypes
    BY WizardSentTypes, WizardTypeParts DEF WizardNext, WizardInv
<1>2. /\ UNCHANGED <<isOpen, step, queue, index, local, synced>>
      /\ UNCHANGED <<confirm, disconnect, importing, syncing>>
    BY DEF SetupAnswers, Choose, Retry, workVars, serverVars, sentVars
<1>3. Waited' /\ AtQueue'
    BY <1>1, <1>2 DEF WizardInv, Waited, AtQueue
<1>4. ASSUME NEW s \in setups, NEW ok \in BOOLEAN, SetupAnswers(s, ok) PROVE WizardInv'
  <2>1. /\ setups' = setups \ {s} /\ chosen' = chosen /\ attempts' = attempts
        /\ s \in [panel : Panels, live : BOOLEAN]
      BY <1>1, <1>4 DEF SetupAnswers, workVars, WorkTypes
  <2>2. prepared' = IF ok THEN prepared \cup {s.panel} ELSE prepared
      BY <1>4 DEF SetupAnswers
  <2>3. phase' = IF s.live THEN IF ok THEN "ready" ELSE "error" ELSE phase
      BY <1>4 DEF SetupAnswers, Shown
  <2>4. SetupsFit' /\ OwnGroups'
      BY <1>2, <2>1 DEF WizardInv, SetupsFit, OwnGroups
  <2>5. PhaseFits'
    <3>1. CASE s.live
        BY <1>2, <2>2, <2>3, <3>1 DEF WizardInv, SetupsFit, PhaseFits
    <3>2. CASE ~s.live
        BY <1>1, <1>2, <2>1, <2>2, <2>3, <3>2 DEF WizardInv, PhaseFits
    <3> QED BY <3>1, <3>2
  <2>6. WorkTypes'
      BY <1>1, <1>2, <2>1, <2>3 DEF WorkTypes
  <2> QED BY <1>1, <1>3, <2>4, <2>5, <2>6
          DEF WizardInv, WizardTypeOK, SentTypes, WorkTypes
<1>5. ASSUME NEW S \in SUBSET Panels, Choose(S) PROVE WizardInv'
  <2>1. /\ UNCHANGED <<phase, setups, prepared, attempts>> /\ chosen' = S /\ step = 3
        /\ S = {} \/ S = chosen \cup {local}
      BY <1>5 DEF Choose, serverVars
  <2>2. SetupsFit' /\ PhaseFits'
      BY <1>2, <2>1 DEF WizardInv, SetupsFit, PhaseFits
  <2>3. OwnGroups'
      BY <1>1, <1>2, <2>1 DEF WizardInv, OwnGroups
  <2>4. WorkTypes'
      BY <1>1, <1>2, <2>1 DEF WorkTypes
  <2> QED BY <1>1, <1>3, <2>2, <2>3, <2>4
          DEF WizardInv, WizardTypeOK, SentTypes, WorkTypes
<1>6. CASE Retry
  <2>1. /\ SetupEffect(TRUE, "idle") /\ prepared' = prepared /\ chosen' = chosen
        /\ attempts' = TRUE
      BY <1>6 DEF Retry, serverVars
  <2>2. step' = 2 => local' # NoPanel
      BY <1>1, <1>2, PanelWizardAssumption
         DEF PanelWizardAssumption, WizardInv, AtQueue, WorkTypes
  <2>3. /\ phase' \in {"idle", "running", "ready", "error"}
        /\ setups' \subseteq [panel : Panels, live : BOOLEAN]
        /\ SetupsFit' /\ PhaseFits'
      BY <1>1, <1>2, <2>1, <2>2, SetupFits DEF WorkTypes
  <2>4. OwnGroups'
      BY <1>2, <2>1 DEF WizardInv, OwnGroups
  <2>5. WorkTypes'
      BY <1>1, <1>2, <2>1, <2>3 DEF WorkTypes
  <2> QED BY <1>1, <1>3, <2>3, <2>4, <2>5
          DEF WizardInv, WizardTypeOK, SentTypes, WorkTypes
<1> QED BY <1>4, <1>5, <1>6

(* The panel that was synchronised is the one the queue stands at, or the user did not wait. *)
LEMMA SyncWizard == WizardInv /\ SyncAnswers => WizardInv'
<1> SUFFICES ASSUME WizardInv, SyncAnswers PROVE WizardInv' OBVIOUS
<1>1. SentTypes' /\ (early' = 0 => early = 0) /\ SentTypes /\ WorkTypes
    BY WizardSentTypes, WizardTypeParts DEF WizardNext, WizardInv
<1>2. /\ queue' = queue /\ isOpen' = isOpen /\ prepared' = prepared
      /\ synced' = synced \cup {syncing} /\ syncing # NoPanel /\ syncing' = NoPanel
      /\ UNCHANGED <<early, confirm, disconnect, importing>>
    BY DEF SyncAnswers
<1>3. queue \in Seq(Panels) /\ Len(queue) \in Nat /\ DOMAIN queue = 1..Len(queue)
    BY <1>1, LenProperties DEF WorkTypes
<1>4. ASSUME early = 0
      PROVE  /\ ~disconnect /\ confirm = "no" /\ importing = {}
             /\ isOpen /\ step = 4 /\ syncing = local
             /\ queue # <<>> /\ local = queue[index] /\ index \in 1..Len(queue)
             /\ \A i \in 1..Len(queue) : i < index => queue[i] \in synced
  <2>1. isOpen /\ step = 4 /\ syncing = local
      BY <1>2, <1>4 DEF WizardInv, Waited
  <2>2. ~disconnect /\ confirm = "no" /\ importing = {}
      BY <1>1, <1>4, <2>1 DEF WizardInv, Waited, SentTypes
  <2>3. queue # <<>> /\ local = queue[index]
      BY <2>1 DEF WizardInv, AtQueue
  <2>4. index \in 1..Len(queue)
      BY <1>1, <1>3, <2>3, EmptySeq DEF WorkTypes
  <2>5. \A i \in 1..Len(queue) : i < index => queue[i] \in synced
      BY <1>4 DEF WizardInv, Waited
  <2> QED BY <2>1, <2>2, <2>3, <2>4, <2>5
<1>5. CASE HasNext
  <2>1. /\ index' = index + 1 /\ local' = queue[index + 1] /\ chosen' = {}
        /\ step' = 2 /\ attempts' = TRUE /\ SetupEffect(TRUE, "idle")
      BY <1>5 DEF SyncAnswers, NextPanel
  <2>2. index \in Nat /\ index >= 1 /\ index < Len(queue)
      BY <1>1, <1>3, <1>5 DEF WorkTypes, HasNext
  <2>3. index' \in DOMAIN queue' /\ queue' # <<>> /\ local' = queue'[index']
      BY <1>2, <1>3, <2>1, <2>2, EmptySeq
  <2>4. /\ phase' \in {"idle", "running", "ready", "error"}
        /\ setups' \subseteq [panel : Panels, live : BOOLEAN]
        /\ local' \in Panels
        /\ AtQueue' /\ SetupsFit' /\ PhaseFits' /\ OwnGroups'
      BY <1>2, <1>3, <2>1, <2>3, Moves
  <2>5. WorkTypes'
    <3>1. step' \in 0..5
        BY <2>1
    <3> QED BY <1>1, <1>2, <2>1, <2>3, <2>4, <3>1 DEF WorkTypes
  <2>6. Waited'
    <3> SUFFICES ASSUME early = 0 PROVE Waited' BY <1>2 DEF Waited
    <3>1. \A i \in 1..Len(queue) : i < index + 1 => queue[i] \in synced \cup {syncing}
        BY <1>3, <1>4, <2>2
    <3>2. \A i \in 1..Len(queue') : i < index' \/ step' = 5 => queue'[i] \in synced'
        BY <1>2, <2>1, <3>1
    <3> QED BY <1>2, <1>4, <3>2 DEF Waited
  <2> QED BY <1>1, <2>4, <2>5, <2>6 DEF WizardInv, WizardTypeOK, SentTypes, WorkTypes
<1>6. CASE ~HasNext
  <2>1. /\ step' = 5 /\ UNCHANGED <<index, local, chosen, attempts>>
        /\ SetupEffect(FALSE, phase)
      BY <1>6 DEF SyncAnswers
  <2>2. /\ phase' \in {"idle", "running", "ready", "error"}
        /\ setups' \subseteq [panel : Panels, live : BOOLEAN]
        /\ SetupsFit' /\ PhaseFits'
    <3>1. /\ step' # 2 /\ local' \in Panels \cup {NoPanel} /\ prepared \subseteq prepared'
          /\ early' = 0 => early = 0
        BY <1>1, <1>2, <2>1 DEF WorkTypes
    <3> QED BY <2>1, <3>1, SetupFits
  <2>3. AtQueue' /\ OwnGroups'
      BY <1>2, <2>1 DEF WizardInv, AtQueue, OwnGroups
  <2>4. WorkTypes'
    <3>1. step' \in 0..5
        BY <2>1
    <3> QED BY <1>1, <1>2, <2>1, <2>2, <3>1 DEF WorkTypes
  <2>5. Waited'
    <3> SUFFICES ASSUME early = 0 PROVE Waited' BY <1>2 DEF Waited
    <3>1. index = Len(queue)
        BY <1>3, <1>4, <1>6 DEF HasNext
    <3>2. \A i \in 1..Len(queue) : queue[i] \in synced \cup {syncing}
        BY <1>3, <1>4, <3>1
    <3>3. \A i \in 1..Len(queue') : queue'[i] \in synced'
        BY <1>2, <3>2
    <3> QED BY <1>2, <1>4, <3>3 DEF Waited
  <2> QED BY <1>1, <2>2, <2>3, <2>4, <2>5 DEF WizardInv, WizardTypeOK, SentTypes, WorkTypes
<1> QED BY <1>5, <1>6

LEMMA StepWizard == WizardInv /\ [WizardNext]_wizardVars => WizardInv'
<1> SUFFICES ASSUME WizardInv, [WizardNext]_wizardVars PROVE WizardInv' OBVIOUS
<1>1. CASE WizardNext
    BY <1>1, OpenWizardInv, TurnWizard, StandWizard, BeginWizard, PanelWizardStep, SyncWizard
       DEF WizardNext, Turning, Standing
<1>2. CASE UNCHANGED wizardVars
  <2>1. Waited'
      BY <1>2 DEF wizardVars, serverVars, workVars, sentVars, WizardInv, Waited
  <2>2. WizardTypeOK'
      BY <1>2 DEF wizardVars, serverVars, workVars, sentVars, WizardInv, WizardTypeOK
  <2>3. UNCHANGED <<early, isOpen, step, workVars, phase, setups, prepared>>
      BY <1>2 DEF wizardVars, serverVars
  <2> QED BY <2>1, <2>2, <2>3, StandsStill DEF WizardInv
<1> QED BY <1>1, <1>2

LEMMA WizardHolds == WizardInv => AllSynced
<1> SUFFICES ASSUME WizardInv, early = 0, step = 5, NEW i \in 1..Len(queue)
             PROVE  queue[i] \in synced
    BY DEF AllSynced
<1> QED BY DEF WizardInv, Waited

-----------------------------------------------------------------------------
(* The dashboard *)

(* A step of the dashboard is a step of one page and leaves the others alone. *)
LEMMA PageSteps ==
    ASSUME [DashboardNext]_dashboardVars
    PROVE  /\ [EditorNext]_editorVars /\ [SearchNext]_searchVars /\ [LogsNext]_logsVars
           /\ [ScanNext]_scanVars /\ [WizardNext]_wizardVars
<1>1. CASE Editor /\ EditorNext
    BY <1>1 DEF Editor
<1>2. CASE Search /\ SearchNext
    BY <1>2 DEF Search
<1>3. CASE Logs /\ LogsNext
    BY <1>3 DEF Logs
<1>4. CASE Scan /\ ScanNext
    BY <1>4 DEF Scan
<1>5. CASE Wizard /\ WizardNext
    BY <1>5 DEF Wizard
<1>6. CASE UNCHANGED dashboardVars
    BY <1>6 DEF dashboardVars
<1> QED BY <1>1, <1>2, <1>3, <1>4, <1>5, <1>6 DEF DashboardNext

(* Every page and dialog stays within its types, whatever the user types, clicks and opens and *)
(* in whichever order the requests are answered.                                               *)
THEOREM DashboardTypes == DashboardSpec => []DashboardTypeOK
<1> DEFINE Types == Shape /\ SearchTypeOK /\ LogsTypeOK /\ ScanInv /\ WizardInv
<1>1. DashboardInit => Types
    BY InitShape, InitSearch, InitLogs, InitScan, InitWizard
       DEF DashboardInit, SearchInv, LogsInv
<1>2. Types /\ [DashboardNext]_dashboardVars => Types'
    BY PageSteps, NextShape, SearchTypes, LogsTypes, StepScan, StepWizard
<1>3. Types => DashboardTypeOK
    BY DEF Shape, ScanInv, WizardInv, DashboardTypeOK
<1> QED
    BY <1>1, <1>2, <1>3, PTL DEF DashboardSpec

(* The search field (use-debounced-search.ts, filters.tsx): once it has come to rest, the list is *)
(* filtered by what the user left in it last, by the owner of that link, or, if the link's answer *)
(* names no user, as before, however late links are resolved; unless that change was made while   *)
(* an earlier one had not been dealt with.                                                        *)
THEOREM SearchIsApplied == DashboardSpec => []SearchApplied
<1>1. DashboardInit => SearchInv
    BY InitSearch DEF DashboardInit
<1>2. SearchInv /\ [DashboardNext]_dashboardVars => SearchInv'
    BY PageSteps, StepSearch
<1>3. SearchInv => SearchApplied
    BY DEF SearchInv
<1> QED
    BY <1>1, <1>2, <1>3, PTL DEF DashboardSpec

(* The log of a node (_dashboard.nodes.logs.tsx): if a flush is rendered before the user resumes, *)
(* the page shows the newest lines of the selected node, each once, in order and without a gap,   *)
(* for every size of the buffer and however often the user pauses and changes the node.           *)
THEOREM LogsAreComplete ==
    ASSUME RendersFirst
    PROVE  DashboardSpec => []LogsComplete
<1>1. DashboardInit => LogsInv
    BY InitLogs DEF DashboardInit
<1>2. LogsInv /\ [DashboardNext]_dashboardVars => LogsInv'
    BY PageSteps, StepLogs
<1>3. LogsInv => LogsComplete
    BY LogsHold
<1> QED
    BY <1>1, <1>2, <1>3, PTL DEF DashboardSpec

(* The reality scan (reality-scan-dialog.tsx): while the dialog says it is scanning, the rows     *)
(* without a result are what the one scan that was not aborted still has to do, for any number of *)
(* targets and workers and however often a scan is stopped, closed and started again.             *)
THEOREM RowsAreOfTheScan == DashboardSpec => []RowsMatchScan
<1>1. DashboardInit => ScanInv
    BY InitScan DEF DashboardInit
<1>2. ScanInv /\ [DashboardNext]_dashboardVars => ScanInv'
    BY PageSteps, StepScan
<1>3. ScanInv => RowsMatchScan
    BY DEF ScanInv
<1> QED
    BY <1>1, <1>2, <1>3, PTL DEF DashboardSpec

LEMMA WizardInvariant == DashboardSpec => []WizardInv
<1>1. DashboardInit => WizardInv
    BY InitWizard DEF DashboardInit
<1>2. WizardInv /\ [DashboardNext]_dashboardVars => WizardInv'
    BY PageSteps, StepWizard
<1> QED
    BY <1>1, <1>2, PTL DEF DashboardSpec

(* The panel wizard (add-panel-wizard-modal.tsx, the effect that calls createTestUser): while a  *)
(* panel is prepared, "ready" says that the server has prepared it and "running" that a setup of *)
(* it will still be answered, whichever answers come late and however often the wizard is closed *)
(* and opened again; the phase is idle only for a user who left step 0 before its answers.       *)
THEOREM WizardPhaseFits == DashboardSpec => []PhaseFits
<1>1. WizardInv => PhaseFits
    BY DEF WizardInv
<1> QED
    BY <1>1, WizardInvariant, PTL

(* The panel wizard (beginPanelWorkflow, advanceToNextPanelOrFinish): what is chosen belongs to *)
(* the panel that is set up, for any number of panels and visits.                               *)
THEOREM WizardGroupsOwn == DashboardSpec => []OwnGroups
<1>1. WizardInv => OwnGroups
    BY DEF WizardInv
<1> QED
    BY <1>1, WizardInvariant, PTL

(* The panel wizard (advanceToNextPanelOrFinish): when it says that all panels have been synced, *)
(* they have, unless the user left step 0 before its answers were there.                         *)
THEOREM WizardSyncsAll == DashboardSpec => []AllSynced
    BY WizardHolds, WizardInvariant, PTL

(* What is proved of the core editor alone holds beside the other pages: they share no state. *)
THEOREM PagesCompose == DashboardSpec => EditorSpec
<1>1. DashboardInit => EditorInit
    BY DEF DashboardInit
<1>2. [DashboardNext]_dashboardVars => [EditorNext]_editorVars
    BY PageSteps
<1> QED
    BY <1>1, <1>2, PTL DEF DashboardSpec, EditorSpec
=============================================================================
