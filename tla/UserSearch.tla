----------------------------- MODULE UserSearch -----------------------------
(***************************************************************************)
(* The search field above the list of users: the debounced text            *)
(* (hooks/use-debounced-search.ts), the effect that turns it into a filter *)
(* and resolves a subscription link into its user name (filters.tsx), and  *)
(* the filter of the table that feeds back into the field                  *)
(* (users-table.tsx).                                                      *)
(*                                                                         *)
(* A change of the filter is committed together with the effects it        *)
(* triggers.  A resolution is live while searchResolveIdRef still holds    *)
(* the number it was started with.                                         *)
(***************************************************************************)
EXTENDS Naturals

CONSTANTS
    Words,        \* what is searched for as it is
    Links,        \* subscription links
    Owner,        \* the user name the links resolve to
    Empty,
    Off           \* no debounce is pending

ASSUME UserSearchAssumption ==
    /\ Owner \in Words
    /\ Words \cap Links = {} /\ Empty \notin Words \cup Links
    /\ Off \notin Words \cup Links \cup {Empty}

VARIABLES
    input,        \* search: what the field shows
    waiting,      \* the text whose debounce is pending
    debounced,    \* debouncedSearch
    prev,         \* prevDebouncedSearchRef
    ignoreNext,   \* ignoreNextDebouncedSearchRef
    resolving,    \* requests for the user name of a link
    filter,       \* filters.search
    (* history of the last change the user made to the field *)
    meant,        \* the text the user left in it
    before,       \* the filter until then
    hasty,        \* an earlier change had not been dealt with
    unnamed       \* the answer for this link has named no user

changeVars == <<meant, before, hasty, unnamed>>
searchVars == <<input, waiting, debounced, prev, ignoreNext, resolving, filter, changeVars>>

Texts == Words \cup Links \cup {Empty}

SearchInit ==
    /\ input = Empty /\ debounced = Empty /\ prev = Empty /\ filter = Empty
    /\ meant = Empty /\ before = Empty /\ hasty = FALSE /\ unnamed = FALSE
    /\ waiting = Off
    /\ ignoreNext = FALSE
    /\ resolving = {}

\* The user leaves t in the field.  An earlier change has not been dealt with while its debounce is
\* pending, or while the flag a clear has raised is still up.
Changed(t) ==
    /\ meant' = t /\ before' = filter /\ unnamed' = FALSE
    /\ hasty' = (waiting # Off \/ ignoreNext)

\* searchResolveIdRef.current += 1
Outdated(requests) == {[r EXCEPT !.live = FALSE] : r \in requests}

\* handleFilterChange of the table, and what the field does when its initial value changes.
SetFilter(t, otherwise) ==
    IF t # filter
    THEN /\ filter' = t /\ input' = t /\ debounced' = t /\ prev' = t
         /\ waiting' = Off
    ELSE otherwise /\ UNCHANGED filter

TypeText(t) ==
    /\ t # input
    /\ input' = t /\ waiting' = t
    /\ Changed(t)
    /\ resolving' = Outdated(resolving)
    /\ UNCHANGED <<debounced, prev, ignoreNext, filter>>

\* Mutant of ClearText: a resolution that is under way stays live.
ClearKeeping ==
    /\ input # Empty
    /\ Changed(Empty)
    /\ SetFilter(Empty, /\ input' = Empty /\ waiting' = Empty
                        /\ prev' = debounced /\ UNCHANGED debounced)
    /\ ignoreNext' = (filter = Empty \/ debounced = Empty)
    /\ UNCHANGED resolving

\* clearSearch: the debounced effect that follows is to be ignored.  It follows at once when the
\* filter changes, else when the debounce fires.
ClearText ==
    /\ input # Empty
    /\ Changed(Empty)
    /\ resolving' = Outdated(resolving)
    /\ SetFilter(Empty, /\ input' = Empty /\ waiting' = Empty
                        /\ prev' = debounced /\ UNCHANGED debounced)
    /\ ignoreNext' = (filter = Empty \/ debounced = Empty)

\* The effect on debouncedSearch runs only if the value has changed.
DebounceFires ==
    LET t == waiting IN
    /\ t # Off
    /\ UNCHANGED changeVars
    /\ \/ /\ t = debounced
          /\ waiting' = Off
          /\ UNCHANGED <<input, debounced, prev, ignoreNext, resolving, filter>>
       \/ /\ t # debounced /\ ignoreNext
          /\ ignoreNext' = FALSE /\ prev' = t /\ debounced' = t /\ waiting' = Off
          /\ UNCHANGED <<input, resolving, filter>>
       \/ /\ t # debounced /\ ~ignoreNext /\ t = prev
          /\ debounced' = t /\ waiting' = Off
          /\ UNCHANGED <<input, prev, ignoreNext, resolving, filter>>
       \/ /\ t # debounced /\ ~ignoreNext /\ t # prev /\ t \in Links
          /\ debounced' = t /\ waiting' = Off /\ prev' = t
          /\ resolving' = Outdated(resolving) \cup {[link |-> t, live |-> TRUE]}
          /\ UNCHANGED <<input, ignoreNext, filter>>
       \/ /\ t # debounced /\ ~ignoreNext /\ t # prev /\ t \notin Links
          /\ resolving' = Outdated(resolving)
          /\ SetFilter(t, debounced' = t /\ waiting' = Off /\ prev' = t /\ UNCHANGED input)
          /\ UNCHANGED ignoreNext

\* The user name has arrived; or the answer names no user and the list stays as it was, under the
\* link in the field; or the request has failed and the link itself is searched for.
LinkResolved(r, answer) ==
    /\ resolving' = resolving \ {r}
    /\ UNCHANGED <<ignoreNext, meant, before, hasty>>
    /\ \/ /\ ~r.live
          /\ UNCHANGED <<input, waiting, debounced, prev, filter, unnamed>>
       \/ /\ r.live /\ answer = "named"
          /\ SetFilter(Owner, /\ input' = Owner /\ waiting' = Owner
                              /\ prev' = Owner /\ UNCHANGED debounced)
          /\ UNCHANGED unnamed
       \/ /\ r.live /\ answer = "unnamed"
          /\ unnamed' = TRUE
          /\ UNCHANGED <<input, waiting, debounced, prev, filter>>
       \/ /\ r.live /\ answer = "failed"
          /\ SetFilter(r.link, UNCHANGED <<input, waiting, debounced, prev>>)
          /\ UNCHANGED unnamed

SearchNext ==
    \/ \E t \in Texts : TypeText(t)
    \/ ClearText
    \/ DebounceFires
    \/ \E r \in resolving, answer \in {"named", "unnamed", "failed"} : LinkResolved(r, answer)

-----------------------------------------------------------------------------
SearchTypeOK ==
    /\ {input, debounced, prev, filter, meant, before} \subseteq Texts
    /\ waiting \in Texts \cup {Off}
    /\ {ignoreNext, hasty, unnamed} \subseteq BOOLEAN
    /\ resolving \subseteq [link : Links, live : BOOLEAN]

\* Once nothing is pending, the list is filtered by the text the user left in the field, or by the
\* user its link belongs to, or, if the answer for that link named no user, as it was before the link:
\* no late answer, cleared text or ignored effect leaves another filter behind.  A change made while
\* an earlier one was not dealt with may be swallowed (filters.tsx:291); the next one is not.
SearchApplied ==
    (waiting = Off /\ ~hasty /\ \A r \in resolving : ~r.live) =>
        \/ filter = meant
        \/ meant \in Links /\ filter = Owner
        \/ meant \in Links /\ unnamed /\ filter = before
=============================================================================
