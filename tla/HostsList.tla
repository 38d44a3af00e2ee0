----------------------------- MODULE HostsList ------------------------------
(***************************************************************************)
(* The list of hosts that is reordered by dragging (hosts-list.tsx,        *)
(* handleDragEnd), the query it is filled from (_dashboard.hosts.tsx) and  *)
(* the request that stores the new order: PUT /hosts modifies or creates   *)
(* the hosts one after the other, each in a commit of its own (modify_hosts*)
(* of host.py, crud/host.py).                                              *)
(*                                                                         *)
(* A host is its id, what it contains and its priority; an edit replaces   *)
(* what it contains.  Other administrators edit and delete hosts.          *)
(***************************************************************************)
EXTENDS Naturals, Sequences, FiniteSets, SequencesExt

CONSTANTS
    MaxHosts,    \* hosts 1..MaxHosts exist at first
    MaxIds,      \* bound on the ids ever given
    Edits,
    Original     \* what a host contains before any edit

VARIABLES
    stored,      \* the rows of the database
    nextId,
    data,        \* what the query of the page holds
    fetched,     \* what a GET in flight has read, <<>> if there is none
    hosts,       \* the list that is shown
    before,      \* the list before the drag
    sent,        \* updatedHosts, the list the PUT carries
    handled,     \* how many of them the server has handled
    updating     \* isUpdatingPriorities

hostsVars == <<stored, nextId, data, fetched, hosts, before, sent, handled, updating>>

\* get_hosts: by ascending priority
Listed(rows) == SetToSortSeq(rows, LAMBDA a, b : a.priority < b.priority)

HostsInit ==
    /\ stored = {[id |-> i, content |-> Original, priority |-> i - 1] : i \in 1..MaxHosts}
    /\ nextId = MaxHosts + 1
    /\ data = Listed(stored) /\ hosts = Listed(stored)
    /\ fetched = <<>> /\ before = <<>> /\ sent = <<>>
    /\ handled = 0 /\ updating = FALSE

Refetch ==
    /\ fetched = <<>>
    /\ fetched' = <<Listed(stored)>>
    /\ UNCHANGED <<stored, nextId, data, hosts, before, sent, handled, updating>>

\* The effect that copies the data into the list runs only if the data has changed.
FetchArrives ==
    /\ fetched # <<>>
    /\ fetched' = <<>>
    /\ data' = fetched[1]
    /\ hosts' = IF fetched[1] # data THEN fetched[1] ELSE hosts
    /\ UNCHANGED <<stored, nextId, before, sent, handled, updating>>

\* arrayMove and the new priorities
Moved(list, i, j) ==
    LET host == list[i]
        moved == InsertAt(RemoveAt(list, i), j, host)
    IN  [k \in DOMAIN moved |-> [moved[k] EXCEPT !.priority = k - 1]]

\* handleDragEnd up to the request, which carries every host of the list in full.
Drag(i, j) ==
    /\ ~updating
    /\ i # j
    /\ before' = hosts
    /\ hosts' = Moved(hosts, i, j)
    /\ sent' = Moved(hosts, i, j) /\ handled' = 0
    /\ updating' = TRUE
    /\ UNCHANGED <<stored, nextId, data, fetched>>

\* One turn of the loop of modify_hosts: an id that is not found is created, under a new id.
HandleHost ==
    /\ updating /\ handled < Len(sent)
    /\ LET host == sent[handled + 1]
           old == {row \in stored : row.id = host.id}
       IN  IF old # {}
           THEN stored' = (stored \ old) \cup {host} /\ UNCHANGED nextId
           ELSE /\ nextId <= MaxIds
                /\ stored' = stored \cup {[host EXCEPT !.id = nextId]}
                /\ nextId' = nextId + 1
    /\ handled' = handled + 1
    /\ UNCHANGED <<data, fetched, hosts, before, sent, updating>>

\* The answer: the list keeps what was sent.
DragAnswered ==
    /\ updating /\ handled = Len(sent)
    /\ updating' = FALSE
    /\ hosts' = sent
    /\ UNCHANGED <<stored, nextId, data, fetched, before, sent, handled>>

\* A host is refused, or all are stored and the answer is lost: the list is as before the drag.
DragFails ==
    /\ updating
    /\ updating' = FALSE
    /\ hosts' = before
    /\ UNCHANGED <<stored, nextId, data, fetched, before, sent, handled>>

OtherEdits(row, e) ==
    /\ row.content # e
    /\ stored' = (stored \ {row}) \cup {[row EXCEPT !.content = e]}
    /\ UNCHANGED <<nextId, data, fetched, hosts, before, sent, handled, updating>>

OtherDeletes(row) ==
    /\ stored' = stored \ {row}
    /\ UNCHANGED <<nextId, data, fetched, hosts, before, sent, handled, updating>>

HostsNext ==
    \/ Refetch \/ FetchArrives
    \/ \E i, j \in DOMAIN hosts : Drag(i, j)
    \/ HandleHost \/ DragAnswered \/ DragFails
    \/ \E row \in stored : OtherDeletes(row) \/ \E e \in Edits : OtherEdits(row, e)

HostsSpec == HostsInit /\ [][HostsNext]_hostsVars

-----------------------------------------------------------------------------
Contents(rows) == {[id |-> row.id, content |-> row.content] : row \in rows}

\* A reorder changes priorities and nothing else: the same hosts exist before and after each host
\* it handles, with the same contents (hosts-list.tsx, "Make the API call to update priorities").
ReorderOnlyMoves == [][HandleHost => Contents(stored') = Contents(stored)]_hostsVars
=============================================================================
