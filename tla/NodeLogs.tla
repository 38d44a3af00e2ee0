------------------------------ MODULE NodeLogs ------------------------------
(***************************************************************************)
(* The page that follows the log of one node (_dashboard.nodes.logs.tsx):  *)
(* the stream of the selected node, the lines that wait for a flush, the   *)
(* list that is shown and the buffer that grows while the user has paused  *)
(* it.                                                                     *)
(*                                                                         *)
(* A line is the node it comes from and its number in the stream.  The     *)
(* handler of the button reads the buffer of the last render; the effects  *)
(* of a change of the selected node run with the change.                   *)
(***************************************************************************)
EXTENDS Naturals, Sequences

CONSTANTS
    Nodes,
    NoNode,
    BufferMax,     \* RAW_LOG_BUFFER_MAX
    MaxLines,      \* bound on the lines of one stream
    RendersFirst   \* a flush is rendered before the next click

ASSUME NodeLogsAssumption ==
    /\ NoNode \notin Nodes
    /\ BufferMax \in Nat \ {0} /\ MaxLines \in Nat
    /\ RendersFirst \in BOOLEAN

VARIABLES
    connected,     \* connectedNodes
    node,          \* selectedNode
    received,      \* lines the stream has delivered
    pending,       \* lines that wait for the flush
    flushTimer,
    rawLogs,       \* what is shown
    messageBuffer, \* what arrived while paused
    rendered,      \* messageBuffer of the last render
    paused

logsVars == <<connected, node, received, pending, flushTimer, rawLogs, messageBuffer, rendered,
              paused>>

LogsInit ==
    /\ connected = {}
    /\ node = NoNode
    /\ received = 0 /\ pending = <<>> /\ flushTimer = FALSE
    /\ rawLogs = <<>> /\ messageBuffer = <<>> /\ rendered = <<>>
    /\ paused = FALSE

\* Mutant of Trim: the oldest lines are kept.
TrimNewest(lines) == IF Len(lines) <= BufferMax THEN lines ELSE SubSeq(lines, 1, BufferMax)

\* appendTrim, on the concatenation
Trim(lines) ==
    IF Len(lines) <= BufferMax THEN lines ELSE SubSeq(lines, Len(lines) - BufferMax + 1, Len(lines))

\* The cleanup of the stream's effect, and the effect for the node that is now selected.
Follow(n) ==
    /\ node' = n
    /\ pending' = <<>> /\ flushTimer' = FALSE
    /\ IF n = NoNode
       THEN UNCHANGED <<received, rawLogs, messageBuffer, rendered, paused>>
       ELSE /\ received' = 0
            /\ rawLogs' = <<>> /\ messageBuffer' = <<>> /\ rendered' = <<>>
            /\ paused' = FALSE

\* The list of nodes has been fetched: a selected node that is gone is replaced by another one.
NodesChange(S) ==
    /\ connected' = S
    /\ IF node \in S
       THEN UNCHANGED <<node, received, pending, flushTimer, rawLogs, messageBuffer, rendered,
                        paused>>
       ELSE \E n \in (IF S = {} THEN {NoNode} ELSE S) : Follow(n)

\* handleNodeChange
NodeChange(n) ==
    /\ n # node
    /\ Follow(n)
    /\ UNCHANGED connected

LineArrives ==
    /\ node # NoNode
    /\ received < MaxLines
    /\ received' = received + 1
    /\ pending' = Append(pending, <<node, received + 1>>)
    /\ flushTimer' = TRUE
    /\ UNCHANGED <<connected, node, rawLogs, messageBuffer, rendered, paused>>

\* flushPending
Flush ==
    /\ flushTimer
    /\ flushTimer' = FALSE
    /\ pending' = <<>>
    /\ IF paused
       THEN messageBuffer' = Trim(messageBuffer \o pending) /\ UNCHANGED rawLogs
       ELSE rawLogs' = Trim(rawLogs \o pending) /\ UNCHANGED messageBuffer
    /\ UNCHANGED <<connected, node, received, rendered, paused>>

Render ==
    /\ rendered # messageBuffer
    /\ rendered' = messageBuffer
    /\ UNCHANGED <<connected, node, received, pending, flushTimer, rawLogs, messageBuffer, paused>>

\* handlePauseResume
PauseResume ==
    /\ RendersFirst => rendered = messageBuffer
    /\ paused' = ~paused
    /\ IF paused /\ rendered # <<>>
       THEN /\ rawLogs' = Trim(rawLogs \o rendered)
            /\ messageBuffer' = <<>> /\ rendered' = <<>>
       ELSE UNCHANGED <<rawLogs, messageBuffer, rendered>>
    /\ UNCHANGED <<connected, node, received, pending, flushTimer>>

LogsNext ==
    \/ \E S \in SUBSET Nodes : NodesChange(S)
    \/ \E n \in connected : NodeChange(n)
    \/ LineArrives
    \/ Flush
    \/ Render
    \/ PauseResume

-----------------------------------------------------------------------------
LogLines == (Nodes \X Nat)

LogsTypeOK ==
    /\ connected \subseteq Nodes
    /\ node \in Nodes \cup {NoNode}
    /\ received \in 0..MaxLines
    /\ pending \in Seq(LogLines) /\ flushTimer \in BOOLEAN
    /\ rawLogs \in Seq(LogLines) /\ messageBuffer \in Seq(LogLines) /\ rendered \in Seq(LogLines)
    /\ paused \in BOOLEAN

\* Unless it is paused, the page shows the newest lines of the selected node that were flushed,
\* each once, in order and without a gap, whatever was paused and resumed before and whichever
\* node was followed before (_dashboard.nodes.logs.tsx, handlePauseResume and flushPending).
LogsComplete ==
    (node # NoNode /\ ~paused) =>
        LET last == received - Len(pending)
            n == IF last < BufferMax THEN last ELSE BufferMax
        IN  rawLogs = [i \in 1..n |-> <<node, last - n + i>>]
=============================================================================
