----------------------------- MODULE SubBuffer ------------------------------
(***************************************************************************)
(* The buffer of subscription updates in one process:                      *)
(* app/subscription/sub_update_buffer.py.                                  *)
(*                                                                         *)
(* Requests append records; flushes write them to the database in batches. *)
(* Flushes are started by the loop, by a request that fills a batch and by *)
(* reads of administrators, one at a time drains the buffer.  A batch that *)
(* failed goes back in front of what has arrived meanwhile; a buffer that  *)
(* is too long loses its oldest records.  Records are numbered as they     *)
(* arrive.                                                                 *)
(***************************************************************************)
EXTENDS Integers, SequencesExt

CONSTANTS
    MaxBuffer,   \* _MAX_BUFFER
    BatchSize,   \* FLUSH_BATCH_SIZE
    MaxRecords,  \* bound: records that arrive
    MaxFailed    \* bound: flushes that fail

ASSUME SubBufferAssumption ==
    /\ MaxBuffer \in Nat /\ BatchSize \in Nat \ {0} /\ BatchSize <= MaxBuffer
    /\ MaxRecords \in Nat /\ MaxFailed \in Nat

VARIABLES
    pending,   \* _pending
    batch,     \* what the running flush has taken out
    drain,     \* who holds _drain_lock: nobody, the loop, or another flush
    served,    \* whether the process serves requests, shuts down or is gone
    arrived,   \* records so far
    written,   \* written[n]: rows of record n, one that has no user any more included
    dropped,   \* records the full buffer lost
    missing,   \* records that went with a cancelled flush or with the process
    failed

bufferVars == <<pending, batch, drain, served, arrived, written, dropped, missing, failed>>

Records == 1..MaxRecords

BufferInit ==
    /\ pending = <<>> /\ batch = <<>> /\ drain = "free" /\ served = "up"
    /\ arrived = 0 /\ written = [n \in Records |-> 0]
    /\ dropped = {} /\ missing = {} /\ failed = 0

-----------------------------------------------------------------------------
(* The buffer *)

\* Mutant of Overflow: the newest records go.
Newest(queue) == SubSeq(queue, 1, MaxBuffer)

\* Mutant of Front: the batch goes behind what has arrived.
Behind(queue) == queue \o batch

\* del _pending[:overflow].
Overflow(queue) == SubSeq(queue, Len(queue) - MaxBuffer + 1, Len(queue))

\* _pending[0:0] = batch.
PutBack(queue) == batch \o queue

Kept(queue) == IF Len(queue) > MaxBuffer THEN Overflow(queue) ELSE queue
Oldest(queue) == ToSet(queue) \ ToSet(Kept(queue))

\* queue_user_sub_update.
Queue ==
    /\ served = "up" /\ arrived < MaxRecords /\ arrived' = arrived + 1
    /\ pending' = Kept(Append(pending, arrived'))
    /\ dropped' = dropped \cup Oldest(Append(pending, arrived'))
    /\ UNCHANGED <<batch, drain, served, written, missing, failed>>

-----------------------------------------------------------------------------
(* flush_user_sub_updates *)

\* A flush waits for _drain_lock; the one of the shutdown comes after the loop has ended.
Flush(who) ==
    /\ drain = "free" /\ drain' = who
    /\ IF who = "last" THEN served = "stopping" ELSE served = "up"
    /\ UNCHANGED <<pending, batch, served, arrived, written, dropped, missing, failed>>

TakeBatch ==
    /\ drain # "free" /\ batch = <<>> /\ pending # <<>>
    /\ LET n == IF Len(pending) < BatchSize THEN Len(pending) ELSE BatchSize
       IN  batch' = SubSeq(pending, 1, n) /\ pending' = SubSeq(pending, n + 1, Len(pending))
    /\ UNCHANGED <<drain, served, arrived, written, dropped, missing, failed>>

\* The rows of the users that still exist are inserted and the transaction commits.
Written == written' = [n \in Records |-> written[n] + IF n \in ToSet(batch) THEN 1 ELSE 0]

Commit ==
    /\ batch # <<>> /\ Written /\ batch' = <<>>
    /\ UNCHANGED <<pending, drain, served, arrived, dropped, missing, failed>>

\* The end of a flush.  After the last one the process goes with what the buffer still holds.
EndsWith(queue) ==
    /\ drain' = "free" /\ batch' = <<>>
    /\ IF drain = "last"
       THEN served' = "gone" /\ pending' = <<>> /\ missing' = missing \cup ToSet(queue)
       ELSE pending' = queue /\ UNCHANGED <<served, missing>>

Drained ==
    /\ drain # "free" /\ batch = <<>> /\ pending = <<>> /\ EndsWith(pending)
    /\ UNCHANGED <<arrived, written, dropped, failed>>

\* The transaction raises, and may have committed all the same: the batch is put back.
FlushFails ==
    /\ batch # <<>> /\ failed < MaxFailed /\ failed' = failed + 1
    /\ Written \/ UNCHANGED written
    /\ EndsWith(Kept(PutBack(pending)))
    /\ dropped' = dropped \cup Oldest(PutBack(pending))
    /\ UNCHANGED arrived

\* stop_sub_update_flusher cancels the loop.  A cancelled flush does not put its batch back
\* (CancelledError is no Exception); its transaction may have committed.
ShutDown ==
    /\ served = "up" /\ served' = "stopping"
    /\ IF drain = "loop"
       THEN /\ drain' = "free" /\ batch' = <<>>
            /\ \/ Written /\ UNCHANGED missing
               \/ UNCHANGED written /\ missing' = missing \cup ToSet(batch)
       ELSE UNCHANGED <<drain, batch, written, missing>>
    /\ UNCHANGED <<pending, arrived, dropped, failed>>

BufferNext ==
    \/ Queue
    \/ \E who \in {"loop", "other", "last"} : Flush(who)
    \/ TakeBatch \/ Commit \/ FlushFails \/ Drained \/ ShutDown

BufferSpec == BufferInit /\ [][BufferNext]_bufferVars

-----------------------------------------------------------------------------
(* Properties *)

BufferTypeOK ==
    /\ {pending, batch} \subseteq Seq(Records)
    /\ drain \in {"free", "loop", "other", "last"} /\ served \in {"up", "stopping", "gone"}
    /\ arrived \in 0..MaxRecords /\ failed \in 0..MaxFailed
    /\ written \in [Records -> 0..(MaxFailed + 1)]
    /\ dropped \subseteq Records /\ missing \subseteq Records

\* What is still to be written, in order.
Held == batch \o pending

\* No record disappears by itself, none is written twice unless a transaction failed without
\* saying that it had committed, and a full buffer loses its oldest records: whatever arrives,
\* fails or is put back during a flush, all that was dropped is older than all that is kept.
RecordsKept ==
    /\ \A n \in 1..arrived :
          \/ n \in ToSet(Held) \cup dropped \cup missing
          \/ written[n] > 0
    /\ failed = 0 => \A n \in Records :
          written[n] + Cardinality({i \in DOMAIN Held : Held[i] = n}) <= 1
    /\ \A n \in ToSet(pending), d \in dropped : d < n
=============================================================================
